------------------------------- MODULE Epoch -------------------------------
(***************************************************************************)
(* How the history of one thread is cut up and condensed: turns fall into  *)
(* the open segment of the active epoch, segments are frozen and summed up *)
(* by a job, epochs roll over and are condensed into a checkpoint          *)
(* (runtime/epoch_manager.py, runtime/compaction.py, the three handlers in *)
(* worker/outbox_handlers.py, the idle scanner and the reconciler in       *)
(* worker/scheduler_daemon.py, api/routes_epochs.py).                      *)
(*                                                                         *)
(* Every transaction that creates a turn, freezes a segment or rolls an    *)
(* epoch holds the row lock of the thread: each is one action.  The text   *)
(* of a summary is left out; a manifest is the set of turns it names and   *)
(* those of them that had their reply in it.                               *)
(***************************************************************************)
EXTENDS Naturals, FiniteSets

CONSTANTS Turn,         \* turn_sequence: numbers, taken in order
          Segment,      \* rows of segments: numbers, taken in order
          EpochNo,      \* epoch_no
          Worker, NoJob,
          MaxSegments,  \* max_segments_per_epoch
          MinTurns,     \* min_segment_turn_records
          MaxTurns,     \* max_segment_turn_records
          MaxRetries,   \* OutboxJob.max_retries
          Forgettable,  \* bound: turns the user may have forgotten
          MaxRare       \* bound: rare events of all kinds in one behaviour: crashes,
                        \* errors, forgets, blocked states, rollovers by hand, ...

ASSUME EpochAssumption ==
    /\ Turn \subseteq Nat \ {0} /\ Segment \subseteq Nat \ {0}
    /\ EpochNo \subseteq Nat \ {0} /\ 1 \in EpochNo
    /\ Forgettable \subseteq Turn
    /\ MaxSegments \in Nat \ {0} /\ MaxRetries \in Nat \ {0}
    /\ MinTurns \in Nat /\ MaxTurns \in Nat /\ MaxRare \in Nat

VARIABLES turn, seg, epoch,
          idle,         \* Thread.last_activity_at is older than the threshold
          ws,           \* WorkingState: clear, waiting for something, or with
                        \* an item whose source cannot be named
          hidden,       \* turns behind a forget shield
          job, run,     \* outbox_jobs; compaction_runs and checkpoint_runs
          work,         \* what each poll thread executes
          rare          \* rare events so far, for MaxRare

epochVars == <<turn, seg, epoch, idle, ws, hidden, job, run, work, rare>>

Job == ({"seal"} \X Segment) \cup ({"roll", "check"} \X EpochNo)
Kind(j) == j[1]
Target(j) == j[2]

TurnRow == [status : {"none", "fresh", "stale", "running", "done"},
            seg : Segment \cup {0}, late : BOOLEAN]
SegmentRow == [status : {"none", "open", "sealing", "sealed", "gone"},
               epoch : EpochNo \cup {0}, pending : BOOLEAN,
               manifest : SUBSET Turn, replied : SUBSET Turn]
EpochRow == [status : {"none", "active", "sealing", "sealed"},
             sources : SUBSET Segment, digest : SUBSET Segment]
JobRow == [status : {"none", "pending", "running", "completed", "deadletter"},
           token : Nat, live : BOOLEAN, retries : 0 .. MaxRetries - 1]
RunRow == [status : {"none", "running", "failed", "succeeded", "deadletter"}, token : Nat]
Work == [job : Job \cup {NoJob}, token : Nat, retries : 0 .. MaxRetries - 1,
         phase : {"idle", "claimed", "summarise", "commit", "completed", "failed", "refused"}]

NoTurn == [status |-> "none", seg |-> 0, late |-> FALSE]
NoSegment == [status |-> "none", epoch |-> 0, pending |-> FALSE,
              manifest |-> {}, replied |-> {}]
NoEpoch == [status |-> "none", sources |-> {}, digest |-> {}]
NoRow == [status |-> "none", token |-> 0, live |-> FALSE, retries |-> 0]
NoRun == [status |-> "none", token |-> 0]
NoWork == [job |-> NoJob, token |-> 0, retries |-> 0, phase |-> "idle"]

Pending == [NoRow EXCEPT !.status = "pending"]
OpenSegment(e) == [NoSegment EXCEPT !.status = "open", !.epoch = e]
Active == [NoEpoch EXCEPT !.status = "active"]

TurnsOf(s) == {t \in Turn : turn[t].status # "none" /\ turn[t].seg = s}
SegsOf(e) == {s \in Segment : seg[s].status \notin {"none", "gone"} /\ seg[s].epoch = e}
SealedIn(e) == {s \in SegsOf(e) : seg[s].status = "sealed"}
TurnsIn(e) == UNION {TurnsOf(s) : s \in SegsOf(e)}
ActiveEpoch(e) == epoch[e].status = "active"
Frozen(s) == seg[s].status \in {"sealing", "sealed"}
InFlight(j) == job[j].status \in {"pending", "running"}

\* The next row of segments.
IsNext(s) == /\ seg[s].status = "none"
             /\ \A i \in Segment : i < s => seg[i].status # "none"
-------------------------------------------------------------------------------
(* Turns and the segment they belong to *)

\* ensure_epoch_and_segment: the active epoch and its open segment, or new ones.
Attribute(t, status) ==
    LET row(s) == [status |-> status, seg |-> s, late |-> FALSE] IN
    \/ \E s \in Segment :
          /\ seg[s].status = "open" /\ ActiveEpoch(seg[s].epoch)
          /\ turn' = [turn EXCEPT ![t] = row(s)]
          /\ UNCHANGED <<seg, epoch>>
    \/ \E s \in Segment :
          /\ \A e \in EpochNo : ~ActiveEpoch(e)
          /\ IsNext(s)
          /\ epoch' = [epoch EXCEPT ![1] = Active]
          /\ seg' = [seg EXCEPT ![s] = OpenSegment(1)]
          /\ turn' = [turn EXCEPT ![t] = row(s)]

\* A user message is stored as a turn that has not started; a proactive
\* message is a turn that is complete from the start.
CreateTurn(t, status) ==
    /\ turn[t].status = "none"
    /\ \A u \in Turn : u < t => turn[u].status # "none"
    /\ status = "done" => \A u \in Turn : turn[u].status # "running"
    /\ Attribute(t, status)
    /\ idle' = FALSE
    /\ UNCHANGED <<ws, hidden, job, run, work, rare>>

\* The request, or the retry of it with the same turn_id, gets the lease.  A
\* turn_id keeps the segment it was given, however long ago.
RunTurn(t) ==
    /\ turn[t].status \in {"fresh", "stale"}
    /\ \A u \in Turn : turn[u].status # "running"
    /\ turn' = [turn EXCEPT ![t] = [@ EXCEPT !.status = "running",
                                             !.late = (turn[t].status = "stale")]]
    /\ idle' = FALSE
    /\ UNCHANGED <<seg, epoch, ws, hidden, job, run, work, rare>>

\* _finalize_turn, or any other end: a segment that has grown to the limit is marked.
FinishTurn(t) ==
    LET s == turn[t].seg IN
    /\ turn[t].status = "running"
    /\ turn' = [turn EXCEPT ![t].status = "done"]
    /\ seg' = IF seg[s].status = "open" /\ Cardinality(TurnsOf(s)) >= MaxTurns
              THEN [seg EXCEPT ![s].pending = TRUE] ELSE seg
    /\ idle' = FALSE
    /\ UNCHANGED <<epoch, ws, hidden, job, run, work, rare>>

\* The context of a running turn is past the soft limit (mark_pending_seal).
MarkPending(s) ==
    /\ seg[s].status = "open" /\ ~seg[s].pending
    /\ \E t \in Turn : turn[t].status = "running"
    /\ seg' = [seg EXCEPT ![s].pending = TRUE]
    /\ UNCHANGED <<turn, epoch, idle, ws, hidden, job, run, work, rare>>

\* An hour passes over a turn that was never started ...
GrowStale(t) ==
    /\ turn[t].status = "fresh" /\ rare < MaxRare
    /\ turn' = [turn EXCEPT ![t].status = "stale"]
    /\ rare' = rare + 1
    /\ UNCHANGED <<seg, epoch, idle, ws, hidden, job, run, work>>

\* ... or a quarter of an hour over a thread without activity.
GoIdle ==
    /\ ~idle
    /\ idle' = TRUE
    /\ UNCHANGED <<turn, seg, epoch, ws, hidden, job, run, work, rare>>

\* Approvals, side effects and tools come and go; so do items without a source.
ChangeWorkingState(v) ==
    /\ ws # v /\ (ws = "clear" => rare < MaxRare) /\ (ws # "clear" => v = "clear")
    /\ ws' = v
    /\ rare' = IF v = "clear" THEN rare ELSE rare + 1
    /\ UNCHANGED <<turn, seg, epoch, idle, hidden, job, run, work>>

\* The shield waits for the handlers that hold the shared authorization.
Forget(t) ==
    /\ turn[t].status = "done" /\ t \in Forgettable \ hidden /\ rare < MaxRare
    /\ \A w \in Worker : work[w].phase \notin {"summarise", "commit"}
    /\ hidden' = hidden \cup {t}
    /\ rare' = rare + 1
    /\ UNCHANGED <<turn, seg, epoch, idle, ws, job, run, work>>
-------------------------------------------------------------------------------
(* Freezing a segment: begin_segment_sealing and who calls it *)

\* Mutant: only a turn that is running blocks.
BlockingRunning(t) == turn[t].status = "running"

\* _blocking_turn_condition
Blocking(t) == turn[t].status \in {"fresh", "running"}

\* freeze_segment_for_sealing raises on these.
CannotFreeze(s) == (\E t \in TurnsOf(s) : Blocking(t)) \/ ws = "unresolved"

Sealable(s) ==
    /\ seg[s].status = "open"
    /\ ~\E t \in Turn : Blocking(t)
    /\ ws = "clear"
    /\ TurnsOf(s) # {}
    /\ \A o \in Segment : seg[o].status # "sealing"

Freeze(s) == [seg[s] EXCEPT !.status = "sealing", !.manifest = TurnsOf(s),
                            !.replied = {t \in TurnsOf(s) : turn[t].status = "done"}]

\* On top of jobs: the segment, its successor in the same epoch, its job.
SealOnto(jobs, s) ==
    \E n \in Segment :
        /\ IsNext(n)
        /\ seg' = [seg EXCEPT ![s] = Freeze(s), ![n] = OpenSegment(seg[s].epoch)]
        /\ job' = [jobs EXCEPT ![<<"seal", s>>] = Pending]

\* What the scanner and the reconciler look for.
Due(s) == /\ seg[s].status = "open" /\ TurnsOf(s) # {}
          /\ \/ seg[s].pending
             \/ idle /\ Cardinality(TurnsOf(s)) >= MinTurns

\* _idle_scanner_job reads its candidates first, but begin_segment_sealing asks
\* again under the lock, a mark is never taken back and turns never leave.
SealByScanner(s) ==
    /\ Due(s) /\ Sealable(s)
    /\ SealOnto(job, s)
    /\ UNCHANGED <<turn, epoch, idle, ws, hidden, run, work, rare>>

\* POST /{thread_id}/seal-segment
SealByUser(s) ==
    /\ Sealable(s)
    /\ SealOnto(job, s)
    /\ UNCHANGED <<turn, epoch, idle, ws, hidden, run, work, rare>>
-------------------------------------------------------------------------------
(* Rolling an epoch over: begin_epoch_sealing *)

\* Its own reasons for doing nothing; the job's source guard has the last two.
Unsourced(e) == TurnsIn(e) \cap hidden # {} \/ ws = "unresolved"
RolloverStale(e) == (\E s \in Segment : seg[s].status = "sealing") \/ Unsourced(e)
RolloverRaises(e) == \E s \in SegsOf(e) : seg[s].status = "open" /\ CannotFreeze(s)

\* Mutant: the frozen epoch stays active until its checkpoint.
RollStaysActive(e) ==
    \E n \in Segment :
       /\ e + 1 \in EpochNo /\ IsNext(n)
       /\ seg' = [seg EXCEPT ![n] = OpenSegment(e + 1)]
       /\ epoch' = [epoch EXCEPT ![e + 1] = Active]
       /\ UNCHANGED job

\* Mutant: the segment that is frozen with the epoch is not among its sources.
SealedSources(e) == SealedIn(e)

\* What the checkpoint of the epoch will be built from.
SourcesOf(e) == {s \in SegsOf(e) : seg[s].status # "open" \/ TurnsOf(s) # {}}

\* An empty open segment is deleted, another one frozen without a successor.
Roll(e) ==
    LET empty == {s \in SegsOf(e) : seg[s].status = "open" /\ TurnsOf(s) = {}}
        full == {s \in SegsOf(e) : seg[s].status = "open" /\ TurnsOf(s) # {}}
    IN \E n \in Segment :
       /\ e + 1 \in EpochNo /\ IsNext(n)
       /\ seg' = [s \in Segment |->
                    CASE s = n -> OpenSegment(e + 1)
                      [] s \in empty -> [NoSegment EXCEPT !.status = "gone"]
                      [] s \in full -> Freeze(s)
                      [] OTHER -> seg[s]]
       /\ epoch' = [epoch EXCEPT ![e] = [@ EXCEPT !.status = "sealing",
                                                  !.sources = SourcesOf(e)],
                                 ![e + 1] = Active]
       /\ job' = [j \in Job |-> IF Kind(j) = "seal" /\ Target(j) \in full
                                THEN Pending ELSE job[j]]

\* POST /{thread_id}/rollover
RollByUser(e) ==
    /\ ActiveEpoch(e) /\ ~RolloverStale(e) /\ ~RolloverRaises(e)
    /\ Roll(e)
    /\ rare < MaxRare /\ rare' = rare + 1
    /\ UNCHANGED <<turn, idle, ws, hidden, run, work>>
-------------------------------------------------------------------------------
(* The jobs: claims, leases and results, as the outbox handles them *)

Claim(w, j) ==
    /\ work[w].phase = "idle"
    /\ \/ job[j].status = "pending"
       \/ job[j].status = "running" /\ ~job[j].live
    /\ job' = [job EXCEPT ![j] = [@ EXCEPT !.status = "running", !.live = TRUE,
                                           !.token = job[j].token + 1]]
    /\ work' = [work EXCEPT ![w] = [job |-> j, token |-> job[j].token + 1,
                                    retries |-> job[j].retries, phase |-> "claimed"]]
    /\ UNCHANGED <<turn, seg, epoch, idle, ws, hidden, run, rare>>

Holds(w) == LET j == work[w].job IN
    job[j].status = "running" /\ job[j].token = work[w].token

\* _claim_matches: the token, and a lease that has not run out.
ClaimMatches(w) == Holds(w) /\ job[work[w].job].live

Goto(w, phase) == work' = [work EXCEPT ![w].phase = phase]
Drop(w) == work' = [work EXCEPT ![w] = NoWork]

\* _mark_phase3_run_failed: the run this worker holds.
RunFailed(w) == LET j == work[w].job IN
    run' = IF run[j].status = "running" /\ run[j].token = work[w].token
           THEN [run EXCEPT ![j] = [status |-> "failed", token |-> 0]] ELSE run

\* What a job is made of is behind a shield ...
Forgotten(j) ==
    CASE Kind(j) = "seal" -> seg[Target(j)].manifest \cap hidden # {}
      [] Kind(j) = "check" ->
            \E s \in epoch[Target(j)].sources : seg[s].manifest \cap hidden # {}
      [] OTHER -> \E e \in EpochNo : ActiveEpoch(e) /\ Unsourced(e)

\* ... or not all there yet: guard_job_sources_visible
GuardStops(j) ==
    \/ Forgotten(j)
    \/ Kind(j) = "check" /\ LET sources == epoch[Target(j)].sources IN
          sources = {} \/ \E s \in sources : seg[s].status # "sealed"

\* The guard and Phase A of the sealing and the checkpoint handler.
\* _resolve_phase3_run: the run of the job is created, or taken over.
OpenRun(w) ==
    LET j == work[w].job IN
    /\ work[w].phase = "claimed" /\ Kind(j) # "roll"
    /\ UNCHANGED <<turn, seg, epoch, idle, ws, hidden, job, rare>>
    /\ IF ~ClaimMatches(w) THEN Drop(w) /\ UNCHANGED run
       ELSE IF GuardStops(j) \/ (Kind(j) = "seal" /\ seg[Target(j)].status = "sealed")
                 \/ run[j].status = "succeeded"
       THEN Goto(w, "completed") /\ UNCHANGED run
       ELSE /\ run' = [run EXCEPT ![j] = [status |-> "running", token |-> work[w].token]]
            /\ Goto(w, IF Kind(j) = "seal" THEN "summarise" ELSE "commit")

LastAttempt(w) == work[w].retries + 1 >= MaxRetries

\* Mutant: no extract on the last attempt.
SummariseStrict(w, modelAnswers) ==
    /\ work[w].phase = "summarise"
    /\ IF modelAnswers THEN Goto(w, "commit") /\ UNCHANGED run
       ELSE Goto(w, "failed") /\ RunFailed(w)
    /\ UNCHANGED <<turn, seg, epoch, idle, ws, hidden, job, rare>>

\* Phase B: the model's summary, or, on the last attempt, an extract.
Summarise(w, modelAnswers) ==
    /\ work[w].phase = "summarise"
    /\ IF modelAnswers \/ LastAttempt(w)
       THEN Goto(w, "commit") /\ UNCHANGED run
       ELSE Goto(w, "failed") /\ RunFailed(w)
    /\ UNCHANGED <<turn, seg, epoch, idle, ws, hidden, job, rare>>

\* _enqueue_epoch_jobs, inside Phase C; ON CONFLICT DO NOTHING.
EpochJobs(e) ==
    (IF ActiveEpoch(e) /\ Cardinality(SealedIn(e)) + 1 >= MaxSegments
     THEN {<<"roll", e>>} ELSE {}) \cup
    (IF epoch[e].status = "sealing" /\ Cardinality(SegsOf(e) \ SealedIn(e)) = 1
     THEN {<<"check", e>>} ELSE {})

AddMissing(jobs) ==
    [j \in Job |-> IF j \in jobs /\ job[j].status = "none" THEN Pending ELSE job[j]]

RunMatches(w) == run[work[w].job] = [status |-> "running", token |-> work[w].token]

\* Phase C of the sealing handler.
CommitSummary(w) ==
    LET j == work[w].job
        s == Target(j) IN
    /\ work[w].phase = "commit" /\ Kind(j) = "seal"
    /\ UNCHANGED <<turn, epoch, idle, ws, hidden, rare>>
    /\ IF ClaimMatches(w) /\ RunMatches(w) /\ seg[s].status = "sealing"
       THEN /\ seg' = [seg EXCEPT ![s].status = "sealed"]
            /\ run' = [run EXCEPT ![j].status = "succeeded"]
            /\ job' = AddMissing(EpochJobs(seg[s].epoch))
            /\ Goto(w, "completed")
       ELSE Drop(w) /\ UNCHANGED <<seg, run, job>>

\* Phases B and C of the checkpoint handler: the summaries there are.
CommitCheckpoint(w) ==
    LET j == work[w].job
        e == Target(j) IN
    /\ work[w].phase = "commit" /\ Kind(j) = "check"
    /\ UNCHANGED <<turn, seg, idle, ws, hidden, job, rare>>
    /\ IF ClaimMatches(w) /\ RunMatches(w)
       THEN /\ epoch' = [epoch EXCEPT ![e] = [@ EXCEPT !.status = "sealed",
                                                       !.digest = SealedIn(e)]]
            /\ run' = [run EXCEPT ![j].status = "succeeded"]
            /\ Goto(w, "completed")
       ELSE Drop(w) /\ UNCHANGED <<epoch, run>>

\* handle_epoch_rollover: one transaction, on whatever epoch is active now.
HandleRollover(w) ==
    LET j == work[w].job IN
    /\ work[w].phase = "claimed" /\ Kind(j) = "roll"
    /\ UNCHANGED <<turn, idle, ws, hidden, run, rare>>
    /\ \/ ~ClaimMatches(w) /\ Drop(w) /\ UNCHANGED <<seg, epoch, job>>
       \/ \E e \in EpochNo :
             /\ ClaimMatches(w) /\ ActiveEpoch(e)
             /\ \/ /\ RolloverStale(e)
                   /\ Goto(w, "completed") /\ UNCHANGED <<seg, epoch, job>>
                \/ /\ ~RolloverStale(e) /\ RolloverRaises(e)
                   /\ Goto(w, "failed") /\ UNCHANGED <<seg, epoch, job>>
                \/ /\ ~RolloverStale(e) /\ ~RolloverRaises(e)
                   /\ Roll(e)
                   /\ Goto(w, "completed")

\* The worker settles the row if it still holds the claim.
Closed(j, s) == [job[j] EXCEPT !.status = s, !.live = FALSE]

FinishJob(w) ==
    LET j == work[w].job
        buried == \/ work[w].phase = "refused"
                  \/ work[w].phase = "failed" /\ LastAttempt(w) IN
    /\ work[w].phase \in {"completed", "failed", "refused"}
    /\ Drop(w)
    /\ job' = IF ~Holds(w) THEN job
              ELSE IF work[w].phase = "completed"
              THEN [job EXCEPT ![j] = Closed(j, "completed")]
              ELSE IF buried THEN [job EXCEPT ![j] = Closed(j, "deadletter")]
              ELSE [job EXCEPT ![j] = [Closed(j, "pending")
                                       EXCEPT !.retries = work[w].retries + 1]]
    /\ run' = IF Holds(w) /\ buried /\ run[j].status \in {"running", "failed"}
              THEN [run EXCEPT ![j] = [status |-> "deadletter", token |-> 0]] ELSE run
    /\ UNCHANGED <<turn, seg, epoch, idle, ws, hidden, rare>>
-------------------------------------------------------------------------------
(* Rare events of the workers, and time *)

\* A database error in Phase B or C, or a check that no retry would pass: a hash
\* of an event that has changed, a summary that does not cover its sources.
HandlerFails(w, phase) ==
    /\ work[w].phase \in {"summarise", "commit"} /\ rare < MaxRare
    /\ rare' = rare + 1
    /\ RunFailed(w)
    /\ Goto(w, phase)
    /\ UNCHANGED <<turn, seg, epoch, idle, ws, hidden, job>>

\* The process dies before or after what it committed last.
Crash(w) ==
    /\ work[w].phase # "idle" /\ rare < MaxRare
    /\ rare' = rare + 1
    /\ Drop(w)
    /\ UNCHANGED <<turn, seg, epoch, idle, ws, hidden, job, run>>

\* It stalls for longer than the lease, and may come back.
Stall(w) ==
    /\ work[w].phase # "idle" /\ rare < MaxRare
    /\ ClaimMatches(w)
    /\ rare' = rare + 1
    /\ job' = [job EXCEPT ![work[w].job].live = FALSE]
    /\ UNCHANGED <<turn, seg, epoch, idle, ws, hidden, run, work>>

LeaseExpires(j) ==
    /\ job[j].status = "running" /\ job[j].live
    /\ ~\E w \in Worker : work[w].job = j /\ work[w].token = job[j].token
    /\ job' = [job EXCEPT ![j].live = FALSE]
    /\ UNCHANGED <<turn, seg, epoch, idle, ws, hidden, run, work, rare>>
-------------------------------------------------------------------------------
(* _enqueue_reconciler_job *)

\* Mutant: only rollovers are looked after.
MissingRollovers ==
    {<<"roll", e>> : e \in {e \in EpochNo :
        /\ ActiveEpoch(e) /\ Cardinality(SealedIn(e)) >= MaxSegments
        /\ ~InFlight(<<"roll", e>>)}}

Missing ==
    {<<"roll", e>> : e \in {e \in EpochNo :
        /\ ActiveEpoch(e) /\ Cardinality(SealedIn(e)) >= MaxSegments
        /\ ~InFlight(<<"roll", e>>)}} \cup
    {<<"check", e>> : e \in {e \in EpochNo :
        /\ epoch[e].status = "sealing"
        /\ SegsOf(e) # {} /\ SealedIn(e) = SegsOf(e)
        /\ ~InFlight(<<"check", e>>)}}

\* A job it wants to add has run before.  OutboxWorker.enqueue is a plain
\* INSERT: operation_id is not unique any more and the whole pass is undone.
PassFails == \E j \in Missing : job[j].status # "none"

Reconcile ==
    /\ ~PassFails
    /\ \/ \E s \in Segment : Due(s) /\ Sealable(s) /\ SealOnto(AddMissing(Missing), s)
       \/ /\ ~\E s \in Segment : Due(s) /\ Sealable(s)
          /\ job' = AddMissing(Missing)
          /\ UNCHANGED seg
    /\ UNCHANGED <<turn, epoch, idle, ws, hidden, run, work, rare>>
-------------------------------------------------------------------------------
Init ==
    /\ turn = [t \in Turn |-> NoTurn]
    /\ seg = [s \in Segment |-> NoSegment]
    /\ epoch = [e \in EpochNo |-> NoEpoch]
    /\ idle = FALSE /\ ws = "clear" /\ hidden = {}
    /\ job = [j \in Job |-> NoRow]
    /\ run = [j \in Job |-> NoRun]
    /\ work = [w \in Worker |-> NoWork]
    /\ rare = 0

Handle(w) ==
    \/ OpenRun(w) \/ CommitSummary(w) \/ CommitCheckpoint(w) \/ HandleRollover(w)
    \/ \E ok \in BOOLEAN : Summarise(w, ok)
    \/ FinishJob(w)

Next ==
    \/ \E t \in Turn : \/ CreateTurn(t, "fresh") \/ CreateTurn(t, "done")
                       \/ RunTurn(t) \/ FinishTurn(t) \/ GrowStale(t) \/ Forget(t)
    \/ GoIdle
    \/ \E v \in {"clear", "waiting", "unresolved"} : ChangeWorkingState(v)
    \/ \E s \in Segment : MarkPending(s) \/ SealByScanner(s) \/ SealByUser(s)
    \/ \E e \in EpochNo : RollByUser(e)
    \/ Reconcile
    \/ \E w \in Worker : \/ \E j \in Job : Claim(w, j)
                         \/ Handle(w)
                         \/ HandlerFails(w, "failed") \/ HandlerFails(w, "refused")
                         \/ Crash(w) \/ Stall(w)
    \/ \E j \in Job : LeaseExpires(j)

\* Turns end, handlers return, rows are claimed, the reconciler comes round.
Fairness ==
    /\ \A t \in Turn : WF_epochVars(FinishTurn(t))
    /\ \A w \in Worker : WF_epochVars(Handle(w))
    /\ WF_epochVars(\E w \in Worker, j \in Job : Claim(w, j))
    /\ WF_epochVars(\E j \in Job : LeaseExpires(j))
    /\ WF_epochVars(Reconcile)

Spec == Init /\ [][Next]_epochVars
FairSpec == Spec /\ Fairness
-------------------------------------------------------------------------------
TypeOK ==
    /\ turn \in [Turn -> TurnRow] /\ seg \in [Segment -> SegmentRow]
    /\ epoch \in [EpochNo -> EpochRow]
    /\ idle \in BOOLEAN /\ ws \in {"clear", "waiting", "unresolved"} /\ hidden \subseteq Turn
    /\ job \in [Job -> JobRow] /\ run \in [Job -> RunRow] /\ work \in [Worker -> Work]
    /\ rare \in 0 .. MaxRare

\* One front: a thread has at most one active epoch, at most one segment that
\* takes turns, which is the active epoch's, and at most one being sealed, so
\* that the order of segments is the order of turns (and all keeps its type).
OneFront ==
    /\ TypeOK
    /\ \A d, e \in EpochNo : ActiveEpoch(d) /\ ActiveEpoch(e) => d = e
    /\ \A s \in Segment : seg[s].status = "open" =>
          /\ ActiveEpoch(seg[s].epoch)
          /\ \A o \in Segment : seg[o].status = "open" => o = s
    /\ \A s, o \in Segment : seg[s].status = "sealing" /\ seg[o].status = "sealing" => o = s

\* The history reader shows no turn up to the end of the last frozen segment.
\* Each of those is in the manifest of its segment, with its reply if it has
\* one; only a turn that was started more than an hour after it was sent can
\* have its reply in neither place.
NothingFallsBetween ==
    \A s \in Segment : Frozen(s) => \A t \in seg[s].manifest : \A u \in Turn :
        turn[u].status # "none" /\ u <= t =>
           LET own == seg[turn[u].seg] IN
           /\ u \in own.manifest
           /\ turn[u].status = "done" => u \in own.replied \/ turn[u].late

\* A checkpoint stands for a whole epoch: all its segments are sealed, it is
\* built from all of them, and they are those frozen when it was rolled over.
CheckpointWhole ==
    \A e \in EpochNo : epoch[e].status = "sealed" =>
        /\ SegsOf(e) # {} /\ SealedIn(e) = SegsOf(e)
        /\ epoch[e].digest = SegsOf(e) /\ epoch[e].sources = SegsOf(e)

\* What a frozen segment or epoch waits for in vain: a job that an error in its
\* last attempt has buried, a forgotten turn.
Abandoned(j) == (job[j].status = "deadletter" /\ rare > 0) \/ Forgotten(j)

\* Whatever the model answers, a segment that was frozen gets its summary, unless
\* an error on top of that buries its job or a turn of it is forgotten: no
\* segment stays "sealing", which would block every later one of the thread.
SealingEnds ==
    []<>(\A s \in Segment :
            seg[s].status = "sealing" => Abandoned(<<"seal", s>>))

\* An epoch that was rolled over gets its checkpoint, also when its last
\* segment was sealed long before, unless a job of it is abandoned, it has no
\* segment, or the reconciler cannot complete a pass.
EpochEnds ==
    []<>(\A e \in EpochNo : epoch[e].status = "sealing" =>
            \/ SegsOf(e) = {}
            \/ \E s \in SegsOf(e) : Abandoned(<<"seal", s>>)
            \/ Abandoned(<<"check", e>>)
            \/ PassFails)

\* Phase_3.md: an active epoch with enough sealed segments is rolled over; the
\* reconciler adds the job again when there is none under way.  So no such epoch
\* stays active for good while nothing stands in the way of its rollover.
RolloverHappens ==
    []<>(\A e \in EpochNo :
            ActiveEpoch(e) /\ Cardinality(SealedIn(e)) >= MaxSegments =>
               RolloverStale(e) \/ RolloverRaises(e))
===============================================================================
