-------------------------------- MODULE Forget --------------------------------
(***************************************************************************)
(* The forget saga: Phase A (forget/phase_a_shield.py), the four stages    *)
(* that the outbox runs after it (worker/handlers_forget.py), the          *)
(* reconciler that keeps them going (forget/reconcile_service.py), and the *)
(* memory writer that they exclude with an advisory lock                   *)
(* (forget/concurrency.py, worker/outbox_execution_auth.py).               *)
(*                                                                         *)
(* Text is there or gone; a memory is known by the events it was drawn     *)
(* from (ContentProvenanceRef, which outlives the evidence).  The events   *)
(* belong to one segment that has been sealed, so its summary cites them.  *)
(* A page of a stage (BATCH_SIZE) is one target.  An action is a committed *)
(* transaction of a handler; a worker whose lease has run out goes on with *)
(* its handler, and only the outcome of its job is refused.                *)
(***************************************************************************)
EXTENDS Naturals, FiniteSets, Sequences

CONSTANTS Event, Memory, Op, Worker,
          Provenance,   \* the events each memory may be drawn from at first
          Requests,     \* what may be asked for: [kind, ids, mode]
          MaxRetries,   \* OutboxJob.max_retries
          MaxFaults,    \* bound: crashes, lost leases, exceptions
          MaxVersions,  \* bound: versions of the summary
          SlowRebuild   \* may a rebuild with its model calls outlive its lease?

Item == Event \cup Memory
Kind == {"memory_ids", "event_ids", "all_user_data"}
Mode == {"memory_only", "everywhere"}
Stage == {"cascade", "rebuild_dependencies", "purge", "verify"}

\* One selector, and of those that name history none in mode memory_only;
\* history_only, which differs from everywhere in its name, goes with it.
Accepted(r) ==
    /\ r.kind = "memory_ids" => r.ids \subseteq Memory
    /\ r.kind = "event_ids" => r.ids \subseteq Event
    /\ r.kind = "all_user_data" => r.ids = {}
    /\ r.mode = "memory_only" => r.kind = "memory_ids"

ASSUME ForgetAssumption ==
    /\ Event \cap Memory = {} /\ IsFiniteSet(Item)
    /\ Provenance \subseteq [Memory -> SUBSET Event]
    /\ Requests \subseteq [kind : Kind, ids : SUBSET Item, mode : Mode]
    /\ \A r \in Requests : Accepted(r)
    /\ MaxRetries \in Nat \ {0} /\ MaxFaults \in Nat
    /\ MaxVersions \in Nat \ {0} /\ SlowRebuild \in BOOLEAN

VARIABLES text,      \* items whose text is still there
          memory,    \* lifecycle_state of each memory
          source,    \* the events each memory was drawn from
          versions,  \* the summaries of the segment: what each cites, and its text
          writer,    \* the job that writes memories, and the shared lock it holds
          op,        \* status of each forget_operation
          request,   \* its selector manifest and mode
          cutoff,    \* what existed at its cutoff
          shield,    \* what its active shields cover
          tomb,      \* what its tombstones cover
          target,    \* its forget_targets
          progress,  \* its forget_batches: cursors and statuses of the stages
          job,       \* the outbox job of each stage
          worker,    \* the handler each worker runs
          written,   \* the operations past Phase A when a memory was written
          faults

content == <<text, memory, source, versions, written>>
saga == <<op, request, cutoff>>
cover == <<shield, tomb, target>>
fVars == <<content, writer, saga, cover, progress, job, worker, faults>>

\* verified stands for the statuses that a good verdict has by selector
\* (verified, verified_with_coarse_purge, legacy_unverifiable).
Terminal == {"verified"}
OpStatus == {"none", "shielded", "cascading", "purging", "verifying",
             "failed_retryable", "shielded_deadletter"} \cup Terminal
StageStatus == [s \in Stage |->
    CASE s = "cascade" -> "shielded" [] s = "rebuild_dependencies" -> "cascading"
      [] s = "purge" -> "purging" [] s = "verify" -> "verifying"]
StageOrder == <<"cascade", "rebuild_dependencies", "purge", "verify">>

NoRequest == [kind |-> "event_ids", ids |-> {}, mode |-> "everywhere"]
Nothing == [status |-> "none", retries |-> 0]
Progress == [paged : SUBSET Item, resolved : SUBSET Item, cascaded : BOOLEAN,
             summary : {"no", "affected", "rebuilt"}, scrubbed : SUBSET Memory]
Fresh == [paged |-> {}, resolved |-> {}, cascaded |-> FALSE,
          summary |-> "no", scrubbed |-> {}]
IdleWriter == [step |-> "idle", events |-> {}]
Outcomes == {"completed", "continue", "retryable_error"}
IdleWorker == [op |-> "none", stage |-> "cascade", step |-> "idle",
               seen |-> {}, fenced |-> FALSE]

Started == {o \in Op : op[o] # "none"}
SourcesOf(M) == UNION {source[m] : m \in M}
Exists == Event \cup {m \in Memory : memory[m] # "none"}

-----------------------------------------------------------------------------
\* What a reader may not see: active shields and tombstones, directly and
\* along the provenance of memories.

\* Mutant: tombstones are not looked at.
DirectByShield(x) == \E o \in Op : x \in shield[o]

Direct(x) == \E o \in Op : x \in shield[o] \cup tomb[o]

HiddenEvent(e) ==
    Direct(e) \/ \E m \in Memory : e \in source[m] /\ Direct(m)

\* Mutant: the provenance of a memory is not followed.
HiddenByItself(m) == Direct(m)

\* A memory_only operation does not hide memories through their events.
HiddenMemory(m) ==
    \/ Direct(m)
    \/ \E o \in Op : /\ request[o].mode # "memory_only"
                     /\ source[m] \cap (shield[o] \cup tomb[o]) # {}

Recalled(m) == memory[m] = "active" /\ ~HiddenMemory(m)

-----------------------------------------------------------------------------
\* The writer: it holds the shared lock from its first look at the sources,
\* through the model call, to the commit.

BeginWrite(E) ==
    /\ writer.step = "idle"
    /\ E # {} /\ E \subseteq text /\ \A e \in E : ~HiddenEvent(e)
    /\ writer' = [step |-> "model", events |-> E]
    /\ UNCHANGED <<content, saga, cover, progress, job, worker, faults>>

WriteMemory(m) ==
    /\ writer.step = "model"
    /\ memory[m] = "none"
    /\ IF \E e \in writer.events : HiddenEvent(e)
       THEN UNCHANGED content
       ELSE /\ memory' = [memory EXCEPT ![m] = "active"]
            /\ source' = [source EXCEPT ![m] = writer.events]
            /\ text' = text \cup {m}
            /\ written' = [written EXCEPT ![m] = Started]
            /\ UNCHANGED versions
    /\ writer' = IdleWriter
    /\ UNCHANGED <<saga, cover, progress, job, worker, faults>>

\* The model call fails, or the process dies: the lock goes with it.
DropWrite ==
    /\ writer.step = "model"
    /\ writer' = IdleWriter
    /\ UNCHANGED <<content, saga, cover, progress, job, worker, faults>>

-----------------------------------------------------------------------------
\* Phase A, under the exclusive lock: cutoff, shields, what is known by its
\* id, and the job of the first stage, in one transaction.

PhaseA(o, r) ==
    /\ op[o] = "none"
    /\ writer.step = "idle"
    /\ r.ids \subseteq Exists
    /\ op' = [op EXCEPT ![o] = "shielded"]
    /\ request' = [request EXCEPT ![o] = r]
    /\ cutoff' = [cutoff EXCEPT ![o] = Exists]
    /\ shield' = [shield EXCEPT ![o] =
           IF r.kind = "all_user_data" THEN Exists ELSE r.ids \cup SourcesOf(r.ids \cap Memory)]
    /\ tomb' = [tomb EXCEPT ![o] = r.ids]
    /\ target' = [target EXCEPT ![o] = r.ids \cap Memory]
    /\ memory' = [m \in Memory |-> IF m \in r.ids THEN "forgotten" ELSE memory[m]]
    /\ job' = [job EXCEPT ![o]["cascade"].status = "pending"]
    /\ UNCHANGED <<text, source, versions, written, writer, progress, worker, faults>>

-----------------------------------------------------------------------------
\* The outbox, as far as the stages need it (see Outbox for the rest).

Claim(w, o, s) ==
    /\ worker[w] = IdleWorker
    /\ job[o][s].status = "pending"
    /\ job' = [job EXCEPT ![o][s].status = "running"]
    /\ worker' = [worker EXCEPT ![w] =
           [op |-> o, stage |-> s, step |-> "start", seen |-> {}, fenced |-> FALSE]]
    /\ UNCHANGED <<content, writer, saga, cover, progress, faults>>

Owns(w) == worker[w] # IdleWorker /\ ~worker[w].fenced

Release(w) == job' = [job EXCEPT ![worker[w].op][worker[w].stage].status = "pending"]

Crash(w) ==
    /\ worker[w] # IdleWorker
    /\ faults < MaxFaults
    /\ IF Owns(w) THEN Release(w) ELSE UNCHANGED job
    /\ worker' = [worker EXCEPT ![w] = IdleWorker]
    /\ faults' = faults + 1
    /\ UNCHANGED <<content, writer, saga, cover, progress>>

\* The lease runs out: another worker may claim the job, this one goes on.
LeaseExpires(w) ==
    /\ Owns(w)
    /\ worker[w].stage = "rebuild_dependencies" => SlowRebuild
    /\ faults < MaxFaults
    /\ Release(w)
    /\ worker' = [worker EXCEPT ![w].fenced = TRUE]
    /\ faults' = faults + 1
    /\ UNCHANGED <<content, writer, saga, cover, progress>>

\* A transaction raises (a collision, a lost connection): it is rolled back.
Raises(w) ==
    /\ worker[w] # IdleWorker /\ worker[w].step \notin Outcomes
    /\ faults < MaxFaults
    /\ worker' = [worker EXCEPT ![w].step = "retryable_error"]
    /\ faults' = faults + 1
    /\ UNCHANGED <<content, writer, saga, cover, progress, job>>

Settle(w) ==
    LET o == worker[w].op
        s == worker[w].stage
        dead == job[o][s].retries + 1 >= MaxRetries
    IN  /\ worker[w].step \in Outcomes
        /\ worker' = [worker EXCEPT ![w] = IdleWorker]
        /\ IF worker[w].fenced
           THEN UNCHANGED <<job, op>>
           ELSE CASE worker[w].step = "completed" ->
                       /\ job' = [job EXCEPT ![o][s].status = "completed"]
                       /\ UNCHANGED op
                  [] worker[w].step = "continue" ->
                       Release(w) /\ UNCHANGED op
                  [] worker[w].step = "retryable_error" /\ ~dead ->
                       /\ job' = [job EXCEPT ![o][s] =
                              [status |-> "pending", retries |-> @.retries + 1]]
                       /\ UNCHANGED op
                  [] worker[w].step = "retryable_error" /\ dead ->
                       /\ job' = [job EXCEPT ![o][s].status = "deadletter"]
                       /\ op' = [op EXCEPT ![o] = "shielded_deadletter"]
        /\ UNCHANGED <<content, writer, request, cutoff, cover, progress, faults>>

\* The handlers' steps share this frame.
At(w, s, step) == worker[w].stage = s /\ worker[w].step = step
Goto(w, step) == worker' = [worker EXCEPT ![w].step = step]
Enqueue(o, s) ==
    job' = IF job[o][s].status = "none"
           THEN [job EXCEPT ![o][s].status = "pending"] ELSE job

-----------------------------------------------------------------------------
\* forget_cascade: targets page by page, then tombstones and dependencies.

\* The ids a selector stands for that the cursor has not passed.
Unpaged(o) ==
    (CASE request[o].kind = "all_user_data" -> cutoff[o] \cap Memory
       [] OTHER -> request[o].ids) \ progress[o].paged

MaterializePage(w) ==
    LET o == worker[w].op IN
    /\ At(w, "cascade", "start")
    /\ ~progress[o].cascaded
    /\ \E x \in Unpaged(o) :
         /\ target' = [target EXCEPT ![o] = @ \cup {x}]
         /\ progress' = [progress EXCEPT ![o].paged = @ \cup {x}]
         /\ Goto(w, IF Unpaged(o) = {x} THEN "tombstones" ELSE "continue")
    /\ UNCHANGED <<content, writer, saga, shield, tomb, job, faults>>

\* Memories drawn from events that are to be forgotten become targets too.
Derived(o) == {m \in Memory : source[m] \cap target[o] # {}}

WithDerived(o) == target[o] \cup Derived(o)

\* Every target gets a tombstone, and so does every source of a memory.
TombstonesFor(o) ==
    WithDerived(o) \cup SourcesOf(WithDerived(o) \cap Memory)

Cites(x, v) == IF x \in Event THEN x \in v.cites ELSE source[x] \cap v.cites # {}

\* The cursor starts anew after each page of dependencies.
Discover(w) ==
    LET o == worker[w].op
        open == WithDerived(o) \ progress[o].resolved
    IN  /\ \/ At(w, "cascade", "tombstones")
           \/ At(w, "cascade", "start") /\ Unpaged(o) = {}
        /\ ~progress[o].cascaded
        /\ target' = [target EXCEPT ![o] = WithDerived(o)]
        /\ tomb' = [tomb EXCEPT ![o] = @ \cup TombstonesFor(o)]
        /\ memory' = [m \in Memory |->
               IF m \in WithDerived(o) THEN "forgotten" ELSE memory[m]]
        /\ IF open = {}
           THEN /\ progress' = [progress EXCEPT ![o].cascaded = TRUE]
                /\ Enqueue(o, "rebuild_dependencies")
                /\ Goto(w, "completed")
           ELSE \E x \in open :
                /\ progress' = [progress EXCEPT
                       ![o].resolved = @ \cup {x},
                       ![o].paged = {},
                       ![o].summary =
                           IF @ = "no" /\ \E i \in DOMAIN versions : Cites(x, versions[i])
                           THEN "affected" ELSE @]
                /\ Goto(w, IF open = {x} THEN "finish" ELSE "continue")
                /\ UNCHANGED job
        /\ UNCHANGED <<text, source, versions, written, writer, saga, shield, faults>>

FinishCascade(w) ==
    LET o == worker[w].op IN
    /\ \/ At(w, "cascade", "finish")
       \/ worker[w].stage = "cascade" /\ worker[w].step \in {"start", "tombstones"}
          /\ progress[o].cascaded
    /\ progress' = [progress EXCEPT ![o].cascaded = TRUE]
    /\ Enqueue(o, "rebuild_dependencies")
    /\ Goto(w, "completed")
    /\ UNCHANGED <<content, writer, saga, cover, faults>>

-----------------------------------------------------------------------------
\* forget_rebuild_dependencies: evidence, then a new summary from what may
\* still be seen, written by a model, then the checkpoints.

RecomputeEvidence(w) ==
    LET o == worker[w].op IN
    /\ At(w, "rebuild_dependencies", "start")
    /\ memory' = [m \in Memory |->
           IF m \in target[o] /\ source[m] \subseteq tomb[o] THEN "forgotten" ELSE memory[m]]
    /\ Goto(w, IF progress[o].summary = "affected" THEN "read" ELSE "finish")
    /\ UNCHANGED <<text, source, versions, written, writer, saga, cover, progress, job, faults>>

\* The model may fail: then the summary says that all is redacted.
ReadRemaining(w) ==
    /\ At(w, "rebuild_dependencies", "read")
    /\ \E seen \in {{}, {e \in Event : ~HiddenEvent(e)}} :
         worker' = [worker EXCEPT ![w].step = "summary", ![w].seen = seen]
    /\ UNCHANGED <<content, writer, saga, cover, progress, job, faults>>

WriteSummary(w) ==
    LET o == worker[w].op
        seen == worker[w].seen
    IN  /\ At(w, "rebuild_dependencies", "summary")
        /\ Len(versions) < MaxVersions
        /\ versions' = Append(versions, [cites |-> seen, text |-> seen # {}])
        /\ progress' = [progress EXCEPT ![o].summary = "rebuilt"]
        /\ worker' = [worker EXCEPT ![w].step = "finish", ![w].seen = {}]
        /\ UNCHANGED <<text, memory, source, written, writer, saga, cover, job, faults>>

FinishRebuild(w) ==
    /\ At(w, "rebuild_dependencies", "finish")
    /\ Enqueue(worker[w].op, "purge")
    /\ Goto(w, "completed")
    /\ UNCHANGED <<content, writer, saga, cover, progress, faults>>

-----------------------------------------------------------------------------
\* forget_purge: the memories page by page, then everything in scope, then
\* the objects, and then the next stage.  The evidence of a target went with
\* the rebuild, so a page of memories takes no event with it.

\* content_scope.build_scope
ScopeMemories(o) ==
    (target[o] \cap Memory)
      \cup (IF request[o].kind = "all_user_data" THEN cutoff[o] \cap Memory ELSE {})
\* Mutant: the events are looked for among the targets.
TargetEvents(o) == target[o] \cap Event

RawEvents(o) ==
    IF request[o].kind = "all_user_data" THEN cutoff[o] \cap Event
    ELSE (request[o].ids \cup target[o]) \cap Event
ScopeEvents(o) == RawEvents(o) \cup SourcesOf(ScopeMemories(o))
SegmentInScope(o) ==
    \/ request[o].kind = "all_user_data"
    \/ \E i \in DOMAIN versions : versions[i].cites \cap ScopeEvents(o) # {}

ScrubPage(w) ==
    LET o == worker[w].op
        left == (target[o] \cap Memory) \ progress[o].scrubbed
    IN  /\ At(w, "purge", "start")
        /\ \E m \in left :
             /\ text' = text \ {m}
             /\ progress' = [progress EXCEPT ![o].scrubbed = @ \cup {m}]
        /\ Goto(w, "continue")
        /\ UNCHANGED <<memory, source, versions, written, writer, saga, cover, job, faults>>

\* Mutant: memories that share a source go along, whatever was asked for.
ScrubbedWithShared(o) ==
    ScopeMemories(o) \cup {m \in Memory : source[m] \cap ScopeEvents(o) # {}}

\* Memories that were drawn from history in scope go with it, except for the
\* narrow selectors.
ScrubbedItems(o) ==
    LET mems == ScopeMemories(o) \cup
                (IF request[o].kind = "memory_ids" THEN {}
                 ELSE {m \in Memory : source[m] \cap ScopeEvents(o) # {}})
        events == IF request[o].mode = "memory_only" THEN {}
                  ELSE RawEvents(o) \cup (tomb[o] \cap Event)
    IN  mems \cup events

ScrubScope(w) ==
    LET o == worker[w].op IN
    /\ At(w, "purge", "start")
    /\ target[o] \cap Memory \subseteq progress[o].scrubbed
    /\ text' = text \ ScrubbedItems(o)
    /\ versions' = IF SegmentInScope(o)
                   THEN [i \in DOMAIN versions |-> [versions[i] EXCEPT !.text = FALSE]]
                   ELSE versions
    /\ Goto(w, "objects")
    /\ UNCHANGED <<memory, source, written, writer, saga, cover, progress, job, faults>>

\* Objects are deleted after that commit; one that fails is tried again by
\* the same job (Raises).
FinishPurge(w) ==
    /\ At(w, "purge", "objects")
    /\ Enqueue(worker[w].op, "verify")
    /\ Goto(w, "completed")
    /\ UNCHANGED <<content, writer, saga, cover, progress, faults>>

-----------------------------------------------------------------------------
\* forget_verify: reads everything again, then judges.

\* Protection that stays when the shields retire.
Protected(e) ==
    \E o \in Op : e \in tomb[o] \/ \E m \in Memory : e \in source[m] /\ m \in tomb[o]

SourcesAreSafe(o) ==
    LET sources == SourcesOf(target[o] \cap Memory)
    IN  /\ \A e \in sources : HiddenEvent(e) /\ Protected(e)
        /\ IF request[o].mode = "memory_only"
           THEN sources \subseteq text    \* else "payload wrongly cleared"
           ELSE sources \cap text = {}
        /\ progress[o].summary # "no" =>
             \A e \in versions[Len(versions)].cites : ~HiddenEvent(e)

NothingIsLeft(o) ==
    /\ text \cap ScopeMemories(o) = {}
    /\ request[o].mode = "memory_only" \/ text \cap RawEvents(o) = {}
    /\ SegmentInScope(o) => \A i \in DOMAIN versions : ~versions[i].text

Passes(o) ==
    /\ \A m \in target[o] \cap Memory : memory[m] = "forgotten"
    /\ target[o] \subseteq tomb[o]
    /\ request[o].kind # "all_user_data" => SourcesAreSafe(o)
    /\ NothingIsLeft(o)

ReadAgain(w) ==
    /\ At(w, "verify", "start")
    /\ Goto(w, IF Passes(worker[w].op) THEN "pass" ELSE "fail")
    /\ UNCHANGED <<content, writer, saga, cover, progress, job, faults>>

\* The job completes, whatever the verdict; the shields retire if it is good.
Judge(w) ==
    LET o == worker[w].op IN
    /\ worker[w].stage = "verify" /\ worker[w].step \in {"pass", "fail"}
    /\ IF worker[w].step = "pass"
       THEN /\ op' = [op EXCEPT ![o] = "verified"]
            /\ shield' = [shield EXCEPT ![o] = {}]
       ELSE /\ op' = [op EXCEPT ![o] = "failed_retryable"]
            /\ UNCHANGED shield
    /\ Goto(w, "completed")
    /\ UNCHANGED <<content, writer, request, cutoff, tomb, target, progress, job, faults>>

-----------------------------------------------------------------------------
\* The reconciler acts on the first stage that is not done.

FirstUndone(o) ==
    LET undone == {i \in 1 .. 4 : job[o][StageOrder[i]].status # "completed"}
    IN  IF undone = {} THEN "verify"
        ELSE StageOrder[CHOOSE i \in undone : \A j \in undone : i <= j]

\* Mutant: only a job that is missing is made again.
ReconcileMissing(o) ==
    LET s == FirstUndone(o) IN
    /\ op[o] \notin {"none"} \cup Terminal /\ job[o][s].status = "none"
    /\ job' = [job EXCEPT ![o][s] = [status |-> "pending", retries |-> 0]]
    /\ op' = [op EXCEPT ![o] = StageStatus[s]]
    /\ UNCHANGED <<content, writer, request, cutoff, cover, progress, worker, faults>>

Reconcile(o) ==
    LET s == FirstUndone(o) IN
    /\ op[o] \notin {"none"} \cup Terminal
    /\ job[o][s].status \in {"none", "deadletter", "completed"}
    /\ job' = [job EXCEPT ![o][s] = [status |-> "pending", retries |-> 0]]
    /\ op' = [op EXCEPT ![o] = StageStatus[s]]
    /\ UNCHANGED <<content, writer, request, cutoff, cover, progress, worker, faults>>

-----------------------------------------------------------------------------
Init ==
    /\ source \in Provenance
    /\ memory = [m \in Memory |-> IF source[m] = {} THEN "none" ELSE "active"]
    /\ text = Event \cup {m \in Memory : source[m] # {}}
    /\ versions = <<[cites |-> Event, text |-> TRUE]>>
    /\ written = [m \in Memory |-> {}]
    /\ writer = IdleWriter
    /\ op = [o \in Op |-> "none"]
    /\ request = [o \in Op |-> NoRequest]
    /\ cutoff = [o \in Op |-> {}]
    /\ shield = [o \in Op |-> {}]
    /\ tomb = [o \in Op |-> {}]
    /\ target = [o \in Op |-> {}]
    /\ progress = [o \in Op |-> Fresh]
    /\ job = [o \in Op |-> [s \in Stage |-> Nothing]]
    /\ worker = [w \in Worker |-> IdleWorker]
    /\ faults = 0

Cascade(w) == MaterializePage(w) \/ Discover(w) \/ FinishCascade(w)
Rebuild(w) == RecomputeEvidence(w) \/ ReadRemaining(w) \/ WriteSummary(w) \/ FinishRebuild(w)
Purge(w) == ScrubPage(w) \/ ScrubScope(w) \/ FinishPurge(w)
Verify(w) == ReadAgain(w) \/ Judge(w)

Handler(w) == Cascade(w) \/ Rebuild(w) \/ Purge(w) \/ Verify(w) \/ Settle(w)

Write == \/ \E E \in SUBSET Event : BeginWrite(E)
         \/ \E m \in Memory : WriteMemory(m)
         \/ DropWrite

Fault(w) == Crash(w) \/ LeaseExpires(w) \/ Raises(w)

Next ==
    \/ Write
    \/ \E o \in Op, r \in Requests : PhaseA(o, r)
    \/ \E o \in Op : Reconcile(o)
    \/ \E w \in Worker : Handler(w) \/ Fault(w)
    \/ \E w \in Worker, o \in Op, s \in Stage : Claim(w, o, s)

Spec == Init /\ [][Next]_fVars

\* The outbox claims what is pending, a handler goes on, the scanner comes
\* round every minute.
FairSpec ==
    /\ Spec
    /\ \A w \in Worker : WF_fVars(Handler(w))
    /\ \A o \in Op : SF_fVars(\E w \in Worker, s \in Stage : Claim(w, o, s))
    /\ WF_fVars(\E o \in Op : Reconcile(o))

-----------------------------------------------------------------------------
\* The rows have the columns the code gives them (db/forget_models.py).
TypeOK ==
    /\ text \subseteq Item /\ memory \in [Memory -> {"none", "active", "forgotten"}]
    /\ source \in [Memory -> SUBSET Event]
    /\ versions \in Seq([cites : SUBSET Event, text : BOOLEAN])
    /\ writer \in [step : {"idle", "model"}, events : SUBSET Event]
    /\ op \in [Op -> OpStatus]
    /\ request \in [Op -> Requests \cup {NoRequest}]
    /\ \A f \in {cutoff, shield, tomb, target} : f \in [Op -> SUBSET Item]
    /\ progress \in [Op -> Progress]
    /\ job \in [Op -> [Stage -> [status : {"none", "pending", "running", "completed", "deadletter"},
                                retries : 0 .. MaxRetries - 1]]]
    /\ written \in [Memory -> SUBSET Op]
    /\ faults \in 0 .. MaxFaults

\* What an operation is to make invisible: what it names, the memories
\* drawn from events it names, and all there was if it names everything.
Forgotten(o) ==
    CASE request[o].kind = "memory_ids" -> request[o].ids
      [] request[o].kind = "event_ids" ->
           request[o].ids \cup {m \in Memory \cap cutoff[o] : source[m] \cap request[o].ids # {}}
      [] request[o].kind = "all_user_data" -> cutoff[o]

\* From Phase A on nothing that is forgotten comes into sight again, neither
\* while the stages run nor when the shields retire and only tombstones are
\* left (phase_6A.md, section C; visibility_service.py).
StaysHidden ==
    \A o \in Started : \A x \in Forgotten(o) :
        \/ x \in Memory /\ ~Recalled(x)
        \/ x \in Event /\ (HiddenEvent(x) \/ x \notin text)

\* What a fact could be learned from again: the events that are named and
\* the sources of the memories that are named.
Unlearnable(o) ==
    IF request[o].kind = "all_user_data" THEN SourcesOf(cutoff[o] \cap Memory)
    ELSE (request[o].ids \cap Event) \cup SourcesOf(request[o].ids \cap Memory)

\* A fact is not learned again: no memory written after Phase A is drawn
\* from what the operation forgets, whenever its model call began (the shared
\* lock and the second look at the sources, memory_write_service.py).
NotRelearned ==
    \A m \in Memory : \A o \in written[m] : source[m] \cap Unlearnable(o) = {}

\* No reader meets the empty shell of a memory that an operation found when
\* it began: what has lost its text has a tombstone that still hides it when
\* the shields retire (purge after cascade, in every order of crashes,
\* retries and overtaken workers).
NoEmptyShell ==
    \A o \in Op : \A m \in cutoff[o] \cap Memory : m \notin text => ~Recalled(m)

\* Once verified, all that is in the scope of the operation has lost its
\* text, and stays so: nothing late brings it back (handle_forget_verify; and
\* all keeps its type).
VerifiedIsGone ==
    /\ TypeOK
    /\ \A o \in Op : op[o] = "verified" => text \cap Forgotten(o) = {}

\* Every operation is verified in the end, whatever fails on the way: the
\* reconciler brings back what is missing, dead or failed
\* (reconcile_service.py; phase_6A.md, section P).
OperationsSettle == \A o \in Op : op[o] # "none" ~> op[o] = "verified"

=============================================================================
