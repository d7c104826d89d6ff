# AIive: a verification project in TLA+

AIive is a personal assistant: a Python backend that talks to a model, keeps
memories, pursues goals and tasks in the background, and lets a desktop
application carry out actions on the user's machine. What can go wrong in it is
seldom in one function. It is in the order in which workers, requests, timers,
database transactions, lost connections and restarts meet. This directory holds
the models of those parts, the TLC configurations that check them on small
instances, and the proofs of what holds on every instance.

Source paths below are relative to `src/backend/aiive/` unless they say
otherwise; `PROJECT.json` maps every definition to its lines.

## 1. The system

### Components

| Component | State | Operations | Models |
|---|---|---|---|
| Durable outbox (`worker/outbox_worker.py`, `outbox_heartbeat.py`, `outbox_dto.py`) | rows of `outbox_jobs`: status, claim token, owner, lease, `available_at`, `retry_count`; the heartbeat registry of each process | enqueue, claim or takeover, heartbeat, complete, retry, continue later, deadletter | `Outbox`, `WorkQueue`, `MemoryExtractionProofs` |
| Memory extraction (`worker/outbox_handlers.py`, `job_source_guard.py`, `outbox_execution_auth.py`, `forget/phase_a_shield.py`) | `memory_ingestion_runs`, one per turn, fenced by the claim token; memories; shields | phases A, guard, B (model), C (write); settle, fail or bury the run | `MemoryExtraction`, `MemoryExtractionProofs` |
| Turn execution (`runtime/turn_execution.py`, `thread_lease.py`) | `turn_records`, `thread_execution_leases`, context snapshots | resolve, acquire, preempt, heartbeat, finalise, interrupt | `TurnExecution`, `TurnExecutionProofs` |
| Goal decisions (`worker/handlers_goal_triggers.py`, `task_runtime/goal_decision.py`) | recorded and applied decision events, the same lease row | acquire, recheck, decide (model), persist, apply, release | `TurnExecution` |
| Desktop actions (`task_runtime/runtime.py`, `desktop/*`, `api/routes_desktop.py`, `src/apps/desktop/src/node-host/*`) | `agent_actions`, `agent_tasks`, `desktop_action_receipts`, pending dispatches, the journal file of the node | dispatch, timeout, ack, result, detach, reconnect, `journal.query`, reconcile, cancel, recover | `DesktopAction`, `DesktopActionProofs` |
| Task runtime and approvals (`task_runtime/repository.py`, `runtime.py`, `control/approval_service.py`, `worker/handlers_agent_tasks.py`) | tasks, runs and their leases, actions, approvals, wake-up jobs | start, step, block, approve, deny, expire, cancel, answer, recover, wake up | `TaskRuntime`, `TaskRuntimeProofs` |
| Goals and triggers (`task_runtime/goal_*.py`, `watchers.py`) | the plan in `task_state`, watches, trigger keys, open questions | confirm, edit, pause, start, approve, answer, fire, decide, settle a step | `Goal`, `GoalProofs` |
| Turn event inbox and markers (`runtime/turn_events.py`) | inbox rows pending, injected, handled, expired; a buffer of stream chunks | enqueue, inject, settle, expire; filter markers | planned |
| Resource locks and maintenance lease (`task_runtime/resource_locks.py`, `retention/maintenance_lease.py`) | lease rows by resource key | acquire all or none, release by token | planned |
| Forget (`forget/*`, `worker/handlers_forget.py`) | operations, shields, tombstones, targets, stage cursors, summaries | Phase A, cascade, rebuild, purge, verify, reconcile | `Forget`, `ForgetProofs`; its shield also in `MemoryExtraction` |
| Supervisor and releases (`supervisor/*`) | `active_slot`, `state.json`, `release_state.json`, request and result files, processes | recover, stage, switch, promote, restore, roll back, restart, watch | `Release`, `VersionProofs` |
| Self-development (`selfdev/*`) | repair lock, candidate state | propose, test, hand over | planned |
| Capability lifecycle (`capability/*`, `mcp/*`, `api/routes_capabilities.py`, `api/routes_mcp_install.py`) | the row of a capability, the snapshots of its versions, its directories; the discovery index and the server session of the running application | install, smoke, activate, verify, enable, disable, upgrade, roll back, uninstall, reconcile, restore at start | `Capability`, `VersionProofs` |
| Epochs, segments, compaction (`runtime/epoch_manager.py`, `compaction.py`, `worker/outbox_handlers.py`, `worker/scheduler_daemon.py`, `api/routes_epochs.py`) | epochs and segments of a thread, manifests, compaction and checkpoint runs, their jobs | attribute a turn, mark, freeze, sum up, roll over, checkpoint, reconcile | `Epoch`, `EpochProofs` |
| Memory recall, knowledge, retention, agent graph, prompts and tools, evaluation, API, frontends, deployment | | | not modelled, see section 7 |

### How they interact

* Nearly everything that outlives a request goes through the outbox: handlers
  run under a claim, may be taken over while they run, and hand a result back to
  the worker, which writes it with a fenced `UPDATE`. Memory extraction and goal
  decisions are two of its handlers, an agent task run is a third.
* A foreground turn and a goal decision of the same thread exclude each other by
  one lease row.
* Forget excludes all handlers by an advisory lock: shared for a handler from
  start to return, exclusive for Forget.
* The dispatcher of a task blocks in an outbox thread until the websocket of the
  desktop node, served by the event loop, delivers a result, or is lost. Both
  work on the same rows in sessions of their own.
* The scheduler runs the timers: poll the outbox, recover stale tasks, wake up
  queued ones, expire approvals, fire triggers, poll watches, reconcile forgets.
* A goal is a task whose runs work on the steps of a plan. The user, the scanner,
  the model's decision on a trigger and the run all write that plan.
* Turns fall into the open segment of their thread. The idle scanner, the user and
  the reconciler freeze it, outbox jobs sum it up, roll its epoch over and condense
  it; the next turn reads the summaries and only the turns behind the cut.
* A capability is a row, directories of files and tools in an index in memory. Requests
  change all three, only the row in a transaction; reconcile and the start of the
  application derive the index from the row again.
* The application asks the supervisor for a release through files, and is itself
  the process the supervisor replaces.

### What is hard, and what makes each part correct

* **Outbox**: a claim may be lost at any moment, without notice. Correct means
  that no result of a lost claim is written, failures are counted exactly,
  closed rows stay closed, and every job is closed in the end.
* **Memory extraction**: two fences, of the job and of the run, that are lost at
  different times; a model call between the transactions; a user who asks to
  forget the turn meanwhile. Correct means each turn is extracted once, never
  after its shield, and its job does not complete without it.
* **Turns and goal decisions**: a request may be sent again, suspended, or die
  with its lease; sequence numbers and completion have different orders. Correct
  means one caller of the model in a thread, one execution of a turn, one
  application of a decision, and no decision put off for ever.
* **Desktop actions**: a connection that is lost before or after the effect, a
  backend or a node that dies in between, a timeout that races with the answer
  and with the journal, and a user who cancels. Correct means an action is never
  executed twice, what counts as succeeded was executed, what counts as failed
  was not, and a task with an open outcome waits for it and then goes on.
* **Tasks and approvals**: wake-ups are delivered more than once, a run is taken
  over while its worker goes on, an approval is decided, expires and is cancelled
  in one moment. Correct means one run at a time, nothing executed twice or
  without its approval, and a task that comes to rest.
* **Goals**: the plan and its task are two state machines that a dozen operations
  move in turns. Correct means a queued task has a wake-up, no step runs without an
  approval of what it says now, and an edit reopens whatever was built on it.
* **Forget**: a saga of four jobs that fail, are repeated, overtaken and brought
  back, against readers at all times and a writer that began before. Correct means
  what is forgotten is out of sight from Phase A on, is not learned again, has lost
  its text once verified, and every operation gets there.
* **Releases**: a daemon that may be killed between a process it starts and the
  file that names it. Correct means that pointer, record and process agree when it
  rests, one version serves, and the caller gets an answer.
* **Capabilities**: three kinds of state without a common transaction, requests that
  decide on a row they read before its lock, steps that fail half-way and are undone by
  hand. Correct means the index follows the row, and what is active has its files.
* **Epochs**: turns that start late or are still running when their segment is
  frozen, five callers that freeze and roll, jobs that are repeated, and an
  `operation_id` that may be used once. Correct means a thread has one front, no
  turn is lost between the history and the summaries, a checkpoint stands for a
  whole epoch, and what was frozen gets its summary, lest it block the thread.

`PROJECT.json` lists the most important of these hazards one by one, at their lines.

## 2. The modules

### `Outbox`, `WorkQueue`

`WorkQueue` is the promise to the code that enqueues: a job is submitted, stays
open while failures are counted one by one, below the limit, and is closed once.
`Outbox` is the implementation. Its rows, claims and actions are those of
`OutboxWorker`: `ClaimOne` is `claim_one` with its order by creation, `Settle` is
the fenced write every finaliser makes, followed by the `finally` clause that
drops the claim, and the five finalisers differ in the row they write.
`HandlerReturns` is the handler; other modules refine it. `LoseClaim` is a crash
of the process, and just as well an exception out of a finaliser: in both cases
the row is left running.

Time is not counted. A lease is live or not, a row is due or not, and
`LeaseExpires`, `HolderStalls` and `BecomesDue` move them. A claim token is a
fresh uuid in the code; in the model the n-th claim of row j draws `<<j, n>>`.
A worker is the poll thread of one process for one group of job types, as the
poll threads of one process take disjoint types.

### `MemoryExtraction`

Extends `Outbox` and replaces its `HandlerReturns` by the steps of
`handle_memory_extraction`, in the order of its transactions. `run` is the row
of `memory_ingestion_runs`; its token is the claim token of the job that took
it. `named` keeps whether the result of the handler carries `ingestion_run_id`,
as the worker buries the run only if it does. `source` is what
`_validate_source_turn` will find in the turn. `ForgetPhaseA` waits for the
exclusive lock, so it happens between handlers; a handler that died gave its
lock back.

### `TurnExecution`

One thread. `Request` is an execution of `_resolve_and_preempt` and of what
follows; several may carry one turn. `Handler` is an execution of
`handle_goal_trigger_decision`. The lease row keeps its owner and the process its
fencing token was given to; tokens are only compared with the row's, and nobody
holds two. The agent graph is the time a request spends in `"run"`, the model
call of a decision the time in `"decide"`. `Overlap` says whether a client sends
a turn again while its first request runs. A turn that loses its lease notices
only in `FinalizeLost`; the synchronous caller then interrupts the turn, the
streaming one does not, which is why that action has two outcomes.

### `DesktopAction`

One task and the actions it sends to one node. The dispatcher reads the task,
commits `dispatched`, sends and waits (`Take`, `Send`), and then gives up
(`Timeout`, or offline in `Send`) or records an answer (`Record`). `disp.seen`
is the status of the task in the session of the dispatcher: `GiveUp` uses it,
because no commit happens between the read and `DesktopDispatchError`; `Record`
sees fresh rows, because the broker commits after an answer. `MayBecome` is
`ensure_transition`, and what it refuses leaves the run to recovery.

The node keeps a journal file across crashes. Journal states `received` and
`started` are one: both are answered by "unknown" and differ in no later step.
An operation that is in flight is joined, not started again. Messages to the
backend are handled when they are sent or are lost with the connection; requests
and journal answers stay on the wire. Attach, register and `journal.query` are one
step. The answer is committed as a whole; as at most one action is outstanding
(`Lone`, proved in `DesktopActionProofs`), it settles at most one, and `ApplyEntry` and `ApplyMissing`
each handle one action. `LeaveRun` is every end of the run without an action,
`StepLimit` the end at `max_actions_per_run`. The link is `"half"` between the loss and the moment the
backend notices it; a node that returns in between replaces the old connection.

### `TaskRuntime`

One task, its wake-up jobs, and workers that run `handle_agent_task_run`. An
action of the model is a committed transaction; between the commits of a worker
(`read`, `start`, `loop`, `model`, `fenced`, `exec`, `done`, `ending`) everybody
else may commit. `wakes` counts pending jobs; a worker whose claim was lost goes
on while the job is delivered again. `run` and `live` are the rows and leases of
`agent_runs`, `action` and `approval` those of the actions. `recover_stale_tasks`,
`reconcile_queued_tasks` and the expiry of approvals are `Recover`, `WakeUp`
and `ExpireDue`. Four constants
switch on what the code permits but breaks its promises: `StaleReads` (a session
keeps the object it read before it waited for the row), `SlowDispatch` (another run
starts between the renewal of a lease and the dispatch); `LostResults` and `LateEffects`
(an exception around the dispatch, a local tool that goes on after its timeout) are on in
the run.

### `Goal`

The plan of one goal and its task. A step has a kind (autonomous, interactive,
approval required), dependencies, perhaps a schedule or a trigger rule on an
event. Operations of `GoalService` are actions of the user (`Confirm`, `Modify`,
`ApproveStep`, `AnswerQuestion`, ...), of the scanner (`Scan`, `EventArrives`,
`WatchDue`), of a decision (`BeginStep`, `WaitUser`, `ModifyByModel`,
`CompleteGoal`) and of a run (`OnRunStarted`, `Succeed`, `AskUser`, ...).
`Advance` is `_advance`, which nearly all of them end in; it returns the plan and
a verdict, and the caller turns the verdict into a status of the task and a
wake-up. A request that the code refuses changes nothing and is not an action.
A time is still to come or past; a trigger key is a number. A decision is checked when it
is taken up (`TakeDecision`) and applied later, without a second look at the task. The
history variables `proved` and `granted` keep what the plan itself may forget: in
whose run evidence was captured, and which approvals are of the present text.

### `Forget`

One operation over events and the memories drawn from them. `PhaseA` is one
transaction: cutoff, shields, the cascade job. Each stage handler is a sequence of
its committed pages; a worker that has lost its lease goes on, and only the
outcome of its job is refused. `HiddenEvent` and `HiddenMemory` are what
`ForgetVisibilityService` answers, and `Recalled` is what a reader gets. `Write` is
a memory writer whose model call may begin before Phase A. `Reconcile` recreates
what is missing and brings back what is dead. The properties are written against
`request` and `cutoff`, what the user asked for and what existed then, not against
shields and targets, which are the means. `Accepted` is what
`validate_selector_combination` lets through, for the API, the tool and Phase A: an
operation in mode `memory_only` names memories. Three properties rest on that. With events
or everything forgotten in that mode, memories drawn from the events would stay in sight
until the cascade, and a late purge could leave the shell of a memory learned meanwhile.

### `Release`

The daemon as a process whose every durable step (a file written, a process
started or stopped) is an action, so that `Kill` and `Terminate` fall between any
two. The application processes live on; `proc` has their slot, port and health, and
a health probe asks the port, not the process. `pointer`, `st` and `release` are
`active_slot`, `state.json` and `release_state.json`. `SwitchAlone` and
`MonitorAlone` are what the application does to the pointer when no supervisor
runs. The history variable `gaps` names two windows that the code leaves open, see section 4.

### `Epoch`

One thread. Every transaction that creates a turn, freezes a segment or rolls an
epoch over holds the row lock of the thread, and is one action: `CreateTurn`
(`ensure_epoch_and_segment`), `SealByScanner`, `SealByUser` and `Reconcile`
(`begin_segment_sealing`), `RollByUser` and `HandleRollover`
(`begin_epoch_sealing`). What they share is in `Sealable`, `Freeze` and `Roll`. The
handlers of the three jobs go step by step: `OpenRun` is guard and phase A,
`Summarise` the call of the model, `CommitSummary` and `CommitCheckpoint` phase C,
`FinishJob` the fenced write of the outbox. A manifest is the set of turns it names
(`manifest`) and those of them that had their reply in it (`replied`). `stale` is a
turn that has not started for an hour and therefore no longer blocks; `late` notes
that it was started after all. The idle scanner reads its candidates before it takes
the lock, but asks everything again under it, so it is one action. `rare` counts
crashes, stalls, errors, forgotten turns, blocked working states, stale turns and
rollovers by hand together. A turn that runs ends; how, with a crash of its process,
is in `TurnExecution`. `Missing` is what the reconciler looks for and
`PassFails` the reason why it cannot add it.

### `Capability`

One MCP capability. `row`, `snap` and `disk` outlive the application, `index` and
`live` (the directory the running server was started from) do not. A version stands
for its tools, as no two versions have the same. `req` is what a request has read
(`seen`), what it will write (`put`), and where it is; `TakeLock` is the lock of the
capability and its row, which most operations ask for after they have read it, and
`Written` is what the session writes: the columns it changed, over whatever is there.
A commit that finds its row deleted is `CommitFails`. `UpgradeInstall`,
`UpgradeProbe`, `UpgradeSwap` and `UpgradeBack` are the stages of `upgrade`, with the
definition to go back to in `seen`. Activation of a candidate that is not
installed is an install followed by an activation. Reconcile asks and repairs
in one step. The history variable `gap` says that index and row may disagree until
the next reconcile or restart: after requests that crossed each other, a commit that
failed, or the registration of tools that are recorded nowhere (section 4). `Beyond` is
what reconcile leaves as it is; there the gap stays open.

## 3. What TLC checks

Every property that passes has a mutant in `PROJECT.json`: a definition changed
as a plausible bug would change it, under which TLC finds the property violated.
The type invariant is checked by itself in `outbox`; elsewhere it is a conjunct of a
safety property (`WrittenAtMostOnce`, `OneCaller`, `ExecutedOnce`, `OrderKept`,
`VerifiedIsGone`, `Consistent`, `OneFront`, `IndexFollowsState`), as it only says that
the others are well defined.

| Run | Instance | What it shows |
|---|---|---|
| `outbox` | 2 jobs, 2 workers, 3 attempts, 1 deferral each, 1 fault | fencing, `WorkQueue` is implemented (exact counts, final states), and, under fairness, every job is closed |
| `extraction` | 1 turn, 3 workers, 2 attempts, 2 deferrals, 2 faults, all sources, Forget at any time | written once, never after the shield, nothing lost, run and job agree, and, under fairness, the job ends |
| `turn` | 2 turns, 3 requests, 1 decision, 2 handlers, 2 crashes | without stalls and overlapping requests: one caller of the model, decisions applied once, snapshots in order |
| `turn_overlap` | 2 turns, 3 requests that may overlap, 1 handler, 1 crash, 1 stall | a turn runs once, and, under fairness, the decision is applied |
| `desktop` | 2 actions, 2 lost connections, 2 crashes of either side | executed once, succeeded means executed and journaled, an open action stops the task |
| `task` | 2 actions, one to be approved, 2 workers, 3 runs of one step, 1 fault, a user and an agent | executed once and not without approval, one run, approvals and blocks agree, and, under fairness, the task rests |
| `goal` | 3 steps in a chain (autonomous, interactive with an event rule, weekly with approval), 4 requests, 2 triggers | queued means woken, approvals of the present text only, edits reopen what was built on them |
| `forget` | 1 operation of any kind, 2 events, 2 memories (one may be learned meanwhile), 2 workers, an exception is a deadletter, 1 fault | hidden from Phase A on, not learned again, no empty shell, gone once verified, and, under fairness, every operation is verified |
| `release` | 1 request, 4 process numbers, 1 kill, 2 faults of processes | pointer, record and process agree at rest, one version serves, and, under fairness, the request is answered |
| `epoch` | 2 turns, 1 poll thread, 6 segments, 4 epochs, 2 attempts, 1 rare event | one front, no turn between history and summaries, whole checkpoints, and, under fairness, summaries and checkpoints for what was frozen |
| `capability` | 2 versions, 2 requests at a time, 5 in all, 2 faults | the index follows the row, what is active has its files |
| `epoch_rollover_lost` | the same without rare events | a statement of the documentation that the code does not keep (section 4) |

**Why the bounds are enough.**
*Outbox*: a takeover needs two workers, order of creation two jobs, and the
difference between "retry" and "deadletter" and a count that is neither the
first nor the last three attempts. The safety properties are also proved, for
all values; the run guards the liveness property and the proof's premises.
*Extraction*: jobs share nothing but the workers, so one turn is enough, while
three workers allow a stale execution, the one that took over, and one that
takes over from that. A deferral is possible for every fault, so a busy run can
really be met.
*Turn*: two turns are needed for an order of snapshots, three requests for a
turn that is resent while the other one waits; two handlers for a decision that
is taken over.
*Desktop*: two actions are needed to have one dispatched beside another; the
second lost connection hits the reconciliation of the first. Two crashes let
backend and node die in one behaviour.

*Task*: a takeover needs two workers; the second action is the one whose
approval is asked for after another has been executed. The third run is needed for a
worker whose run is over, and whose exception then ends the run after it (section 4,
item 11): with two runs there is none left to dispatch again. Runs of two steps hold as
well, over 845 thousand states. Its safety properties are proved for any number of each.
*Goal*: an edit must reach a step that rests on it only through another one, hence
a chain of three; confirm, start, approve and edit are the four requests this
takes; the second trigger finds the question of the first one open.
*Forget*: an event that one memory was drawn from and another memory shares,
and a memory that appears meanwhile; a second worker for overtaking. With one
attempt a single exception already needs the reconciler. With two attempts and two
faults, a crash in the recovery from another, the invariants hold as well, over
1.4 million states without the liveness property.
*Release*: a promote has four processes at most (old, staged, new, restored); the
second fault hits the restore after the first.
*Capability*: install, activate, upgrade, roll back and disable are five requests; two at a
time are enough for a stale read, a reinstall under an upgrade, an uninstall under
anything. The second fault hits the repair of the first. The safety properties of both
are proved without these bounds.
*Epoch*: the second turn runs, comes late or is created while the first one is
being sealed; with one segment to an epoch the rollover comes up at once, and with
two turns to a segment the limit on turns does, too. Six segments and four epochs
cut nothing off: in no reachable state is there something to seal or to roll over and
no row left for it. One poll
thread of one process executes these jobs; workers that take over from each other
are in `Outbox` and `MemoryExtraction`, with the same fences, while here a stall
or a crash is followed by the same thread. Its three invariants are
proved for any number of each.

Deadlock is not checked: all jobs closed, all requests answered, or the task
done and the bounds on faults used up are ends the system may reach.

**Fairness.** Outbox: handlers return, finalisers run, leases and delays pass:
weak fairness. A job that comes due again and again is claimed: strong fairness
of its claim, justified by the loop of `poll`, which asks for the next row at
once, while rows put off stay away for seconds. Extraction has the same, for its
own actions; its errors have none. Turn: processes go on and time passes; strong
fairness of `Decide` and `ApplyDecision` says that a decision tried often enough
meets a thread that is free, once clients have what they want; errors, crashes
and stalls have none. Task: workers
claim and go on, the scanner comes round, leases and approvals run out: weak
fairness; nothing is assumed of the user, of nodes or of what the model proposes,
so the states that wait for these count as rest. Forget: weak fairness of each
handler and of the reconciler, which the scheduler runs every minute, and strong
fairness of each operation's claims, as for the outbox. Release: weak fairness of
the daemon's loop, which its service manager starts again, and of the start of each process.
Epoch: weak fairness of the end of a turn, of the handlers, of some claim (the queue
is empty again and again, so the order does not matter), and of the reconciler, which the
scheduler runs every few minutes; none of the idle scanner, of users and of the
model's answer.

## 4. Where code and documentation disagree

One has a run.

1. `RolloverHappens` (`epoch_rollover_lost`): a rollover job that meets a running turn
   is buried within seconds, one that meets a segment being sealed is completed with
   nothing done. Neither is repeated: its `operation_id` is spent, and the reconciler,
   which looks for jobs under way only, adds it by a plain `INSERT` that fails and takes
   the whole pass with it, this one and every later one, for all threads
   (`scheduler_daemon.py:316`, its docstring at 384; `Phase_3.md:792`).

The modules state others, which TLC violates when they are put into a
configuration with the constants named here. They have no run of their own
because each is settled by its trace, and the runs go to open questions.

2. `DoneIsProven` (`Goal`, two steps, both `Autonomous`, `Deps <- Apart`): a run
   reports the evidence of the whole task (`runtime.py:477`), so the second step that
   needs evidence passes on that of the first (`goal_service.py:735`).
3. `DeadletterAtomic` (`MemoryExtraction`): a job whose last attempt fails with a
   database error in phase A is buried without its ingestion run
   (`outbox_handlers.py:239`; `Phase_0-5B.md:964`).
4. `OneCaller` with `Overlap = TRUE`: a resent request takes the thread lease from
   the running one and does not keep it, so that a third party gets it while the
   first still calls the model (`turn_execution.py:612`; `thread_lease.py:15`).
5. `AppliedOnce` with `MaxStalls = 1`: a stalled decision handler and its successor both
   apply (`handlers_goal_triggers.py:158`; its line 156).
6. `FailedIsUndone` (`DesktopAction`): an action whose connection is lost after
   the effect is recorded as failed, not unknown (`connection_manager.py:178`;
   ADR 0003:80). In `TaskRuntime` the same for a local tool whose thread goes on after its
   timeout (`tools/registry.py:445`; `ARCHITECTURE_AND_REVIEW.md:118`).
7. `TerminalIsFinal`: a cancelled task goes back to reconciling through a stale object
   in the dispatcher's session (`DesktopAction`, `runtime.py:396`), and to queued or cancelled
   through the unlocked reads of the agent's task tools (`TaskRuntime` with
   `StaleReads`; `state_machine.py:33`).
8. `RefusalSettles` (`DesktopAction`): a refusal after "started" has no transition
   and orphans the run (`client.mjs:659`; ADR 0003:78).
9. `JournalResumesTask` (`DesktopAction`, `FairSpec`): a result that arrives after the
   journal was queried settles nothing, and the task waits until the next
   reconnect (`routes_desktop.py:170`; ADR 0003:80).
10. `UnknownIsNotPassed` (`TaskRuntime`): the exception path queues the task while the
   outcome of its action is open, so that the next run plans past it
   (`handlers_agent_tasks.py:72`; ADR 0003:80).
11. `ExecutedOnce` (`TaskRuntime`, `SlowDispatch`): a worker that is slow between renewing
   its lease and dispatching (`runtime.py:378`) executes an action that the next run
   executes too. There are two ways to a next run: the lease runs out meanwhile, or an
   earlier execution, whose own run is over, raises, and the exception path ends whatever
   run the task has now and queues the task (`handlers_agent_tasks.py:66`).
12. `OperationsSettle` with a `memory_only` operation on a memory whose source event an
   `everywhere` operation has cleared: it never passes verify (`phase_6A.md:553`).
13. `ServesActive` (`Release`): a daemon killed between starting a process and
   recording it leaves an orphan on the port, which answers the health probes of
   the next daemon (`daemon.py:362`, 612; its line 21). `Consistent` and
   `OneVersionServes` exclude these windows through `gaps`.
14. `FailedUpgradeKeeps` (`Capability`): the second of two upgrades to one version decides
   on the row it read before the first one changed it (`lifecycle.py:204`); when its
   probe fails it removes the directory of the version in use (the docstring at
   `lifecycle.py:604` promises that a failure leaves the old version alone).
15. `ActiveIsVerified` (`Capability`): a rollback (`lifecycle.py:870`) and the smoke route
   (`routes_mcp_install.py:107`) make a capability active whose definition was never
   verified, which enable refuses (`lifecycle.py:474` to 487).

Met on the way, read off the code while it was translated:

* *Turns, desktop.* The request that loses a preemption keeps the lease for its full
  time (`turn_execution.py:636`); a turn that was stalled may complete while the
  lease is someone else's (`turn_execution.py:822`); a timeout after the journal
  settled an action writes unknown over the result (`runtime.py:414`).
* *Tasks.* A cancel during the model call ends in a `ValueError` that leaves the
  row of the run in running; recovery marks only the first action in flight as
  unknown (`repository.py:772`); a task whose wake-up and its one repair both end
  in deadletter stays queued (`repository.py:814`).
* *Goals.* Starting, approving or answering a step while a run works on another one
  moves `current_step_id`, and the run's result is credited to the wrong step;
  the result of a run that finishes after a pause is lost, and a pause while a
  step runs leaves the plan blocked after resume; resume or edit whose `_advance`
  completes the plan leaves the task blocked; `modify` never unblocks a blocked
  goal; a due watch sets a done or running step back to ready; a decision that is refused for a
  missing approval still changes the plan (`goal_decision.py:400` says it does
  not); the question of `wait_user` is recorded for the step of the trigger, not
  the one that waits; an approval step ahead in the list holds back runnable steps
  behind it.
* *Forget.* A rebuild that is overtaken may write a readable summary after purge
  (`SlowRebuild`; `phase_6A.md:548`); purge clears every version of a summary, the
  rebuilt one included (`content_scrub.py:430`); an operation that was verified is
  shielded_deadletter when a late job of it dies (`outbox_worker.py:677`).
* *Releases.* A SIGTERM during a switch is overwritten by "stopped" (`daemon.py:171`);
  a failed promote inside the observation window makes the next automatic rollback
  restore the version it leaves (`daemon.py:315`); an exception in a handler leaves the phase
  at "switching", where the watch does nothing; a dead supervisor's lock holds for 300 s.
* *Epochs.* A rollover job carries no epoch: if its own was rolled over meanwhile, by
  the user or by an execution whose result was lost, it rolls the next one
  (`outbox_handlers.py:2281`; `Phase_3.md:591`). A turn that was sent more than an hour ago
  may still be started by a retry, and its reply is then in no manifest of the segment
  frozen without it (`epoch_manager.py:42`; excused by `late`). `Phase_3.md` lets
  interrupted_unknown turns block a seal, the code does not. A segment with a
  forgotten turn, or whose job was buried, stays in sealing and blocks every later seal of the
  thread. An epoch rolled over with nothing but an empty open segment has no segment
  and never gets a checkpoint. A turn whose process died blocks all seals of its thread
  until its request is repeated.

* *Capabilities.* The smoke route makes a capability active without registering its tools
  (`states.py:10`: active means registered). A rollback to a version that was never probed
  registers tools that are recorded nowhere, and reconcile then withdraws the tools of an
  active capability. A probe may be answered by the living session of another version.
  An enable whose commit fails while an install is under way leaves an old note of
  registered tools beside the new list; reconcile registers both, the next enable
  overwrites the note (`lifecycle.py:511`, `bootstrap.py:208`), and a tool stays
  discoverable that no disable withdraws. That takes eight requests; the run has five,
  the proof (section 5) found it.

## 5. What is proved

The first part of `MemoryExtractionProofs` proves of the outbox, for every set of jobs and
workers and all values of the bounds, from `OutboxAssumption` alone:

* `TypeCorrect` and `CopiedRetriesCorrect`, the invariants of the outbox;
* `OnlyHolderSettlesCorrect`, `TerminalIsFinalCorrect` and
  `RetriesNeverRegressCorrect`, its action properties;
* `OutboxImplementsWorkQueue`: the refinement of `WorkQueue`.

The inductive invariant is `IInv == TypeOK /\ CopiedRetriesExact`: neither part
needs more than the other. A finaliser writes the copied count plus one into a
row whose count must stay below the limit, so the copy has to be in range, and
the copy agrees with the row because only the worker that claimed a row last
passes its fence (the fence compares owner and token, and a worker has one claim)
and because every write that changes the count takes the row from its holder.
`InitIInv` and `StepIInv` establish it, with one step
per action. What an action may write is factored into lemmas on rows
(`RowUpdates`, `UnclaimedRow`, `ClosedRow`, `ReopenedRow`) and one on the
finalisers (`FinalizeSettles`). For the action properties and the refinement,
`StepIsRowStep` and `EveryRowStep` say that a step changes at most one row, and
in one of few ways; each property then follows from the shape of that change.

`EpochProofs` proves, from `EpochAssumption` alone, for every number of turns,
segments, epochs and poll threads and all values of the limits:

* `OneFrontCorrect`: one active epoch, one open segment, in that epoch, one
  segment being sealed; and the types of all rows;
* `CheckpointWholeCorrect`: a checkpoint stands for its whole epoch, for ever;
* `NothingFallsBetweenCorrect`: no turn is lost between the history and the summaries.

`OneFront` is not inductive. Its strengthening `IInv == TypeOK /\ Fronts /\ Jobs`
adds why there can be no second active epoch: epochs are numbered upwards and
nothing exists above the active one (`NoneAfterActive`), and a first turn opens
epoch 1 only where there is no epoch at all (`NoneWithoutActive`: once there is
one, one is active). And a checkpoint, which overwrites the status of its epoch,
never hits the active one, because its job is added only for an epoch that was
rolled over (`CheckedIsRolled`) and a worker has only jobs that exist
(`WorkIsJob`). `SealStep` and `RollStep` carry the two hard transitions; the other
steps are grouped by the part of the module they belong to.

`CheckpointWhole` needs four things at once (`Whole`): the sources of a rolled
epoch are its segments (`SourcesFixed`), a worker that is about to commit a
checkpoint has seen all of them sealed (`ReadyToCommit`), only sealing jobs call
the model (`SummariseSeals`), and the property itself. The argument is in three
lemmas on single steps: the segments of a rolled epoch stay the same and a sealed
one stays sealed (`SegmentsSettle`), an epoch changes only by being opened,
rolled over or concluded (`EveryEpochMoves`), and a worker gets to its commit
only through the guard (`EveryWorkerGuarded`).

`NothingFallsBetweenCorrect` rests on order (`History`): turns and segments are numbered
without gaps, a turn that exists has its home in a segment that is open or frozen
(`AtHome`), later turns have later homes (`Ranked`), the open segment is the last one
(`OpenIsLast`), and a frozen segment names all its turns, each with its reply or started
late (`ManifestWhole`). Hence an earlier turn is in a segment that is frozen too.
`SegmentMoves` and `TurnMoves` say what becomes of a row in one step, `HistoryKept` that
such steps keep the order; `OneOpen` of the first invariant is needed for a step that
opens a segment.

Its second part proves `ExtractionImplementsOutbox` first: every step of the
handler is a step of the outbox or leaves it alone, so that everything proved of `Outbox`
holds here, and the extraction implements `WorkQueue` by composition. Its safety
properties need one invariant, `MXInv`, on top of the one of the outbox. A run that was
written has succeeded and never leaves that state (`WrittenMeansSucceeded`); a worker
between phase A and C that still matches the run's token holds a turn without a shield
(`Unshielded`, because Phase A of Forget waits for authorized handlers); and the result a
handler left for the worker tells the truth about the run (`ResultIsTrue`), which is why a
job is not completed on the word of an execution that had lost it.

`TurnExecutionProofs` has three arguments. A turn that was started keeps the request
that started it and is never open again, so whoever runs it started it (`RunsItsTurn`); this
needs nothing of the lease, so `TurnRunsOnce` and `SnapshotIsLatest` hold with overlapping
requests and stalls. `AppliedOnce` needs that two handlers never hold one decision
(`HandlersApart`), `OneCaller` that whoever calls the model owns the lease (`LeaseInv`).
Both are theorems of what happens until the first stall (`stalls = 0 =>`), the second of
clients that do not resend a turn while it runs (`~Overlap`): with either, section 4 (items
4, 5) has a counterexample, and the code prevents neither.

`TaskRuntimeProofs` splits what a step does to run, task and action rows into seven cases
(`StepCases`): the workers are left alone, or one of them begins a run, takes up an
action, dispatches it, carries it out, gives up, or does something that starts nothing.
The invariants are layered on it. `RunsInv`: runs are numbered in order, only the task's
current run is running, and a task that is running has one. `AskInv`: a pending approval,
an awaiting action and a blocked task come and go together, at most one at a time, and an
action that got past the dispatch has its approval. `ExecInv`: an action that
is not dispatched has no effect yet (`Unused`), a worker between the renewal of its lease
and the dispatch works on the task's current run (`FenceHolds`), a worker that carries out
an action is the only one (`OneOnIt`), and a call that goes on after its timeout has had no
effect so far (`LateIsUndone`). All four theorems assume
`~StaleReads`, `ExecutedOnce` also `~SlowDispatch`; section 4 (items 7, 11) has what
happens otherwise. The proof of `ExecutedOnce` found the second way of item 11: the
invariant was not inductive, and its counterexample needed a third run, one more than
the run then had.

`DesktopActionProofs` needs no assumption beyond the kinds of its constants. `Carried` ties the journal of an
action to what the node does and has done: the entry is written before the effect and
settled after it, and the node begins only where there is none; so a second request,
after a crash of either side, cannot carry it out again. `Told` follows the good answers:
one on its way, in the journal's reply or recorded as succeeded comes from a committed
entry, and such an entry is final (`CommittedIsFinal`). `Lone`: a task has one outstanding
action at most, the dispatcher's, and none while it is queued. `UnknownStopsTask` rests on it, because
`apply_missing` queues the task again without looking for other open actions
(`reconciliation.py:149`): that is right only as long as actions are sent one by one.

`GoalProofs` begins with the worklist of `modify`. What it computes is defined by a
recursive function over rounds, whose end is not evident: that it ends, and with the
smallest set that is closed under "rests on", is `InvalidatedIsStale`. The induction
behind it needs no schema: a set of naturals that is not empty has a least element
(`NatLessThanWellFounded`), the rounds grow, and a set of steps cannot grow more often than it
has steps. The invariant then is `Planned`: a running step rests on finished ones, those
with a timer apart, and has its approval if it needs one; the approvals noted in the plan
have been given; the current step is an open one; watches are on timed steps only.
`Woken` adds that a queued task has a wake-up. Every action of the user, the scanner, a
decision or a run is shown to keep each part, by what the plan helpers do to a plan
(`StepsChange`, `Follows`). `ApprovedFirstCorrect`,
`OrderKeptCorrect` and `QueuedHasWakeCorrect` follow without any assumption beyond
`GoalAssumption`.

`ForgetProofs` needs to know what each stage leaves behind for the ones after it, in
every order of retries, overtaken workers and reconciled jobs, for any number of operations
at a time. Every step is of one of five kinds (`Kinds`), and each takes nothing back of
what an operation is about, has found and has buried (`Onward`). On that rest: `Staged`, no
later job or worker before the cascade has found everything (`Reached`), which the
reconciler keeps because it goes back to the first stage that is not done (`FirstUndoneIs`)
and the cascade because its last round finds nothing (`DiscoverReaches`); `Judged`, a
verdict is good only when the text is gone, and none comes back (`GoneStays`);
`Covered`, the shield over everything stands until then; `Unread`, the writer has nothing
in hand that everything forgotten includes; `Shells`, whatever has lost its text has
a tombstone that outlives the shields. `StaysHidden` needs shield or tombstone, `NotRelearned`
both looks of the writer, `NoEmptyShell` all of it. The runs have one
operation; the proof is what shows that several do not uncover each other's memories.
The attempt showed that an earlier version of the run asked for operations that the code
refuses (`Accepted`): with them the invariant is false for two operations.

`VersionProofs` is about the two things that are switched from one version to another; the
two parts share nothing but the module. For `Capability` the invariant `Inv` says three
things beside the types. What a request carries fits its stage (`Carries`). The row that a
request has loaded is still there unless another one has deleted it, and nothing
returns to the state "sandbox" (`Loads`, `Writes`, `Bare`), so that reconcile may leave
such rows alone. And `Quiet`, for as long as there is no gap: at rest the index follows the
row and the directory is there; otherwise the only request under way has left what
its stage has done and not yet undone (`Undone`): before its first side effect the index
follows the row it has read, in the middle of a swap the index is empty, before the
commit it follows the row that will be written. Each action is shown to keep that or to
open a gap. `IndexFollows` and `ArtifactsStay` are therefore about requests one at a
time, with every failure, and about what reconcile and restart make of anything else: in
a gap two requests may do to each other what section 4 lists. The first version
of `IndexFollowsState` closed the gap at every reconcile. It passed every run and was not
provable, and the step that failed led to a counterexample of eight requests (section 4).

For `Release` the invariant is `RelInv`: what the handlers rely on (`Serves`: a process
that was started is known, a request is answered while its file is there), the
slot they are about (`Aims`: a staged promotion goes back to the pointer; the pointer is
moved before the record is written), the record of the process (`Recorded`: its slot is
the active one of state.json, and the pointer's whenever no handler is replacing
the process) and the owner of the port (`PortOwned`: only the managed process or the one
just started may hold the primary port, and none is started while the managed one lives).
`ReleaseConsistent` is `Recorded` and `ReleaseServesOne` is `PortOwned` when the daemon rests.
`PortOwnedFades` covers all steps in which no process comes up; the others are
`StageStep`, on the other port, and `StartStep`, after `StopCurrentStep` has seen the old
one die. The proofs hold for any number of processes, requests, kills and faults, with
`gaps` for the two windows of section 4 (item 13).

Every strengthening was given to TLC as an invariant of the module's run before it was
proved. Every safety property that a run checks is a theorem. Model-checked only: the
liveness properties, which are out of the prover's reach. `CopiedRetriesExact`, `TerminalIsFinal` and `RetriesNeverRegress` are proved and
therefore in no run.

## 6. Plan

In this order, the most important first. Done: steps 1 to 12.

1. `Outbox`, `WorkQueue`: every background job depends on them. *Done.*
2. The proofs of the outbox, now in `MemoryExtractionProofs`. *Done.*
3. `MemoryExtraction`, which composes a handler with the outbox. *Done.*
4. `TurnExecution`: lease, turn, goal decision. *Done.*
5. `DesktopAction`: dispatch, journal, reconciliation. *Done.*
6. `TaskRuntime`: runs, approvals, recovery, wake-ups. *Done.*
7. `Forget`: the saga against readers and a writer. *Done.*
8. `Release`: the supervisor with crashes. *Done.*
9. `Goal`: plan, triggers, runs. *Done.*
10. `Epoch`, `EpochProofs`: turns against seals, rollovers and checkpoints. *Done.*
11. `Capability`: three kinds of state without a transaction. *Done.*
12. Proofs of every safety property that a run checks. *Done.*
13. `TurnEvents`: the inbox against turns and decisions, each event handled
    once or expired; the marker filter as a function on chunks against its
    definition on the whole text.
14. `ResourceLocks`: all or none, key order, expiry; the lock file of the supervisor.
15. The versioned projection of memories and its index; conflicts
    between memories.

A run is kept for each distinct question; a run that only shows a finding makes
room for a component that has none.

## 7. Not modelled

* Recall, ranking, embedding, evaluation: numeric, without protocol.
* Agent graph, prompts, tools and context: one nondeterministic model call.
* HTTP routes, frontends, deployment: no state of their own; what triggers
  modelled state appears as an action.
* Retention and database schema: single-row predicates and batched deletes.
* In modelled parts: logging and redaction; what is extracted and how it is
  merged; context assembly; on the backend's side of the dispatch, the check of
  scope and preconditions and the resource locks (they end before anything is
  sent); the size limit of the journal.
* Reads and writes of one transaction are one step, so a row that is read before
  its transaction waits for a lock on another is not modelled as stale, except
  where a session keeps an object across a wait (`disp.seen`, `copied`).
* In `DesktopAction` a run is left by a crash only; a worker that stalls past its
  claim while a second one runs the task is in `TaskRuntime`.
* In `TaskRuntime`: row locks that wait for each other, resource locks, budgets
  other than runs and steps, the deadletter of a wake-up job.
* In `Goal`: overlapping runs and redelivered decisions (`TaskRuntime`,
  `TurnExecution`), the statuses blocked_node and blocked_approval, the proposal
  "watch", windows, caps and expiry of rules, reminders, steps that are added or
  removed, the time to live of questions, the daily limit of decisions.
* In `Forget`: selectors by thread and turn, attachments, the vector index, derived
  tables beyond summaries, pages of more than one target, two operations at once
  (the module has them; the runs have one).
* In `Capability`: calls of the tools, configure and edits of the specification, the check
  whether a task still uses it at uninstall (it may refuse or not), several capabilities.
* In `Epoch`: what a summary says and its hashes, the snapshot of the working state, the
  retrieval jobs that follow a commit, several threads, two poll threads.
* In `Release`: building a slot, the gate and its fingerprint, the lock file, and
  process numbers that the operating system gives out again.
