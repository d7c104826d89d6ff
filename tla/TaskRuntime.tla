------------------------------ MODULE TaskRuntime ------------------------------
(***************************************************************************)
(* One persistent task (task_runtime/repository.py, runtime.py): its runs  *)
(* and their leases, the wake-up jobs in the outbox, the actions with      *)
(* their approvals (control/approval_service.py), the scanner that         *)
(* recovers, wakes up and expires, and the user and the main agent, who    *)
(* cancel it, answer it and decide on approvals.                           *)
(*                                                                         *)
(* An action is a committed transaction; what an exception undoes does not *)
(* appear.  A session that waits for a row lock keeps the object it has    *)
(* read before: StaleReads says whether somebody else may commit in        *)
(* between.                                                                *)
(***************************************************************************)
EXTENDS Naturals, FiniteSets

CONSTANTS Worker,        \* outbox threads that run handle_agent_task_run
          Action,        \* agent_actions in the order of their sequence: numbers
          Risky,         \* those whose capability asks for an approval
          NoAction,
          MaxRuns,       \* budgets.max_runs
          MaxSteps,      \* budgets.max_actions_per_run
          MaxFaults,     \* bound: crashes, stalls, leases that run out, exceptions
          StaleReads,    \* may a row change between its read and its lock?
          LostResults,   \* may a dispatch, or storing its result, raise?
          SlowDispatch,  \* may another run start between a renewal and its dispatch?
          LateEffects    \* may a tool that timed out go on in its thread?

ASSUME TaskAssumption ==
    /\ Action \subseteq Nat /\ IsFiniteSet(Action) /\ NoAction \notin Action
    /\ Risky \subseteq Action
    /\ MaxRuns \in Nat /\ MaxSteps \in Nat \ {0}
    /\ MaxFaults \in Nat
    /\ StaleReads \in BOOLEAN /\ LostResults \in BOOLEAN
    /\ SlowDispatch \in BOOLEAN /\ LateEffects \in BOOLEAN

VARIABLES task,       \* status of the task
          current,    \* current_run_id; 0 is none
          run,        \* status of each run
          live,       \* the runs whose lease has not run out
          action,     \* status of each action
          approval,   \* status of the approval of each action
          overdue,    \* actions whose approval has passed its expires_at
          wakes,      \* pending agent_task_run jobs
          reconciled, \* is the wake-up key of this version of the task taken?
          worker,     \* what each worker does
          tool,       \* a call of the main agent's cancel_task or send_task_input
          effects,    \* how often each action was carried out
          late,       \* actions a thread still works on though they timed out
          faults

rows == <<task, current, run, live, action, approval, overdue>>
jobs == <<wakes, reconciled>>
world == <<effects, late>>
trVars == <<rows, jobs, worker, tool, world, faults>>

Terminal == {"succeeded", "partial", "failed", "cancelled"}
Blocked == {"blocked_approval", "blocked_user", "blocked_node", "reconciling"}
TaskStatus == {"queued", "running"} \cup Blocked \cup Terminal
RunStatus == {"none", "running", "completed", "failed", "interrupted"}
ActionStatus == {"absent", "awaiting", "ready", "dispatched", "unknown",
                 "succeeded", "failed", "cancelled", "invalidated"}
InFlight == {"dispatched", "unknown"}

\* A run over the budget ends at once; only a fault asks for one more.
Run == 1 .. MaxRuns + 1 + MaxFaults

Fault == faults < MaxFaults /\ faults' = faults + 1

Idle == [pc |-> "idle", job |-> "none", seen |-> "none",
         run |-> 0, act |-> NoAction, steps |-> 0]
NoTool == [op |-> "none", seen |-> "none"]

Init ==
    /\ task = "queued" /\ current = 0
    /\ run = [r \in Run |-> "none"] /\ live = {}
    /\ action = [a \in Action |-> "absent"]
    /\ approval = [a \in Action |-> "none"] /\ overdue = {}
    /\ wakes = 1 /\ reconciled = FALSE
    /\ worker = [w \in Worker |-> Idle]
    /\ tool = NoTool
    /\ effects = [a \in Action |-> 0] /\ late = {}
    /\ faults = 0
-------------------------------------------------------------------------------
(* state_machine.py *)

\* Transitions of the task, with dispatching and verifying, which no
\* transaction leaves it in, taken together with what follows them.
TaskMoves ==
    [queued           |-> {"running", "blocked_user", "cancelled"},
     running          |-> {"queued"} \cup Blocked \cup Terminal,
     blocked_approval |-> {"queued", "failed", "cancelled"},
     blocked_user     |-> {"queued", "failed", "cancelled"},
     blocked_node     |-> {"queued", "reconciling", "failed", "cancelled"},
     reconciling      |-> {"queued", "running", "failed", "cancelled"}]

Allowed(seen, s) == seen = s \/ (seen \in DOMAIN TaskMoves /\ s \in TaskMoves[seen])

ActionMoves ==
    [absent     |-> {"awaiting", "ready", "failed"},
     awaiting   |-> {"ready", "cancelled", "invalidated"},
     ready      |-> {"dispatched", "invalidated", "cancelled"},
     dispatched |-> {"succeeded", "failed", "unknown", "invalidated"},
     unknown    |-> {"succeeded", "failed", "ready", "cancelled"}]

MayBecome(a, s) ==
    action[a] = s \/ (action[a] \in DOMAIN ActionMoves /\ s \in ActionMoves[action[a]])

\* transition_task: every transition is a new version, whose wake-up key is free.
MoveTask(s) == task' = s /\ reconciled' = FALSE

SetAction(a, s) == action' = [action EXCEPT ![a] = s]

\* finish_run; a run that has ended otherwise refuses.
MayFinish(r, s) == run[r] \in {"running", s}
FinishRun(r, s) == run' = [run EXCEPT ![r] = s] /\ live' = live \ {r}
-------------------------------------------------------------------------------
(* The job of a worker *)

\* HandlerOutcome.COMPLETED
JobDone(w) == worker' = [worker EXCEPT ![w] = Idle] /\ UNCHANGED wakes

\* The run is over; the handler still has to take its execution lock again.
RunOver(w) ==
    worker' = [worker EXCEPT ![w] = [Idle EXCEPT !.pc = "ending", !.job = worker[w].job]]

\* RETRYABLE_ERROR: the job comes back, or that was its last attempt.
JobFails(w) ==
    /\ worker' = [worker EXCEPT ![w] = Idle]
    /\ IF worker[w].job = "held" THEN wakes' \in {wakes, wakes + 1} ELSE UNCHANGED wakes

\* A ValueError of a state machine or of renew_run: nothing is committed.
Conflict(w) == JobFails(w) /\ UNCHANGED <<rows, reconciled>>

Claim(w) ==
    /\ worker[w] = Idle /\ wakes > 0
    /\ wakes' = wakes - 1
    /\ worker' = [worker EXCEPT ![w].pc = "read", ![w].job = "held"]
    /\ UNCHANGED <<rows, reconciled, tool, world, faults>>

ReadTask(w) ==
    /\ worker[w].pc = "read"
    /\ IF task \in Terminal \cup Blocked
       THEN JobDone(w)
       ELSE /\ worker' = [worker EXCEPT ![w].pc = "start",
                                        ![w].seen = IF StaleReads THEN task ELSE @]
            /\ UNCHANGED wakes
    /\ UNCHANGED <<rows, reconciled, tool, world, faults>>

\* The row is locked now, but the session keeps the object it has.  What nobody
\* looks at again is not remembered.
Seen(w) == IF StaleReads THEN worker[w].seen ELSE task

NextRun == Cardinality({r \in Run : run[r] # "none"}) + 1

StartRun(w) ==
    /\ worker[w].pc = "start"
    /\ IF Seen(w) # "queued"
       THEN Conflict(w)
       ELSE /\ NextRun \in Run
            /\ SlowDispatch \/ \A v \in Worker : worker[v].pc # "fenced"
            /\ MoveTask("running")
            /\ current' = NextRun
            /\ run' = [run EXCEPT ![NextRun] = "running"]
            /\ live' = live \cup {NextRun}
            /\ worker' = [worker EXCEPT ![w].pc = "loop", ![w].run = NextRun]
            /\ UNCHANGED <<action, approval, overdue, wakes>>
    /\ UNCHANGED <<tool, world, faults>>

\* _ensure_isolation cannot create the worktree: the start is rolled back.
StartFails(w) ==
    /\ worker[w].pc = "start" /\ Fault
    /\ JobFails(w)
    /\ UNCHANGED <<rows, reconciled, tool, world>>
-------------------------------------------------------------------------------
(* The loop of a run *)

InLoop(w) == worker[w].pc = "loop"
Ready == {a \in Action : action[a] = "ready"}
Least(S) == CHOOSE a \in S : \A b \in S : a <= b

\* The run ends and takes the task to s, if both still can.
EndRun(w, s) ==
    LET r == worker[w].run IN
    IF Allowed(task, s) /\ MayFinish(r, "completed")
    THEN /\ MoveTask(s) /\ FinishRun(r, "completed") /\ RunOver(w)
         /\ UNCHANGED <<current, action, approval, overdue, wakes>>
    ELSE Conflict(w)

\* _complete first takes a queued task through dispatching to running.
Complete(w, s) ==
    LET r == worker[w].run
        end == IF s = "failed" THEN "failed" ELSE "completed" IN
    IF task \in {"queued", "running"} /\ MayFinish(r, end)
    THEN /\ MoveTask(s) /\ FinishRun(r, end) /\ RunOver(w)
         /\ UNCHANGED <<current, action, approval, overdue, wakes>>
    ELSE Conflict(w)

OverBudget(w) ==
    /\ InLoop(w) /\ worker[w].run > MaxRuns
    /\ Complete(w, "partial")
    /\ UNCHANGED <<tool, world, faults>>

MayStep(w) == InLoop(w) /\ worker[w].run <= MaxRuns /\ worker[w].steps < MaxSteps

NoticeCancel(w) ==
    LET r == worker[w].run IN
    /\ MayStep(w) /\ task = "cancelled"
    /\ IF MayFinish(r, "interrupted")
       THEN /\ FinishRun(r, "interrupted") /\ RunOver(w)
            /\ UNCHANGED <<task, current, action, approval, overdue, jobs>>
       ELSE Conflict(w)
    /\ UNCHANGED <<tool, world, faults>>

\* renew_run, which a run that has been ended refuses.
Renew(w, pc, a) ==
    IF run[worker[w].run] = "running"
    THEN /\ live' = live \cup {worker[w].run}
         /\ worker' = [worker EXCEPT ![w].pc = pc, ![w].act = a]
         /\ UNCHANGED <<task, current, run, action, approval, overdue, jobs>>
    ELSE Conflict(w)

TakeReady(w) ==
    /\ MayStep(w) /\ task # "cancelled" /\ Ready # {}
    /\ Renew(w, "fenced", Least(Ready))
    /\ UNCHANGED <<tool, world, faults>>

AskModel(w) ==
    /\ MayStep(w) /\ task # "cancelled" /\ Ready = {}
    /\ Renew(w, "model", NoAction)
    /\ UNCHANGED <<tool, world, faults>>

\* No capability in scope, or its node is offline.
NoCapability(w) ==
    /\ MayStep(w) /\ task # "cancelled" /\ Ready = {}
    /\ EndRun(w, "blocked_node")
    /\ UNCHANGED <<tool, world, faults>>

StepLimit(w) ==
    LET r == worker[w].run IN
    /\ InLoop(w) /\ r <= MaxRuns /\ worker[w].steps = MaxSteps
    /\ IF Allowed(task, "queued") /\ MayFinish(r, "completed")
       THEN /\ MoveTask("queued") /\ FinishRun(r, "completed") /\ RunOver(w)
            /\ wakes' = wakes + 1
            /\ UNCHANGED <<current, action, approval, overdue>>
       ELSE Conflict(w)
    /\ UNCHANGED <<tool, world, faults>>
-------------------------------------------------------------------------------
(* What the model proposes *)

BackToLoop(w) ==
    worker' = [worker EXCEPT ![w].pc = "loop", ![w].act = NoAction, ![w].steps = @ + 1]

Discover(w) ==
    /\ worker[w].pc = "model"
    /\ BackToLoop(w)
    /\ UNCHANGED <<rows, jobs, tool, world, faults>>

Finish(w) ==
    /\ worker[w].pc = "model"
    /\ \E s \in {"succeeded", "partial", "failed"} : Complete(w, s)
    /\ UNCHANGED <<tool, world, faults>>

\* ask_user, and watch, whose event ends the block like an answer.
AskUser(w) ==
    /\ worker[w].pc = "model"
    /\ EndRun(w, "blocked_user")
    /\ UNCHANGED <<tool, world, faults>>

Unplanned == {a \in Action : action[a] = "absent"}

\* create_action asks neither the task nor the run for its status.
Plan(w, a, s) ==
    /\ SetAction(a, s)
    /\ BackToLoop(w)
    /\ UNCHANGED <<task, current, run, live, approval, overdue, jobs>>

AwaitApproval(w, a) ==
    LET r == worker[w].run IN
    IF Allowed(task, "blocked_approval") /\ MayFinish(r, "completed")
    THEN /\ SetAction(a, "awaiting")
         /\ approval' = [approval EXCEPT ![a] = "pending"]
         /\ MoveTask("blocked_approval") /\ FinishRun(r, "completed") /\ RunOver(w)
         /\ UNCHANGED <<current, overdue, wakes>>
    ELSE Conflict(w)

Propose(w) ==
    /\ worker[w].pc = "model"
    /\ IF Unplanned = {}
       THEN Complete(w, "partial")                 \* action_budget_exhausted
       ELSE LET a == Least(Unplanned) IN
            \/ Plan(w, a, "failed")                \* blocked by policy
            \/ a \in Risky /\ AwaitApproval(w, a)
            \/ a \notin Risky /\ Plan(w, a, "ready")
    /\ UNCHANGED <<tool, world, faults>>
-------------------------------------------------------------------------------
(* Dispatch of a ready action *)

\* The commit of renew_run has expired the action: its status is read again.
Dispatch(w) ==
    LET a == worker[w].act IN
    /\ worker[w].pc = "fenced"
    /\ \/ /\ MayBecome(a, "dispatched")
          /\ SetAction(a, "dispatched")
          /\ worker' = [worker EXCEPT ![w].pc = "exec"]
          /\ UNCHANGED <<task, current, run, live, approval, overdue, jobs>>
       \/ /\ MayBecome(a, "invalidated")           \* precondition
          /\ SetAction(a, "invalidated")
          /\ BackToLoop(w)
          /\ UNCHANGED <<task, current, run, live, approval, overdue, jobs>>
       \/ /\ ~MayBecome(a, "dispatched")
          /\ Conflict(w)
    /\ UNCHANGED <<tool, world, faults>>

\* The tool changes the world, in the thread of the call or after its timeout.
Effect(w) ==
    /\ worker[w].pc = "exec"
    /\ effects' = [effects EXCEPT ![worker[w].act] = @ + 1]
    /\ worker' = [worker EXCEPT ![w].pc = "done"]
    /\ UNCHANGED <<rows, jobs, tool, late, faults>>

LateEffect(a) ==
    /\ a \in late
    /\ effects' = [effects EXCEPT ![a] = @ + 1]
    /\ late' = late \ {a}
    /\ UNCHANGED <<rows, jobs, worker, tool, faults>>

Settle(w, s) ==
    IF MayBecome(worker[w].act, s)
    THEN /\ SetAction(worker[w].act, s)
         /\ BackToLoop(w)
         /\ UNCHANGED <<task, current, run, live, approval, overdue, jobs>>
    ELSE Conflict(w)

Succeed(w) ==
    /\ worker[w].pc = "done"
    /\ Settle(w, "succeeded")
    /\ UNCHANGED <<tool, world, faults>>

\* Refused before it did anything: scope, descriptor, resource_busy, a tool error.
Refuse(w) ==
    /\ worker[w].pc = "exec"
    /\ \E s \in {"failed", "invalidated"} : Settle(w, s)
    /\ UNCHANGED <<tool, world, faults>>

\* _execute_direct calls a local tool that timed out failed.
TimeOut(w) ==
    LET a == worker[w].act IN
    /\ worker[w].pc = "exec" /\ LateEffects
    /\ Settle(w, "failed")
    /\ late' = late \cup {a}
    /\ UNCHANGED <<tool, effects, faults>>

\* execution_unknown: before or after the effect.
Unknown(w) ==
    LET a == worker[w].act
        r == worker[w].run
        end == IF task = "cancelled" THEN "interrupted" ELSE "completed" IN
    /\ worker[w].pc \in {"exec", "done"}
    /\ IF MayBecome(a, "unknown") /\ MayFinish(r, end)
          /\ (task = "cancelled" \/ Allowed(task, "reconciling"))
       THEN /\ SetAction(a, "unknown")
            /\ FinishRun(r, end) /\ RunOver(w)
            /\ IF task = "cancelled" THEN UNCHANGED <<task, reconciled>>
                                     ELSE MoveTask("reconciling")
            /\ UNCHANGED <<current, approval, overdue, wakes>>
       ELSE Conflict(w)
    /\ UNCHANGED <<tool, world, faults>>

\* The handler returns COMPLETED.
Return(w) ==
    /\ worker[w].pc = "ending"
    /\ JobDone(w)
    /\ UNCHANGED <<rows, reconciled, tool, world, faults>>
-------------------------------------------------------------------------------
(* Exceptions, crashes, stalls *)

\* The exception path of the handler: it ends the run the task has now.
Rescue(w) ==
    /\ JobFails(w)
    /\ IF task = "running"
       THEN /\ MoveTask("queued")
            /\ IF current > 0 /\ run[current] = "running"
               THEN FinishRun(current, "failed") ELSE UNCHANGED <<run, live>>
       ELSE UNCHANGED <<task, run, live, reconciled>>
    /\ UNCHANGED <<current, action, approval, overdue>>

\* The model, the database or resume_execution_authorization fails, or, if
\* results may be lost, the dispatch.
Fail(w) ==
    /\ \/ worker[w].pc \in {"loop", "model", "ending"}
       \/ LostResults /\ worker[w].pc \in {"exec", "done"}
    /\ Fault
    /\ Rescue(w)
    /\ UNCHANGED <<tool, world>>

\* The process dies, and its job is taken over when its lease is over.
Crash(w) ==
    /\ worker[w] # Idle /\ Fault
    /\ worker' = [worker EXCEPT ![w] = Idle]
    /\ wakes' = IF worker[w].job = "held" THEN wakes + 1 ELSE wakes
    /\ UNCHANGED <<rows, reconciled, tool, world>>

\* The heartbeat of the job fails: somebody else may claim it.
Stall(w) ==
    /\ worker[w].job = "held" /\ Fault
    /\ worker' = [worker EXCEPT ![w].job = "lost"]
    /\ wakes' = wakes + 1
    /\ UNCHANGED <<rows, reconciled, tool, world>>

\* The lease of a run nobody works on is over; that of one that is worked on is
\* if the model or a tool takes longer than the lease.
LeaseExpires(r) ==
    LET at == {w \in Worker : worker[w].run = r} IN
    /\ r \in live
    /\ live' = live \ {r}
    /\ IF at = {} THEN UNCHANGED faults ELSE Fault
    /\ UNCHANGED <<task, current, run, action, approval, overdue, jobs, worker, tool,
                   world>>
-------------------------------------------------------------------------------
(* _agent_task_scanner_job *)

\* Mutant: a dispatched action is made ready again.
RecoverByRetry ==
    LET held == current > 0 /\ run[current] = "running" IN
    /\ task = "running"
    /\ ~(held /\ current \in live)
    /\ IF held THEN FinishRun(current, "interrupted") ELSE UNCHANGED <<run, live>>
    /\ MoveTask("queued") /\ wakes' = wakes + 1
    /\ action' = [a \in Action |-> IF action[a] \in InFlight THEN "ready" ELSE action[a]]
    /\ UNCHANGED <<current, approval, overdue, worker, tool, world, faults>>

\* Mutant: the run that is taken over stays as it is.
RecoverTaskOnly ==
    /\ task = "running"
    /\ ~(current > 0 /\ run[current] = "running" /\ current \in live)
    /\ MoveTask("queued") /\ wakes' = wakes + 1
    /\ UNCHANGED <<run, live, action, current, approval, overdue, worker, tool, world, faults>>

\* recover_stale_tasks
Recover ==
    LET held == current > 0 /\ run[current] = "running"
        open == {a \in Action : action[a] \in InFlight} IN
    /\ task = "running"
    /\ ~(held /\ current \in live)
    /\ IF held THEN FinishRun(current, "interrupted") ELSE UNCHANGED <<run, live>>
    /\ IF open # {}
       THEN /\ \E a \in open : SetAction(a, "unknown")
            /\ MoveTask("reconciling")
            /\ UNCHANGED wakes
       ELSE /\ MoveTask("queued") /\ wakes' = wakes + 1
            /\ UNCHANGED action
    /\ UNCHANGED <<current, approval, overdue, worker, tool, world, faults>>

\* Mutant: every job that was ever enqueued counts as one that is to come.
AwakeOnce == TRUE

\* A job of the task is pending or running.
Awake == wakes > 0 \/ \E w \in Worker : worker[w].job = "held"

\* reconcile_queued_tasks: the key of the job holds the version, so that it
\* wakes each version of the task once.
WakeUp ==
    /\ task = "queued" /\ ~Awake /\ ~reconciled
    /\ reconciled' = TRUE /\ wakes' = wakes + 1
    /\ UNCHANGED <<rows, worker, tool, world, faults>>

\* Mutant: the action is released when its approval runs out.
ExpireReady(a) ==
    /\ approval' = [approval EXCEPT ![a] = "failed"]
    /\ SetAction(a, "ready")
    /\ MoveTask("queued") /\ wakes' = wakes + 1

\* _expire
Expire(a) ==
    /\ approval' = [approval EXCEPT ![a] = "failed"]
    /\ SetAction(a, "invalidated")
    /\ MoveTask("queued") /\ wakes' = wakes + 1

\* expire_due
ExpireDue(a) ==
    /\ a \in overdue /\ approval[a] = "pending"
    /\ IF task = "blocked_approval" /\ action[a] = "awaiting"
       THEN Expire(a)
       ELSE /\ approval' = [approval EXCEPT ![a] = "failed"]
            /\ UNCHANGED <<action, task, jobs>>
    /\ UNCHANGED <<current, run, live, overdue, worker, tool, world, faults>>

ApprovalDue(a) ==
    /\ approval[a] = "pending" /\ a \notin overdue
    /\ overdue' = overdue \cup {a}
    /\ UNCHANGED <<task, current, run, live, action, approval, jobs, worker, tool,
                   world, faults>>
-------------------------------------------------------------------------------
(* The user and the main agent *)

\* Until the approval is decided; the route has read it before it is locked.
Undecided(a) == approval[a] = "pending" \/ (StaleReads /\ approval[a] # "none")

Waiting(a) == task = "blocked_approval" /\ action[a] = "awaiting"

Deny(a) ==
    /\ Undecided(a) /\ Waiting(a)
    /\ approval' = [approval EXCEPT ![a] = "denied"]
    /\ SetAction(a, "cancelled")
    /\ MoveTask("failed")
    /\ UNCHANGED <<current, run, live, overdue, wakes, worker, tool, world, faults>>

Approve(a) ==
    /\ Undecided(a) /\ Waiting(a)
    /\ \/ a \in overdue /\ Expire(a)
       \/ /\ a \notin overdue
          /\ \/ /\ approval' = [approval EXCEPT ![a] = "succeeded"]
                /\ SetAction(a, "ready")
             \/ /\ approval' = [approval EXCEPT ![a] = "failed"]     \* it has changed
                /\ SetAction(a, "invalidated")
          /\ MoveTask("queued") /\ wakes' = wakes + 1
    /\ UNCHANGED <<current, run, live, overdue, worker, tool, world, faults>>

\* Mutant: the approvals of the task are forgotten.
CancelActionsOnly(seen) ==
    /\ seen \notin Terminal
    /\ MoveTask("cancelled")
    /\ action' = [a \in Action |-> IF action[a] \in {"awaiting", "ready"} THEN "cancelled"
                                                                         ELSE action[a]]
    /\ UNCHANGED <<approval, wakes>>

\* cancel_task, for a session that has seen the status before.
CancelTask(seen) ==
    /\ seen \notin Terminal
    /\ MoveTask("cancelled")
    /\ action' = [a \in Action |-> IF action[a] \in {"awaiting", "ready"} THEN "cancelled"
                                                                         ELSE action[a]]
    /\ approval' = [a \in Action |-> IF approval[a] = "pending" THEN "denied"
                                                                ELSE approval[a]]
    /\ UNCHANGED wakes

\* send_input: an answer ends blocked_user, and is a new version in any case.
SendInput(seen) ==
    /\ seen \notin Terminal
    /\ IF seen = "blocked_user"
       THEN MoveTask("queued") /\ wakes' = wakes + 1
       ELSE reconciled' = FALSE /\ UNCHANGED <<task, wakes>>
    /\ UNCHANGED <<action, approval>>

\* The routes of the task center lock the task when they read it.
UserActs ==
    /\ CancelTask(task) \/ SendInput(task)
    /\ UNCHANGED <<current, run, live, overdue, worker, tool, world, faults>>

\* The tools of the main agent read the task, and lock it then.
ToolReads ==
    /\ tool = NoTool
    /\ \E op \in {"cancel", "input"} : tool' = [op |-> op, seen |-> IF StaleReads THEN task ELSE "none"]
    /\ UNCHANGED <<rows, jobs, worker, world, faults>>

ToolActs ==
    LET seen == IF StaleReads THEN tool.seen ELSE task IN
    /\ tool # NoTool
    /\ tool' = NoTool
    /\ \/ tool.op = "cancel" /\ CancelTask(seen)
       \/ tool.op = "input" /\ SendInput(seen)
       \/ seen \in Terminal /\ UNCHANGED <<task, action, approval, jobs>>
    /\ UNCHANGED <<current, run, live, overdue, worker, world, faults>>

\* WatcherService: a watch has an event, or the node is online again.
EventWakes ==
    /\ task \in {"blocked_user", "blocked_node"}
    /\ MoveTask("queued") /\ wakes' = wakes + 1
    /\ UNCHANGED <<current, run, live, action, approval, overdue, worker, tool, world, faults>>

\* desktop/reconciliation.py: the journal of the node tells the outcome.
JournalTells(a) ==
    /\ action[a] = "unknown" /\ \A w \in Worker : worker[w].act # a
    /\ SetAction(a, IF effects[a] > 0 THEN "succeeded" ELSE "failed")
    /\ IF task \in {"reconciling", "blocked_node"}
          /\ \A b \in Action \ {a} : action[b] \notin InFlight
       THEN MoveTask("queued") /\ wakes' = wakes + 1
       ELSE UNCHANGED <<task, jobs>>
    /\ UNCHANGED <<current, run, live, approval, overdue, worker, tool, world, faults>>
-------------------------------------------------------------------------------
\* What a worker does on its own, once it has a job.
Work(w) ==
    \/ ReadTask(w) \/ StartRun(w)
    \/ OverBudget(w) \/ NoticeCancel(w) \/ TakeReady(w) \/ AskModel(w) \/ StepLimit(w)
    \/ Discover(w) \/ Finish(w) \/ AskUser(w) \/ Propose(w)
    \/ Dispatch(w) \/ Effect(w) \/ Succeed(w) \/ Refuse(w) \/ Unknown(w)
    \/ Return(w)

Scan == Recover \/ WakeUp \/ \E a \in Action : ExpireDue(a)

Next ==
    \/ \E w \in Worker :
        \/ Claim(w) \/ Work(w)
        \/ NoCapability(w) \/ TimeOut(w) \/ StartFails(w) \/ Fail(w) \/ Crash(w) \/ Stall(w)
    \/ \E r \in Run : LeaseExpires(r)
    \/ Scan
    \/ UserActs \/ ToolReads \/ ToolActs \/ EventWakes
    \/ \E a \in Action :
        ApprovalDue(a) \/ Deny(a) \/ Approve(a) \/ JournalTells(a) \/ LateEffect(a)

Spec == Init /\ [][Next]_trVars
-------------------------------------------------------------------------------
(* Properties *)

\* Every variable keeps its shape.
TypeOK ==
    /\ task \in TaskStatus /\ current \in Run \cup {0}
    /\ run \in [Run -> RunStatus] /\ live \subseteq Run
    /\ action \in [Action -> ActionStatus]
    /\ approval \in [Action -> {"none", "pending", "succeeded", "denied", "failed"}]
    /\ overdue \subseteq Action
    /\ wakes \in Nat /\ reconciled \in BOOLEAN
    /\ \A w \in Worker :
        /\ worker[w].pc \in {"idle", "read", "start", "loop", "model", "fenced",
                             "exec", "done", "ending"}
        /\ worker[w].job \in {"none", "held", "lost"}
        /\ worker[w].run \in Run \cup {0} /\ worker[w].act \in Action \cup {NoAction}
        /\ worker[w].steps \in 0 .. MaxSteps
    /\ effects \in [Action -> Nat] /\ late \subseteq Action

\* An action is carried out at most once, though its job is delivered again, its
\* run is taken over and two workers may be in the same task.
ExecutedOnce ==
    /\ TypeOK
    /\ \A a \in Action : effects[a] <= 1

\* Never two runs of a task are running: a run that is taken over has ended.
OneRun == \A r, s \in Run : run[r] = "running" /\ run[s] = "running" => r = s

\* What needs an approval is carried out only after the user gave it.
ApprovedFirst == \A a \in Risky : effects[a] > 0 => approval[a] = "succeeded"

\* The task is blocked_approval exactly while the user is asked, about an action
\* that waits: no approval outlives the block, no block outlives its approval.
AskedIffBlocked ==
    /\ task = "blocked_approval" <=> \E a \in Action : approval[a] = "pending"
    /\ \A a \in Action : approval[a] = "pending" <=> action[a] = "awaiting"

Executing(a) == \E w \in Worker : worker[w].act = a /\ worker[w].pc \in {"exec", "done"}

\* The three statements that follow are not kept by the code: README, section 4.

\* A task is not queued, to plan its next action, while the outcome of one that
\* nobody carries out any more is open: that has to be reconciled first.
UnknownIsNotPassed ==
    task = "queued" => \A a \in Action : action[a] \in InFlight => Executing(a)

\* What has failed has not been done.
FailedIsUndone == \A a \in Action : action[a] = "failed" => effects[a] = 0

\* A task that has ended stays as it ended.
TerminalIsFinal == [][(task \in Terminal => UNCHANGED task)]_trVars

\* The scanner is a timer of the outbox process, the worker a loop: both go on;
\* leases and approvals run out.  Nothing is assumed of the user, of nodes, or of
\* what the model proposes.
Fairness ==
    /\ \A w \in Worker : WF_trVars(Claim(w)) /\ WF_trVars(Work(w))
    /\ WF_trVars(Scan)
    /\ \A r \in Run : WF_trVars(LeaseExpires(r))
    /\ \A a \in Action : WF_trVars(ApprovalDue(a))

FairSpec == Spec /\ Fairness

\* Where a task may stay: it has ended, or waits for the user or for a node.
Rest == Terminal \cup {"blocked_user", "blocked_node", "reconciling"}

\* A task that is queued, running or waiting for an approval comes to rest.
TaskRests == task \notin Rest ~> task \in Rest
===============================================================================
