--------------------------------- MODULE Goal ---------------------------------
(***************************************************************************)
(* A long-term goal: one agent task whose task_state holds a plan of steps *)
(* (task_runtime/goal_plan.py, goal_service.py).  The user confirms,       *)
(* edits, pauses, starts, approves and answers; the scanner fires trigger  *)
(* rules (goal_trigger_service.py) and time watches (watchers.py); a model *)
(* decides what a trigger means (goal_decision.py); runs of the task       *)
(* (runtime.py) work on the current step and settle it.                    *)
(*                                                                         *)
(* An action is a transaction that holds the row of the task; a refused    *)
(* request changes nothing and is not an action.  Between two actions of a *)
(* run or of a decision everybody else may commit.  One worker runs the    *)
(* task: overlapping runs are the subject of TaskRuntime.                  *)
(***************************************************************************)
EXTENDS Naturals, FiniteSets

CONSTANTS Step,        \* the steps, numbered in the order of the plan
          NoStep,
          Autonomous, Approval,  \* kinds; every other step is interactive
          Deps,        \* depends_on of each step
          Timed,       \* steps with a schedule ("once" or "weekly")
          Weekly,      \* those that recur
          Ruled,       \* steps with an explicit trigger on an event
          MaxOps,      \* bound: requests of the user
          MaxFires     \* bound: trigger rules fired

ASSUME GoalAssumption ==
    /\ Step \subseteq Nat /\ IsFiniteSet(Step) /\ NoStep \notin Step
    /\ Autonomous \subseteq Step /\ Approval \subseteq Step \ Autonomous
    /\ Deps \in [Step -> SUBSET Step]
    /\ \A s \in Step : \A d \in Deps[s] : d < s
    /\ Weekly \subseteq Timed /\ Timed \subseteq Step /\ Ruled \subseteq Step \ Timed
    /\ MaxOps \in Nat /\ MaxFires \in Nat

VARIABLES plan,      \* task_state["goal"]
          watches,   \* active time watches of each step: still to come, or due
          passed,    \* scheduled steps whose time has come
          ripe,      \* those whose occurrence no rule has been fired for
          fired,     \* goal_trigger_decision jobs: step and trigger key
          deciding,  \* the job past its first checks, and <<>> if there is none
          fires,     \* trigger keys given out
          asked,     \* steps an open question is recorded for
          task,      \* status of the task
          wakes,     \* pending agent_task_run jobs
          run,       \* the run: where it is, and the step it took on
          proved,    \* history: steps in whose runs evidence was captured
          granted,   \* history: steps approved as they are now
          ops

clock == <<passed, ripe>>
triggers == <<fired, deciding, fires, asked>>
history == <<proved, granted>>
gVars == <<plan, watches, clock, triggers, task, wakes, run, history, ops>>

StepStatus == {"pending", "ready", "running", "waiting_user", "waiting_time",
               "done", "failed", "skipped"}
PlanStatus == {"proposed", "active", "paused", "blocked",
               "completed", "rejected", "abandoned"}
Over == {"completed", "rejected", "abandoned"}
Terminal == {"succeeded", "partial", "failed", "cancelled"}
TaskStatus == {"blocked_user", "queued", "running"} \cup Terminal
Moment == {"future", "past"}
Jobs == Step \X (1..MaxFires)
NoJob == <<>>

Plan == [status : PlanStatus, step : [Step -> StepStatus],
         due : [Step -> Moment \cup {"none"}], key : [Step -> 0..MaxFires],
         approved : SUBSET Step, evidence : SUBSET Step,
         current : Step \cup {NoStep}]

NoRun == [pc |-> "none", step |-> NoStep]

(* attach_plan, for a task that delegate_task created without a wake-up.   *)
Init ==
    /\ plan = [status |-> "proposed", step |-> [s \in Step |-> "pending"],
               due |-> [s \in Step |-> "none"], key |-> [s \in Step |-> 0],
               approved |-> {}, evidence |-> {}, current |-> NoStep]
    /\ watches = [s \in Step |-> {}] /\ passed = {} /\ ripe = {}
    /\ fired = {} /\ deciding = NoJob /\ fires = 0 /\ asked = {}
    /\ task = "blocked_user" /\ wakes = 0 /\ run = NoRun
    /\ proved = {} /\ granted = {} /\ ops = 0

-----------------------------------------------------------------------------
(* Reading a plan. *)

Finished(p) == {s \in Step : p.step[s] \in {"done", "skipped"}}
DependenciesMet(p, s) == Deps[s] \subseteq Finished(p)
NeedsApproval(p, s) == s \in Approval \ p.approved

(* A step may run when it was made ready, or by itself unless it waits for *)
(* the user, for a rule or for its time.                                   *)
Runnable(p, s) ==
    /\ DependenciesMet(p, s)
    /\ \/ p.step[s] = "ready"
       \/ /\ p.step[s] = "pending"
          /\ s \in (Autonomous \cup Approval) \ Ruled
          /\ s \in Timed => p.due[s] = "past"

First(S) == IF S = {} THEN NoStep ELSE CHOOSE s \in S : \A t \in S : s <= t
NextRunnable(p) == First({s \in Step : Runnable(p, s)})

WithStep(p, s, status) == [p EXCEPT !.step[s] = status]
WithCurrent(p, s, status) == [p EXCEPT !.step[s] = status, !.current = s]
DropCurrent(p, S) == IF p.current \in S THEN [p EXCEPT !.current = NoStep] ELSE p

-----------------------------------------------------------------------------
(* Time watches: one for each occurrence of a schedule a step waits for.   *)

Occurrence(s) == IF s \in Weekly \/ s \notin passed THEN "future" ELSE "none"
NextDue(p, s) == IF p.due[s] # "none" THEN p.due[s] ELSE Occurrence(s)
Watched(p) ==
    {s \in Timed : /\ p.step[s] \in {"pending", "waiting_time", "waiting_user"}
                   /\ NextDue(p, s) # "none"}
Scheduled(p) ==
    [p EXCEPT !.due = [s \in Step |-> IF s \in Watched(p) THEN NextDue(p, s) ELSE @[s]]]
Planted(p, w) ==
    [s \in Step |-> IF s \in Watched(p) THEN w[s] \cup {NextDue(p, s)} ELSE w[s]]
NoWatches == [s \in Step |-> {}]

-----------------------------------------------------------------------------
(* _advance: which step is next, and whether the task has to run for it.   *)

Verdict(p, outcome, plant) ==
    [plan |-> IF plant THEN Scheduled(p) ELSE p, outcome |-> outcome, plant |-> plant]
Wait(p) == Verdict(p, "wait", FALSE)
Idle(p) == [p EXCEPT !.current = NoStep]

Upcoming(p) ==
    {s \in Timed : p.step[s] \in {"pending", "waiting_time"} /\ p.due[s] # "none"}
Invited(p) ==
    {s \in Step \ (Autonomous \cup Approval \cup Timed \cup Ruled) :
        p.step[s] = "pending" /\ DependenciesMet(p, s)}
StillOpen(p) ==
    \/ (Timed \cup Ruled) \ Finished(p) # {}
    \/ \E s \in Step : p.step[s] = "waiting_user"
Unproven(p) == (Autonomous \cup Approval) \ p.evidence

Advance(p) ==
    LET next == NextRunnable(p)
        active == [p EXCEPT !.status = "active"]
    IN  IF next # NoStep THEN
            IF NeedsApproval(p, next)
            THEN Wait(WithCurrent(active, next, "waiting_user"))
            ELSE Verdict(WithCurrent(active, next, "ready"), "advance", FALSE)
        ELSE IF Upcoming(p) # {} THEN Verdict(Idle(p), "wait", TRUE)
        ELSE IF Invited(p) # {} THEN
            Wait([Idle(p) EXCEPT !.step =
                     [s \in Step |-> IF s \in Invited(p) THEN "waiting_user" ELSE @[s]]])
        ELSE IF StillOpen(p) THEN Wait(Idle(p))
        ELSE IF Finished(p) = Step /\ Unproven(p) = {} THEN
            Verdict([Idle(p) EXCEPT !.status = "completed"], "complete", FALSE)
        ELSE Wait([p EXCEPT !.status = "blocked"])

Settle(v, w) ==
    /\ plan' = v.plan
    /\ watches' = IF v.plant THEN Planted(v.plan, w) ELSE w

-----------------------------------------------------------------------------
(* The task.  A run may meet a task that was cancelled behind its back:    *)
(* then the transition is refused and nothing of the step is saved.        *)

Allowed(status) ==
    \/ status = task
    \/ task = "blocked_user" /\ status \in {"queued", "failed", "cancelled"}
    \/ task = "queued" /\ status \in {"running", "blocked_user", "cancelled"}
    \/ task = "running" /\ status \in
         {"queued", "blocked_user", "succeeded", "partial", "failed", "cancelled"}

(* _complete takes a task that is queued again through running first.      *)
MayComplete(status) == task = "queued" \/ Allowed(status)

TaskKept == UNCHANGED <<task, wakes>>
Enqueue == wakes' = wakes + 1

(* A request that gives the task something to do. *)
Rouse ==
    IF task = "blocked_user" THEN task' = "queued" /\ Enqueue ELSE TaskKept

Cancelled == task' = IF task \in Terminal THEN task ELSE "cancelled"

-----------------------------------------------------------------------------
(* Requests of the user. *)

UserActs ==
    /\ ops < MaxOps /\ ops' = ops + 1
    /\ UNCHANGED run

Confirm ==
    /\ UserActs /\ plan.status = "proposed"
    /\ LET p == [plan EXCEPT !.status = "active"]
           v == Advance(Scheduled(p))
       IN  /\ Settle(v, Planted(p, watches))
           /\ IF v.outcome = "advance"
              THEN task' = (IF task = "blocked_user" THEN "queued" ELSE task) /\ Enqueue
              ELSE Allowed("blocked_user") /\ task' = "blocked_user" /\ UNCHANGED wakes
    /\ UNCHANGED <<clock, triggers, history>>

Reject ==
    /\ UserActs /\ plan.status \in {"proposed", "paused", "blocked"}
    /\ plan' = [plan EXCEPT !.status = "rejected"]
    /\ watches' = NoWatches /\ Cancelled
    /\ UNCHANGED <<clock, triggers, wakes, history>>

End ==
    /\ UserActs /\ plan.status # "abandoned"
    /\ plan' = [plan EXCEPT !.status = "abandoned"]
    /\ watches' = NoWatches /\ Cancelled
    /\ UNCHANGED <<clock, triggers, wakes, history>>

Pause ==
    /\ UserActs /\ plan.status \in {"active", "blocked"}
    /\ plan' = [plan EXCEPT !.status = "paused"]
    /\ watches' = NoWatches
    /\ task' = IF task = "queued" THEN "blocked_user" ELSE task
    /\ UNCHANGED <<clock, triggers, wakes, history>>

GoOnAsleep(p, w) ==
    LET v == Advance(Scheduled(p)) IN
    /\ Settle(v, Planted(p, w)) /\ UNCHANGED wakes
    /\ task' = IF v.outcome = "advance" THEN "queued" ELSE task

(* The task goes on if the plan has a step for it.  p is the plan to go on *)
(* with, w the watches that are left.                                      *)
GoOn(p, w) ==
    LET v == Advance(Scheduled(p)) IN
    IF p.status = "active" /\ task = "blocked_user" THEN
        /\ Settle(v, Planted(p, w))
        /\ IF v.outcome = "advance" THEN task' = "queued" /\ Enqueue ELSE TaskKept
    ELSE plan' = Scheduled(p) /\ watches' = Planted(p, w) /\ TaskKept

Resume ==
    /\ UserActs /\ plan.status = "paused"
    /\ GoOn([plan EXCEPT !.status = "active"], watches)
    /\ UNCHANGED <<clock, triggers, history>>

InvalidatedOnce(C) == C \cup {s \in Step : Deps[s] \cap C # {}}

(* A step whose content changes is to be done again, and with it every     *)
(* step that depends on it, directly or not.                               *)
Invalidated(C) ==
    LET reach[n \in 0..Cardinality(Step)] ==
            IF n = 0 THEN C
            ELSE reach[n - 1] \cup {s \in Step : Deps[s] \cap reach[n - 1] # {}}
    IN  reach[Cardinality(Step)]

InvalidateKept(p, S) ==
    [p EXCEPT !.step = [s \in Step |-> IF s \in S THEN "pending" ELSE @[s]],
              !.due = [s \in Step |-> IF s \in S THEN "none" ELSE @[s]],
              !.evidence = @ \ S]

Invalidate(p, S) ==
    [p EXCEPT !.step = [s \in Step |->
                  IF s \notin S THEN @[s]
                  ELSE IF s \in (Timed \ Weekly) \cap passed THEN "ready" ELSE "pending"],
              !.due = [s \in Step |-> IF s \in S THEN "none" ELSE @[s]],
              !.approved = @ \ S, !.evidence = @ \ S]

(* The new time is still to come; a finished step has none.                *)
Reset(p, s) ==
    IF s \in Finished(p) THEN [p EXCEPT !.due[s] = "none"]
    ELSE [p EXCEPT !.due[s] = "future", !.step[s] = "pending"]

Editable == plan.status \notin Over /\ task # "running"

(* modify, past its guards: the content of a step, or its schedule.        *)
Edited(p) ==
    IF task = "queued" /\ p.status = "active"
    THEN Settle(Advance(Scheduled(p)), Planted(p, NoWatches)) /\ TaskKept
    ELSE GoOn(p, NoWatches)

(* Whatever rests on s, by definition: the smallest set that holds s and   *)
(* every step that depends on a member.  No approval of these still counts. *)
Stale(s) ==
    {t \in Step : \A S \in SUBSET Step :
        (s \in S /\ \A u \in Step : Deps[u] \cap S # {} => u \in S) => t \in S}

ChangeContent(s) ==
    LET S == Invalidated({s}) IN
    /\ Editable
    /\ Edited(DropCurrent([Invalidate(plan, S) EXCEPT !.key[s] = 0], S))
    /\ granted' = granted \ Stale(s)
    /\ UNCHANGED <<clock, proved>>

Reschedule(s) ==
    /\ Editable /\ s \in Timed
    /\ passed' = passed \ {s} /\ ripe' = ripe \ {s}
    /\ Edited(Reset(plan, s))
    /\ UNCHANGED history

Modify(s) ==
    /\ UserActs /\ (ChangeContent(s) \/ Reschedule(s))
    /\ UNCHANGED triggers

StartStep(s) ==
    /\ UserActs /\ plan.status = "active"
    /\ s \notin Finished(plan) /\ DependenciesMet(plan, s)
    /\ plan' = WithCurrent(plan, s, "ready") /\ Rouse
    /\ UNCHANGED <<watches, clock, triggers, history>>

ApproveStep(s) ==
    /\ UserActs /\ plan.status = "active"
    /\ NeedsApproval(plan, s) /\ s \notin Finished(plan) /\ DependenciesMet(plan, s)
    /\ plan' = [WithCurrent(plan, s, "ready") EXCEPT !.approved = @ \cup {s}]
    /\ granted' = granted \cup {s} /\ Rouse
    /\ UNCHANGED <<watches, clock, triggers, proved>>

(* A question is open while the plan is active and its step waits. *)
QuestionOpen(s) ==
    /\ s \in asked /\ task \notin Terminal
    /\ plan.status = "active" /\ plan.step[s] = "waiting_user"
    /\ ~NeedsApproval(plan, s)

(* The answer wakes the task up; a task that is queued already gets a      *)
(* wake-up of its own.                                                     *)
AnswerQuestion(s) ==
    /\ UserActs /\ QuestionOpen(s)
    /\ plan' = WithCurrent(plan, s, "ready") /\ asked' = asked \ {s}
    /\ IF task = "queued" THEN Enqueue /\ UNCHANGED task ELSE Rouse
    /\ UNCHANGED <<watches, clock, fired, deciding, fires, history>>

RejectQuestion(s) ==
    /\ UserActs /\ QuestionOpen(s)
    /\ plan' = WithStep(DropCurrent(plan, {s}), s, "skipped") /\ asked' = asked \ {s}
    /\ UNCHANGED <<watches, clock, fired, deciding, fires, task, wakes, history>>

SendInput ==
    /\ UserActs /\ task = "blocked_user" /\ Rouse
    /\ UNCHANGED <<plan, watches, clock, triggers, history>>

CancelTask ==
    /\ UserActs /\ task \notin Terminal /\ task' = "cancelled"
    /\ UNCHANGED <<plan, watches, clock, triggers, wakes, history>>

-----------------------------------------------------------------------------
(* Time and triggers. *)

NobodyActs == UNCHANGED <<run, ops>>

TimePasses(s) ==
    /\ s \in Timed
    /\ passed' = passed \cup {s} /\ ripe' = ripe \cup {s}
    /\ s \in passed => s \in Weekly
    /\ plan' = [plan EXCEPT !.due[s] = IF @ = "future" THEN "past" ELSE @]
    /\ watches' = [watches EXCEPT ![s] = IF @ = {} THEN {} ELSE {"past"}]
    /\ NobodyActs /\ UNCHANGED <<triggers, task, wakes, history>>

(* A rule is looked at only for an active plan whose task does not run. *)
Listening(s) ==
    /\ plan.status = "active" /\ task \in {"queued", "blocked_user"}
    /\ s \notin Finished(plan) /\ plan.step[s] # "running"
    /\ DependenciesMet(plan, s)

(* The rule's next time, set before it is looked at. *)
Armed(s) == IF s \in Timed /\ Occurrence(s) = "future" THEN "future" ELSE plan.due[s]

Fire(S) ==
    /\ fires < MaxFires /\ fires' = fires + 1
    /\ fired' = fired \cup (S \X {fires'})

Scan ==
    LET S == {s \in Timed : Listening(s)}
        F == S \cap ripe
    IN
    /\ F # {} \/ \E s \in S : Armed(s) # plan.due[s]
    /\ IF F = {} THEN UNCHANGED <<fires, fired>> ELSE Fire(F)
    /\ ripe' = ripe \ F
    /\ plan' = [plan EXCEPT
          !.key = [s \in Step |-> IF s \in F THEN fires' ELSE @[s]],
          !.due = [s \in Step |-> IF s \in F \ Weekly THEN "none"
                                  ELSE IF s \in S THEN Armed(s) ELSE @[s]]]
    /\ NobodyActs
    /\ UNCHANGED <<watches, passed, deciding, asked, task, wakes, history>>

EventArrives(s) ==
    /\ s \in Ruled /\ Listening(s) /\ Fire({s})
    /\ plan' = [plan EXCEPT !.key[s] = fires', !.due[s] = "none"]
    /\ NobodyActs
    /\ UNCHANGED <<watches, clock, deciding, asked, task, wakes, history>>

(* A watch that came due readies its step, whatever the step is at.  The   *)
(* task wakes up even when the plan is not active.                         *)
WatchDue(s) ==
    LET p == [WithStep(plan, s, IF s \in Autonomous THEN "ready" ELSE "waiting_user")
                 EXCEPT !.due[s] = Occurrence(s),
                        !.current = IF @ = NoStep /\ s \in Autonomous THEN s ELSE @]
        w == [watches EXCEPT ![s] = @ \ {"past"}]
        counts == task \notin Terminal /\ plan.status = "active"
    IN  /\ "past" \in watches[s]
        /\ plan' = IF counts THEN Scheduled(p) ELSE plan
        /\ watches' = IF counts THEN Planted(p, w) ELSE w
        /\ IF s \in Autonomous THEN Rouse ELSE TaskKept
        /\ NobodyActs /\ UNCHANGED <<clock, triggers, history>>

-----------------------------------------------------------------------------
(* The decision on a trigger.  It is checked, the model is asked, and what *)
(* it says is applied; the task is not looked at a second time.            *)

DecisionKept == NobodyActs /\ UNCHANGED <<clock, fires>>

Current(j) ==
    /\ plan.status = "active" /\ j[1] \notin Finished(plan)
    /\ plan.key[j[1]] = j[2]

DropDecision(j) ==
    /\ j \in fired /\ j # deciding /\ ~Current(j)
    /\ fired' = fired \ {j}
    /\ DecisionKept /\ UNCHANGED <<plan, watches, deciding, asked, task, wakes, history>>

TakeDecision(j) ==
    /\ j \in fired /\ deciding = NoJob /\ Current(j) /\ task # "running"
    /\ deciding' = j
    /\ DecisionKept /\ UNCHANGED <<plan, watches, fired, asked, task, wakes, history>>

Deciding ==
    /\ deciding # NoJob
    /\ fired' = fired \ {deciding} /\ deciding' = NoJob
    /\ DecisionKept

StillStands ==
    plan.status = "active" /\ plan.key[deciding[1]] \in {0, deciding[2]}

(* It may also do nothing, or be refused as a whole. *)
Ignore ==
    /\ Deciding /\ UNCHANGED <<plan, watches, asked, task, wakes, history>>

(* A step that needs an approval is refused, but the refusal is saved. *)
BeginStep(s) ==
    /\ Deciding /\ StillStands
    /\ s \notin Finished(plan) /\ plan.step[s] # "running" /\ DependenciesMet(plan, s)
    /\ IF NeedsApproval(plan, s)
       THEN plan' = WithCurrent(plan, s, "waiting_user") /\ TaskKept
       ELSE /\ plan' = WithCurrent(plan, s, "ready")
            /\ IF task = "queued" THEN Enqueue /\ UNCHANGED task ELSE Rouse
    /\ UNCHANGED <<watches, asked, history>>

(* The question is recorded for the step of the trigger, not for s. *)
WaitUser(s) ==
    /\ Deciding /\ StillStands /\ s \notin Finished(plan)
    /\ plan' = WithStep(DropCurrent(plan, {s}), s, "waiting_user")
    /\ asked' = asked \cup {deciding[1]}
    /\ UNCHANGED <<watches, task, wakes, history>>

ModifyByModel(s) ==
    /\ Deciding /\ StillStands /\ ChangeContent(s) /\ UNCHANGED asked

CompleteGoal ==
    /\ Deciding /\ StillStands /\ task \in {"blocked_user", "queued"}
    /\ Finished(plan) = Step /\ Unproven(plan) = {}
    /\ plan' = [Idle(plan) EXCEPT !.status = "completed"]
    /\ watches' = NoWatches /\ task' = "succeeded"
    /\ UNCHANGED <<asked, wakes, history>>

-----------------------------------------------------------------------------
(* A run of the task. *)

RunActs == UNCHANGED <<clock, triggers, granted, ops>>
RunGoes(pc) == run' = [run EXCEPT !.pc = pc]
RunEnds == run' = NoRun /\ UNCHANGED proved

JobStarts ==
    /\ wakes > 0 /\ task = "queued" /\ run = NoRun
    /\ wakes' = wakes - 1 /\ task' = "running" /\ RunGoes("started")
    /\ RunActs /\ UNCHANGED <<plan, watches, proved>>

JobSkips ==
    /\ wakes > 0 /\ task \notin {"queued", "running"}
    /\ wakes' = wakes - 1
    /\ RunActs /\ UNCHANGED <<plan, watches, task, run, proved>>

(* The step the run takes on: the current one if it can run, or the next. *)
Chosen ==
    LET c == plan.current IN
    IF c # NoStep /\ plan.step[c] \in {"ready", "running"} /\ DependenciesMet(plan, c)
    THEN c ELSE NextRunnable(plan)

CanTakeOn ==
    plan.status = "active" /\ Chosen # NoStep /\ ~NeedsApproval(plan, Chosen)

OnRunStarted ==
    /\ run.pc = "started" /\ CanTakeOn
    /\ plan' = WithCurrent(plan, Chosen, "running")
    /\ run' = [pc |-> "loop", step |-> Chosen]
    /\ RunActs /\ UNCHANGED <<watches, task, wakes, proved>>

(* A run that ends and leaves the task waiting. *)
LeaveWaiting ==
    /\ Allowed("blocked_user") /\ task' = "blocked_user" /\ UNCHANGED wakes
    /\ RunEnds /\ RunActs

NothingToTakeOn ==
    /\ run.pc = "started" /\ ~CanTakeOn
    /\ LeaveWaiting /\ UNCHANGED <<plan, watches>>

NoticePause ==
    /\ run.pc = "loop" /\ plan.status = "paused"
    /\ LeaveWaiting /\ UNCHANGED <<plan, watches>>

NoticeCancel ==
    /\ run.pc = "loop" /\ plan.status # "paused" /\ task = "cancelled"
    /\ RunEnds /\ RunActs /\ UNCHANGED <<plan, watches, task, wakes>>

AskModel ==
    /\ run.pc = "loop" /\ plan.status # "paused" /\ task # "cancelled"
    /\ RunGoes("model")
    /\ RunActs /\ UNCHANGED <<plan, watches, task, wakes, proved>>

(* The model proposes an action; pause and cancel are noticed before it is *)
(* dispatched, and its outcome is kept as evidence of the task.            *)
Act ==
    /\ run.pc = "model" /\ plan.status # "paused" /\ task # "cancelled"
    /\ RunGoes("loop") /\ proved' = proved \cup {run.step}
    /\ RunActs /\ UNCHANGED <<plan, watches, task, wakes>>

(* It only looks for a capability, its action is refused, or the proposal  *)
(* is left for later.                                                      *)
ActNot ==
    /\ run.pc = "model" /\ RunGoes("loop")
    /\ RunActs /\ UNCHANGED <<plan, watches, task, wakes, proved>>

(* max_actions_per_run is used up: the step goes on in another run. *)
RunOut ==
    /\ run.pc = "loop" /\ Allowed("queued") /\ task' = "queued" /\ Enqueue
    /\ RunEnds /\ RunActs /\ UNCHANGED <<plan, watches>>

(* The report of a run carries all the evidence the task has. *)
Credited(p, s) == IF proved = {} THEN p ELSE [p EXCEPT !.evidence = @ \cup {s}]

Recurs(s) == s \in Timed \ Autonomous /\ Occurrence(s) = "future"

(* on_step_finished.  _advance returns without a save when the plan is     *)
(* neither active nor blocked.                                             *)
Finish(p) ==
    IF p.status \in {"active", "blocked"} THEN Advance(p) ELSE Wait(plan)

OnStepFinished ==
    LET s == plan.current
        p == Idle(Credited(plan, s))
    IN  IF s = NoStep THEN Finish(plan)
        ELSE IF s \in Unproven(p)
        THEN Wait([WithStep(p, s, "failed") EXCEPT !.status = "blocked"])
        ELSE IF Recurs(s)
        THEN Verdict([WithStep(p, s, "waiting_time") EXCEPT !.due[s] = "future"],
                     "wait", TRUE)
        ELSE Finish(WithStep(p, s, "done"))

StatusAfter(outcome) ==
    CASE outcome = "advance" -> "queued"
      [] outcome = "wait" -> "blocked_user"
      [] outcome = "complete" -> "succeeded"

Succeed ==
    /\ run.pc = "model" /\ MayComplete(StatusAfter(OnStepFinished.outcome))
    /\ Settle(OnStepFinished, watches)
    /\ task' = StatusAfter(OnStepFinished.outcome)
    /\ wakes' = IF OnStepFinished.outcome = "advance" THEN wakes + 1 ELSE wakes
    /\ RunEnds /\ RunActs

(* A budget is used up, or the model reports that it could not do it. *)
GiveUp(status) ==
    /\ run.pc \in {"started", "loop", "model"} /\ task \in {"running", "queued"}
    /\ status = "failed" => run.pc = "model"
    /\ plan' = IF plan.status = "active" THEN [plan EXCEPT !.status = "blocked"] ELSE plan
    /\ task' = status
    /\ RunEnds /\ RunActs /\ UNCHANGED <<watches, wakes>>

(* Another runnable step goes on while this one waits; whether it needs an *)
(* approval is left to the next run.                                       *)
AskUser ==
    LET s == plan.current
        p == IF s = NoStep THEN plan ELSE Idle(WithStep(plan, s, "waiting_user"))
        next == NextRunnable(p)
        status == IF next = NoStep THEN "blocked_user" ELSE "queued"
    IN  /\ run.pc = "model" /\ Allowed(status) /\ task' = status
        /\ plan' = IF next = NoStep THEN p ELSE WithCurrent(p, next, "ready")
        /\ wakes' = IF next = NoStep THEN wakes ELSE wakes + 1
        /\ RunEnds /\ RunActs /\ UNCHANGED watches

(* The task was taken away: the transition raises and the job is tried     *)
(* again, to find the task settled or waiting.                             *)
Conflict ==
    /\ \/ run.pc \in {"started", "loop", "model"} /\ task \in Terminal
       \/ run.pc = "model" /\ task = "blocked_user"
    /\ Enqueue
    /\ RunEnds /\ RunActs /\ UNCHANGED <<plan, watches, task>>

RunFails ==
    /\ run # NoRun /\ task \notin Terminal
    /\ task' = (IF task = "running" THEN "queued" ELSE task) /\ Enqueue
    /\ run' = NoRun /\ RunActs /\ UNCHANGED <<plan, watches, proved>>

-----------------------------------------------------------------------------
User ==
    \/ Confirm \/ Reject \/ End \/ Pause \/ Resume \/ SendInput \/ CancelTask
    \/ \E s \in Step : \/ Modify(s) \/ StartStep(s) \/ ApproveStep(s)
                       \/ AnswerQuestion(s) \/ RejectQuestion(s)

Scanner ==
    \/ Scan
    \/ \E s \in Step : TimePasses(s) \/ EventArrives(s) \/ WatchDue(s)

Decision ==
    \/ \E j \in fired : DropDecision(j) \/ TakeDecision(j)
    \/ Ignore \/ CompleteGoal
    \/ \E s \in Step : BeginStep(s) \/ WaitUser(s) \/ ModifyByModel(s)

Run ==
    \/ JobStarts \/ JobSkips \/ OnRunStarted \/ NothingToTakeOn
    \/ NoticePause \/ NoticeCancel \/ AskModel \/ Act \/ ActNot
    \/ RunOut \/ Succeed \/ AskUser \/ Conflict \/ RunFails
    \/ GiveUp("partial") \/ GiveUp("failed")

Next == User \/ Scanner \/ Decision \/ Run
Spec == Init /\ [][Next]_gVars

-----------------------------------------------------------------------------
(* Plan, watches, jobs, task and run keep their shape.                     *)
GTypeOK ==
    /\ plan \in Plan
    /\ watches \in [Step -> SUBSET Moment]
    /\ passed \subseteq Timed /\ ripe \subseteq passed
    /\ fired \subseteq Jobs /\ deciding \in fired \cup {NoJob}
    /\ fires \in 0..MaxFires /\ asked \subseteq Step
    /\ task \in TaskStatus /\ wakes \in Nat
    /\ run \in [pc : {"none", "started", "loop", "model"},
                step : Step \cup {NoStep}]
    /\ proved \subseteq Step /\ granted \subseteq Approval
    /\ ops \in 0..MaxOps

(* A queued task has a wake-up on its way, whoever queued it (confirm,     *)
(* resume, modify, start, approve, answer, a trigger, a watch, a run that  *)
(* hands over): without one it would rest in the queue for ever.           *)
QueuedHasWake == task = "queued" => wakes > 0

(* A step that asks for an approval runs only with an approval given for   *)
(* what it says now: an edit of it, or of anything it rests on, withdraws  *)
(* the approval (goal_service.py _invalidate_step).                        *)
ApprovedFirst == \A s \in Approval : plan.step[s] = "running" => s \in granted

(* No step runs while a step it depends on is open: an edit that reopens a *)
(* step takes whatever was built on it, at any depth, out of its run.  A   *)
(* scheduled step is reopened by its own watch and not covered.  (All      *)
(* keeps its type, too.)                                                   *)
OrderKept ==
    /\ GTypeOK
    /\ \A s \in Step : plan.step[s] = "running" => Deps[s] \ Timed \subseteq Finished(plan)

(* docs/reports/2026-10-26_V47_long_term_goal_report.md: a step that needs *)
(* evidence is completed only with evidence of its own, not on the word of *)
(* the model.                                                              *)
DoneIsProven ==
    \A s \in Autonomous \cup Approval : plan.step[s] = "done" => s \in proved
=============================================================================
