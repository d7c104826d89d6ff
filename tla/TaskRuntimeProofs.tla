--------------------------- MODULE TaskRuntimeProofs ---------------------------
(***************************************************************************)
(* What holds of a task for every set of workers and actions, and every    *)
(* number of runs, steps and faults.                                       *)
(***************************************************************************)
EXTENDS TaskRuntime, FiniteSetTheorems, WellFoundedInduction, TLAPS

\* The least of a set of actions is one of them.
LEMMA LeastIsMember == ASSUME NEW S \in SUBSET Nat, S # {} PROVE Least(S) \in S
<1> DEFINE R == OpToRel(<, Nat)
<1>1. PICK x \in S : TRUE
  OBVIOUS
<1>2. IsWellFoundedOn(R, Nat)
  BY NatLessThanWellFounded
<1>3. \A y, z \in Nat : y < z => <<y, z>> \in R
  BY DEF OpToRel
<1> HIDE DEF R
<1>4. PICK m \in S : \A y \in S : ~(<<y, m>> \in R)
  BY <1>1, <1>2, WFMin
<1>5. ASSUME NEW y \in S PROVE m <= y
  <2>1. y \in Nat /\ m \in Nat
    OBVIOUS
  <2>2. ~(y < m)
    BY <1>3, <1>4, <2>1
  <2> QED BY <2>1, <2>2
<1> QED BY <1>5 DEF Least
-------------------------------------------------------------------------------
(* The shape of the variables, and what a step leaves of a worker *)

\* A worker has a run; what it works on there, and where it has a step to count.
At == {"loop", "model", "fenced", "exec", "done"}
Inner == {"model", "fenced", "exec", "done"}
OnAction == {"fenced", "exec", "done"}

WorkerFields ==
    [pc : At \cup {"idle", "read", "start", "ending"}, job : {"none", "held", "lost"},
     seen : TaskStatus \cup {"none"}, run : Run \cup {0},
     act : Action \cup {NoAction}, steps : 0 .. MaxSteps]

WorkerRow ==
    {x \in WorkerFields :
        /\ x.pc \in At => x.run \in Run
        /\ x.pc \in Inner => x.steps < MaxSteps
        /\ x.pc \in OnAction => x.act \in Action}

ApprovalStatus == {"none", "pending", "succeeded", "denied", "failed"}

Shape ==
    /\ task \in TaskStatus /\ current \in Run \cup {0}
    /\ run \in [Run -> RunStatus] /\ live \subseteq Run
    /\ action \in [Action -> ActionStatus]
    /\ approval \in [Action -> ApprovalStatus] /\ overdue \subseteq Action
    /\ wakes \in Nat /\ reconciled \in BOOLEAN
    /\ worker \in [Worker -> WorkerRow]
    /\ tool \in [op : {"none", "cancel", "input"}, seen : TaskStatus \cup {"none"}]
    /\ effects \in [Action -> Nat] /\ late \subseteq Action /\ faults \in Nat

LEMMA ShapeTypes == Shape => TypeOK
<1> SUFFICES ASSUME Shape PROVE TypeOK
  OBVIOUS
<1>1. ASSUME NEW w \in Worker
      PROVE  /\ worker[w].pc \in {"idle", "read", "start", "loop", "model", "fenced",
                                  "exec", "done", "ending"}
             /\ worker[w].job \in {"none", "held", "lost"}
             /\ worker[w].run \in Run \cup {0} /\ worker[w].act \in Action \cup {NoAction}
             /\ worker[w].steps \in 0 .. MaxSteps
  <2>1. worker[w] \in WorkerRow
    BY DEF Shape
  <2> QED BY <2>1 DEF WorkerRow, WorkerFields, At
<1> QED BY <1>1 DEF Shape, TypeOK, ApprovalStatus

\* What a worker is after a step: where it was, or no longer on an action and in
\* no other run.
Keeps(v) ==
    worker'[v].pc = worker[v].pc /\ worker'[v].run = worker[v].run
    /\ worker'[v].act = worker[v].act
Leaves(v) ==
    /\ worker'[v].pc \notin OnAction /\ worker'[v].act \in {NoAction, worker[v].act}
    /\ worker'[v].pc \in At => worker[v].pc \in At /\ worker'[v].run = worker[v].run
Retreats ==
    /\ worker' \in [Worker -> WorkerRow]
    /\ \A v \in Worker : Keeps(v) \/ Leaves(v)

LEMMA Put ==
    ASSUME worker \in [Worker -> WorkerRow], NEW w \in Worker, NEW x \in WorkerRow,
           worker' = [worker EXCEPT ![w] = x]
    PROVE  /\ worker' \in [Worker -> WorkerRow] /\ worker'[w] = x
           /\ \A v \in Worker \ {w} : worker'[v] = worker[v]
  OBVIOUS

LEMMA IdleRow ==
    /\ Idle \in WorkerRow /\ Idle.pc = "idle" /\ Idle.act = NoAction
    /\ \A j \in {"none", "held", "lost"} :
          /\ [Idle EXCEPT !.pc = "ending", !.job = j] \in WorkerRow
          /\ [Idle EXCEPT !.pc = "ending", !.job = j].pc = "ending"
          /\ [Idle EXCEPT !.pc = "ending", !.job = j].act = NoAction
<1>1. Idle \in WorkerFields /\ Idle.pc = "idle" /\ Idle.act = NoAction
  BY TaskAssumption DEF Idle, WorkerFields
<1>2. ASSUME NEW j \in {"none", "held", "lost"}
      PROVE  /\ [Idle EXCEPT !.pc = "ending", !.job = j] \in WorkerRow
             /\ [Idle EXCEPT !.pc = "ending", !.job = j].pc = "ending"
             /\ [Idle EXCEPT !.pc = "ending", !.job = j].act = NoAction
  <2> DEFINE x == [Idle EXCEPT !.pc = "ending", !.job = j]
  <2>1. x \in WorkerFields /\ x.pc = "ending" /\ x.act = NoAction
    BY <1>1 DEF WorkerFields
  <2> HIDE DEF x
  <2>2. x \in WorkerRow
    BY <2>1 DEF WorkerRow, At, Inner, OnAction
  <2> QED BY <2>1, <2>2 DEF x
<1>3. Idle \in WorkerRow
  BY <1>1 DEF WorkerRow, At, Inner, OnAction
<1> QED BY <1>1, <1>2, <1>3

\* The worker has left its run, and nobody else has moved.
Gone(w) ==
    /\ Retreats
    /\ worker'[w].pc \notin At
    /\ \A v \in Worker \ {w} : worker'[v] = worker[v]

LEMMA BecomesIdle ==
    ASSUME worker \in [Worker -> WorkerRow], NEW w \in Worker,
           worker' = [worker EXCEPT ![w] = Idle]
    PROVE  Gone(w)
<1>1. /\ worker' \in [Worker -> WorkerRow] /\ worker'[w] = Idle
      /\ \A v \in Worker \ {w} : worker'[v] = worker[v]
  BY Put, IdleRow
<1>2. Leaves(w) /\ \A v \in Worker \ {w} : Keeps(v)
  BY <1>1, IdleRow DEF Leaves, Keeps, At, OnAction
<1> QED BY <1>1, <1>2, IdleRow DEF Gone, Retreats, At

LEMMA RunOverEffect ==
    ASSUME worker \in [Worker -> WorkerRow], NEW w \in Worker, RunOver(w)
    PROVE  Gone(w)
<1> DEFINE x == [Idle EXCEPT !.pc = "ending", !.job = worker[w].job]
<1>1. x \in WorkerRow /\ x.pc = "ending" /\ x.act = NoAction
  <2>1. worker[w].job \in {"none", "held", "lost"}
    <3>1. worker[w] \in WorkerRow
      OBVIOUS
    <3> QED BY <3>1 DEF WorkerRow, WorkerFields
  <2> QED BY <2>1, IdleRow
<1>2. worker' = [worker EXCEPT ![w] = x]
  BY DEF RunOver
<1> HIDE DEF x
<1>3. /\ worker' \in [Worker -> WorkerRow] /\ worker'[w] = x
      /\ \A v \in Worker \ {w} : worker'[v] = worker[v]
  BY <1>1, <1>2, Put
<1>4. Leaves(w) /\ \A v \in Worker \ {w} : Keeps(v)
  BY <1>1, <1>3 DEF Leaves, Keeps, At, OnAction
<1> QED BY <1>1, <1>3, <1>4 DEF Gone, Retreats, At

LEMMA JobEffect ==
    ASSUME Shape, NEW w \in Worker, JobDone(w) \/ JobFails(w)
    PROVE  Gone(w) /\ wakes' \in Nat
<1>1. worker' = [worker EXCEPT ![w] = Idle] /\ wakes' \in Nat
  BY DEF Shape, JobDone, JobFails
<1> QED BY <1>1, BecomesIdle DEF Shape

LEMMA BackToLoopEffect ==
    ASSUME worker \in [Worker -> WorkerRow], NEW w \in Worker, worker[w].pc \in Inner,
           BackToLoop(w)
    PROVE  /\ Retreats /\ worker'[w].pc = "loop"
           /\ \A v \in Worker \ {w} : worker'[v] = worker[v]
<1> DEFINE x == [worker[w] EXCEPT !.pc = "loop", !.act = NoAction, !.steps = @ + 1]
<1>1. worker[w] \in WorkerRow
  OBVIOUS
<1>2. x \in WorkerRow /\ x.pc = "loop" /\ x.act = NoAction /\ x.run = worker[w].run
  <2>1. /\ worker[w] \in WorkerFields /\ worker[w].run \in Run
        /\ worker[w].steps + 1 \in 0 .. MaxSteps
    BY <1>1, TaskAssumption DEF WorkerRow, WorkerFields, At, Inner
  <2>2. x \in WorkerFields /\ x.pc = "loop" /\ x.act = NoAction /\ x.run = worker[w].run
    BY <2>1 DEF WorkerFields, At
  <2> HIDE DEF x
  <2> QED BY <2>1, <2>2 DEF WorkerRow, At, Inner, OnAction
<1>3. worker' = [worker EXCEPT ![w] = x]
  BY DEF BackToLoop
<1> HIDE DEF x
<1>4. /\ worker' \in [Worker -> WorkerRow] /\ worker'[w] = x
      /\ \A v \in Worker \ {w} : worker'[v] = worker[v]
  BY <1>2, <1>3, Put
<1>5. Leaves(w) /\ \A v \in Worker \ {w} : Keeps(v)
  BY <1>2, <1>4 DEF Leaves, Keeps, At, OnAction, Inner
<1> QED BY <1>2, <1>4, <1>5 DEF Retreats

\* What is set in a worker, and what is left of it.
LEMMA RowOf ==
    ASSUME NEW x \in WorkerFields, x.pc \in At => x.run \in Run,
           x.pc \in Inner => x.steps < MaxSteps, x.pc \in OnAction => x.act \in Action
    PROVE  x \in WorkerRow
  BY DEF WorkerRow

LEMMA ClaimRow ==
    ASSUME NEW x \in WorkerRow
    PROVE  LET y == [x EXCEPT !.pc = "read", !.job = "held"] IN
           y \in WorkerRow /\ y.pc = "read" /\ y.act = x.act
<1> DEFINE y == [x EXCEPT !.pc = "read", !.job = "held"]
<1>1. x \in WorkerFields
  BY DEF WorkerRow
<1>2. y \in WorkerFields /\ y.pc = "read" /\ y.act = x.act
  BY <1>1 DEF WorkerFields
<1> HIDE DEF y
<1>3. y \in WorkerRow
  BY <1>2, RowOf DEF At, Inner, OnAction
<1> QED BY <1>2, <1>3 DEF y

LEMMA ReadRow ==
    ASSUME NEW x \in WorkerRow, NEW s \in TaskStatus \cup {"none"}
    PROVE  LET y == [x EXCEPT !.pc = "start", !.seen = s] IN
           y \in WorkerRow /\ y.pc = "start" /\ y.act = x.act
<1> DEFINE y == [x EXCEPT !.pc = "start", !.seen = s]
<1>1. x \in WorkerFields
  BY DEF WorkerRow
<1>2. y \in WorkerFields /\ y.pc = "start" /\ y.act = x.act
  BY <1>1 DEF WorkerFields
<1> HIDE DEF y
<1>3. y \in WorkerRow
  BY <1>2, RowOf DEF At, Inner, OnAction
<1> QED BY <1>2, <1>3 DEF y

LEMMA StallRow ==
    ASSUME NEW x \in WorkerRow
    PROVE  LET y == [x EXCEPT !.job = "lost"] IN
           y \in WorkerRow /\ y.pc = x.pc /\ y.run = x.run /\ y.act = x.act
<1> DEFINE y == [x EXCEPT !.job = "lost"]
<1>1. /\ x \in WorkerFields
      /\ x.pc \in At => x.run \in Run
      /\ x.pc \in Inner => x.steps < MaxSteps
      /\ x.pc \in OnAction => x.act \in Action
  BY DEF WorkerRow
<1>2. /\ y \in WorkerFields /\ y.pc = x.pc /\ y.run = x.run /\ y.act = x.act
      /\ y.steps = x.steps
  BY <1>1 DEF WorkerFields
<1> HIDE DEF y
<1>3. y \in WorkerRow
  BY <1>1, <1>2 DEF WorkerRow
<1> QED BY <1>2, <1>3 DEF y

LEMMA StartRow ==
    ASSUME NEW x \in WorkerRow, NEW n \in Run
    PROVE  LET y == [x EXCEPT !.pc = "loop", !.run = n] IN
           y \in WorkerRow /\ y.pc = "loop" /\ y.run = n /\ y.act = x.act
<1> DEFINE y == [x EXCEPT !.pc = "loop", !.run = n]
<1>1. x \in WorkerFields
  BY DEF WorkerRow
<1>2. y \in WorkerFields /\ y.pc = "loop" /\ y.run = n /\ y.act = x.act
  BY <1>1 DEF WorkerFields, At
<1> HIDE DEF y
<1>3. y \in WorkerRow
  BY <1>2, RowOf DEF At, Inner, OnAction
<1> QED BY <1>2, <1>3 DEF y

LEMMA StepRow ==
    ASSUME NEW x \in WorkerRow, x.pc \in OnAction, NEW p \in OnAction
    PROVE  LET y == [x EXCEPT !.pc = p] IN
           y \in WorkerRow /\ y.pc = p /\ y.run = x.run /\ y.act = x.act
<1> DEFINE y == [x EXCEPT !.pc = p]
<1>1. /\ x \in WorkerFields /\ x.run \in Run /\ x.steps < MaxSteps /\ x.act \in Action
  BY DEF WorkerRow, OnAction, At, Inner
<1>2. /\ y \in WorkerFields /\ y.pc = p /\ y.run = x.run /\ y.act = x.act
      /\ y.steps = x.steps
  BY <1>1 DEF WorkerFields, OnAction, At
<1> HIDE DEF y
<1>3. y \in WorkerRow
  BY <1>1, <1>2 DEF WorkerRow
<1> QED BY <1>2, <1>3 DEF y

\* The steps that a worker takes towards an action are few: it takes up a run
\* (StartRun), an action (TakeReady, Dispatch), and carries it out (Effect).
Moves(w, p) ==
    /\ worker' \in [Worker -> WorkerRow]
    /\ worker'[w].pc = p /\ worker'[w].run = worker[w].run
    /\ \A v \in Worker \ {w} : worker'[v] = worker[v]

LEMMA StartEffect ==
    ASSUME worker \in [Worker -> WorkerRow], NEW w \in Worker, NEW n \in Run,
           worker' = [worker EXCEPT ![w].pc = "loop", ![w].run = n]
    PROVE  /\ worker' \in [Worker -> WorkerRow]
           /\ worker'[w].pc = "loop" /\ worker'[w].run = n /\ worker'[w].act = worker[w].act
           /\ \A v \in Worker \ {w} : worker'[v] = worker[v]
<1> DEFINE x == [worker[w] EXCEPT !.pc = "loop", !.run = n]
<1>1. worker[w] \in WorkerRow
  OBVIOUS
<1>2. x \in WorkerRow /\ x.pc = "loop" /\ x.run = n /\ x.act = worker[w].act
  BY <1>1, StartRow
<1>3. worker' = [worker EXCEPT ![w] = x]
  OBVIOUS
<1> HIDE DEF x
<1> QED BY <1>2, <1>3, Put

LEMMA RenewEffect ==
    ASSUME worker \in [Worker -> WorkerRow], NEW w \in Worker, MayStep(w),
           NEW a \in Action \cup {NoAction}, NEW p \in {"model", "fenced"},
           a \in Action \/ p = "model"
    PROVE  worker' = [worker EXCEPT ![w].pc = p, ![w].act = a]
             => Moves(w, p) /\ worker'[w].act = a
<1> DEFINE y == worker[w]
           x == [y EXCEPT !.pc = p, !.act = a]
<1>1. y \in WorkerFields /\ y.run \in Run /\ y.steps < MaxSteps
  <2>1. y \in WorkerRow /\ y.pc \in At /\ y.steps < MaxSteps
    BY DEF MayStep, InLoop, At
  <2> HIDE DEF y
  <2> QED BY <2>1 DEF WorkerRow
<1>2. x = [worker[w] EXCEPT !.pc = p, !.act = a]
  OBVIOUS
<1> HIDE DEF y
<1>3. /\ x \in WorkerFields /\ x.pc = p /\ x.run = y.run /\ x.act = a
      /\ x.steps = y.steps
  BY <1>1 DEF WorkerFields, At
<1>4. SUFFICES ASSUME worker' = [worker EXCEPT ![w] = x]
               PROVE  Moves(w, p) /\ worker'[w].act = a
  BY <1>2
<1> HIDE DEF x
<1>5. x \in WorkerRow
  BY <1>1, <1>3 DEF WorkerRow, OnAction
<1> QED BY <1>3, <1>4, <1>5, Put DEF Moves, y

LEMMA StepEffect ==
    ASSUME worker \in [Worker -> WorkerRow], NEW w \in Worker, worker[w].pc \in OnAction,
           NEW p \in OnAction, worker' = [worker EXCEPT ![w].pc = p]
    PROVE  Moves(w, p) /\ worker'[w].act = worker[w].act
<1> DEFINE x == [worker[w] EXCEPT !.pc = p]
<1>1. worker[w] \in WorkerRow
  OBVIOUS
<1>2. x \in WorkerRow /\ x.pc = p /\ x.run = worker[w].run /\ x.act = worker[w].act
  BY <1>1, StepRow
<1>3. worker' = [worker EXCEPT ![w] = x]
  OBVIOUS
<1> HIDE DEF x
<1> QED BY <1>2, <1>3, Put DEF Moves

\* A job is taken up, read and lost.
LEMMA JobSteps ==
    ASSUME Shape, NEW w \in Worker, Claim(w) \/ ReadTask(w) \/ Stall(w)
    PROVE  Retreats
<1>1. worker[w] \in WorkerRow /\ worker \in [Worker -> WorkerRow] /\ task \in TaskStatus
  BY DEF Shape
<1>2. CASE Claim(w)
  <2> DEFINE x == [worker[w] EXCEPT !.pc = "read", !.job = "held"]
  <2>1. x \in WorkerRow /\ x.pc = "read" /\ x.act = worker[w].act
    BY <1>1, ClaimRow
  <2>2. worker' = [worker EXCEPT ![w] = x]
    BY <1>2 DEF Claim
  <2> HIDE DEF x
  <2>3. Leaves(w) /\ \A v \in Worker \ {w} : Keeps(v)
    BY <1>1, <2>1, <2>2, Put DEF Leaves, Keeps, At, OnAction
  <2> QED BY <1>1, <2>1, <2>2, <2>3, Put DEF Retreats
<1>3. CASE ReadTask(w) /\ ~JobDone(w)
  <2> DEFINE s == IF StaleReads THEN task ELSE worker[w].seen
             x == [worker[w] EXCEPT !.pc = "start", !.seen = s]
  <2>1. s \in TaskStatus \cup {"none"}
    BY <1>1 DEF WorkerRow, WorkerFields
  <2>2. worker' = [worker EXCEPT ![w] = x]
    BY <1>3 DEF ReadTask
  <2> HIDE DEF s
  <2>3. x \in WorkerRow /\ x.pc = "start" /\ x.act = worker[w].act
    BY <1>1, <2>1, ReadRow
  <2> HIDE DEF x
  <2>4. Leaves(w) /\ \A v \in Worker \ {w} : Keeps(v)
    BY <1>1, <2>2, <2>3, Put DEF Leaves, Keeps, At, OnAction
  <2> QED BY <1>1, <2>2, <2>3, <2>4, Put DEF Retreats
<1>4. CASE JobDone(w)
  BY <1>4, JobEffect DEF Gone
<1>5. CASE Stall(w)
  <2> DEFINE x == [worker[w] EXCEPT !.job = "lost"]
  <2>1. x \in WorkerRow /\ x.pc = worker[w].pc /\ x.run = worker[w].run /\ x.act = worker[w].act
    BY <1>1, StallRow
  <2>2. worker' = [worker EXCEPT ![w] = x]
    BY <1>5 DEF Stall
  <2> HIDE DEF x
  <2>3. \A v \in Worker : Keeps(v)
    BY <1>1, <2>1, <2>2, Put DEF Keeps
  <2> QED BY <1>1, <2>1, <2>2, <2>3, Put DEF Retreats
<1> QED BY <1>2, <1>3, <1>4, <1>5
-------------------------------------------------------------------------------
(* Every step keeps the shape *)

LEMMA InitShape == Init => Shape
<1> SUFFICES ASSUME Init PROVE Shape
  OBVIOUS
<1>1. worker \in [Worker -> WorkerRow]
  BY IdleRow DEF Init
<1>2. /\ task \in TaskStatus /\ current \in Run \cup {0}
      /\ run \in [Run -> RunStatus] /\ live \subseteq Run
      /\ action \in [Action -> ActionStatus]
      /\ approval \in [Action -> ApprovalStatus] /\ overdue \subseteq Action
      /\ wakes \in Nat /\ reconciled \in BOOLEAN
  BY DEF Init, TaskStatus, RunStatus, ActionStatus, ApprovalStatus
<1>3. /\ tool \in [op : {"none", "cancel", "input"}, seen : TaskStatus \cup {"none"}]
      /\ effects \in [Action -> Nat] /\ late \subseteq Action /\ faults \in Nat
  BY DEF Init, NoTool
<1> QED BY <1>1, <1>2, <1>3 DEF Shape

\* The rows and jobs alone.
RowsShape ==
    /\ task \in TaskStatus /\ current \in Run \cup {0}
    /\ run \in [Run -> RunStatus] /\ live \subseteq Run
    /\ action \in [Action -> ActionStatus]
    /\ approval \in [Action -> ApprovalStatus] /\ overdue \subseteq Action
    /\ wakes \in Nat /\ reconciled \in BOOLEAN

LEMMA RunOf ==
    ASSUME Shape, NEW w \in Worker, worker[w].pc \in At
    PROVE  /\ worker[w].run \in Run
           /\ worker[w].pc \in OnAction => worker[w].act \in Action
<1>1. worker[w] \in WorkerRow
  BY DEF Shape
<1> QED BY <1>1 DEF WorkerRow

LEMMA ConflictEffect ==
    ASSUME Shape, NEW w \in Worker, Conflict(w)
    PROVE  Gone(w) /\ UNCHANGED <<rows, reconciled>> /\ RowsShape'
<1>1. Gone(w) /\ wakes' \in Nat /\ UNCHANGED <<rows, reconciled>>
  BY JobEffect DEF Conflict
<1> QED BY <1>1 DEF Shape, RowsShape, rows

\* A worker ends its run and says what becomes of the task, or has to give up.
LEMMA EndShape ==
    ASSUME Shape, NEW w \in Worker, worker[w].pc \in At, NEW s \in TaskStatus,
           EndRun(w, s) \/ Complete(w, s)
    PROVE  Gone(w) /\ RowsShape'
<1>1. CASE Conflict(w)
  BY <1>1, ConflictEffect
<1>2. CASE ~Conflict(w)
  <2>1. /\ RunOver(w) /\ MoveTask(s)
        /\ \E e \in {"completed", "failed"} : FinishRun(worker[w].run, e)
        /\ UNCHANGED <<current, action, approval, overdue, wakes>>
    BY <1>2 DEF EndRun, Complete
  <2>2. RowsShape'
    BY <2>1 DEF Shape, RowsShape, MoveTask, FinishRun, RunStatus
  <2> QED BY <2>1, <2>2, RunOverEffect DEF Shape
<1> QED BY <1>1, <1>2

LEMMA NoticeShape ==
    ASSUME Shape, NEW w \in Worker, NoticeCancel(w)
    PROVE  Gone(w) /\ RowsShape'
<1>1. CASE Conflict(w)
  BY <1>1, ConflictEffect
<1>2. CASE ~Conflict(w)
  <2>1. /\ RunOver(w) /\ FinishRun(worker[w].run, "interrupted")
        /\ UNCHANGED <<task, current, action, approval, overdue, jobs>>
    BY <1>2 DEF NoticeCancel
  <2>2. RowsShape'
    BY <2>1 DEF Shape, RowsShape, FinishRun, RunStatus, jobs
  <2> QED BY <2>1, <2>2, RunOverEffect DEF Shape
<1> QED BY <1>1, <1>2

LEMMA StepLimitShape ==
    ASSUME Shape, NEW w \in Worker, StepLimit(w)
    PROVE  Gone(w) /\ RowsShape'
<1>1. CASE Conflict(w)
  BY <1>1, ConflictEffect
<1>2. CASE ~Conflict(w)
  <2>1. /\ RunOver(w) /\ FinishRun(worker[w].run, "completed") /\ MoveTask("queued")
        /\ wakes' = wakes + 1
        /\ UNCHANGED <<current, action, approval, overdue>>
    BY <1>2 DEF StepLimit
  <2>2. wakes' \in Nat
    BY <2>1 DEF Shape
  <2>3. /\ task' \in TaskStatus /\ reconciled' \in BOOLEAN
        /\ run' \in [Run -> RunStatus] /\ live' \subseteq Run
    BY <2>1 DEF Shape, FinishRun, RunStatus, MoveTask, TaskStatus
  <2>4. RowsShape'
    BY <2>1, <2>2, <2>3 DEF Shape, RowsShape
  <2> QED BY <2>1, <2>4, RunOverEffect DEF Shape
<1> QED BY <1>1, <1>2

LEMMA AwaitShape ==
    ASSUME Shape, NEW w \in Worker, NEW a \in Action, AwaitApproval(w, a)
    PROVE  Gone(w) /\ RowsShape'
<1>1. CASE Conflict(w)
  BY <1>1, ConflictEffect
<1>2. CASE ~Conflict(w)
  <2>1. /\ RunOver(w) /\ FinishRun(worker[w].run, "completed") /\ MoveTask("blocked_approval")
        /\ SetAction(a, "awaiting") /\ approval' = [approval EXCEPT ![a] = "pending"]
        /\ UNCHANGED <<current, overdue, wakes>>
    BY <1>2 DEF AwaitApproval
  <2>2. RowsShape'
    BY <2>1 DEF Shape, RowsShape, FinishRun, RunStatus, MoveTask, TaskStatus, Blocked,
                SetAction, ActionStatus, ApprovalStatus
  <2> QED BY <2>1, <2>2, RunOverEffect DEF Shape
<1> QED BY <1>1, <1>2

LEMMA UnknownShape ==
    ASSUME Shape, NEW w \in Worker, Unknown(w)
    PROVE  Gone(w) /\ RowsShape'
<1>1. CASE Conflict(w)
  BY <1>1, ConflictEffect
<1>2. CASE ~Conflict(w)
  <2>1. /\ RunOver(w) /\ SetAction(worker[w].act, "unknown")
        /\ \E e \in {"completed", "interrupted"} : FinishRun(worker[w].run, e)
        /\ UNCHANGED <<task, reconciled>> \/ MoveTask("reconciling")
        /\ UNCHANGED <<current, approval, overdue, wakes>>
    BY <1>2 DEF Unknown
  <2>2. RowsShape'
    BY <2>1 DEF Shape, RowsShape, FinishRun, RunStatus, MoveTask, TaskStatus, Blocked,
                SetAction, ActionStatus
  <2> QED BY <2>1, <2>2, RunOverEffect DEF Shape
<1> QED BY <1>1, <1>2

\* A worker settles or plans an action and goes on, or has to give up.
LEMMA SettleShape ==
    ASSUME Shape, NEW w \in Worker, worker[w].pc \in Inner, NEW a \in Action,
           NEW s \in ActionStatus,
           Plan(w, a, s) \/ (a = worker[w].act /\ Settle(w, s))
    PROVE  /\ RowsShape' /\ UNCHANGED <<task, current, run, approval>>
           /\ Retreats /\ worker'[w].pc \notin Inner
           /\ \A v \in Worker \ {w} : worker'[v] = worker[v]
           /\ \/ UNCHANGED action
              \/ (action[a] = "absent" \/ MayBecome(a, s) \/ Plan(w, a, s)) /\ SetAction(a, s)
<1>1. CASE Conflict(w)
  BY <1>1, ConflictEffect DEF Gone, rows, At, Inner
<1>2. CASE ~Conflict(w)
  <2>1. /\ BackToLoop(w) /\ SetAction(a, s)
        /\ UNCHANGED <<task, current, run, live, approval, overdue, jobs>>
    BY <1>2 DEF Plan, Settle
  <2>2. RowsShape'
    BY <2>1 DEF Shape, RowsShape, SetAction, jobs
  <2>3. a = worker[w].act /\ Settle(w, s) => MayBecome(a, s)
    BY <1>2 DEF Settle
  <2> QED BY <2>1, <2>2, <2>3, BackToLoopEffect DEF Shape, Inner
<1> QED BY <1>1, <1>2

\* The steps that leave the workers alone.
Apart ==
    \/ \E r \in Run : LeaseExpires(r)
    \/ Scan \/ UserActs \/ ToolReads \/ ToolActs \/ EventWakes
    \/ \E a \in Action :
        ApprovalDue(a) \/ Deny(a) \/ Approve(a) \/ JournalTells(a) \/ LateEffect(a)

LEMMA ScanShape == ASSUME Shape, Scan PROVE RowsShape' /\ UNCHANGED <<worker, tool, world, faults>>
<1>1. CASE Recover
  <2>1. wakes' \in Nat
    BY <1>1 DEF Recover, Shape
  <2>2. task' \in TaskStatus /\ reconciled' \in BOOLEAN
    BY <1>1 DEF Recover, MoveTask, TaskStatus, Blocked
  <2>3. run' \in [Run -> RunStatus] /\ live' \subseteq Run
    BY <1>1 DEF Recover, FinishRun, Shape, RunStatus
  <2>4. action' \in [Action -> ActionStatus]
    BY <1>1 DEF Recover, SetAction, Shape, ActionStatus
  <2> QED BY <1>1, <2>1, <2>2, <2>3, <2>4 DEF Recover, Shape, RowsShape
<1>2. CASE WakeUp
  <2>1. wakes' \in Nat
    BY <1>2 DEF WakeUp, Shape
  <2> QED BY <1>2, <2>1 DEF WakeUp, rows, Shape, RowsShape
<1>3. ASSUME NEW a \in Action, ExpireDue(a)
      PROVE  RowsShape' /\ UNCHANGED <<worker, tool, world, faults>>
  <2>1. wakes' \in Nat
    BY <1>3 DEF ExpireDue, Expire, Shape, jobs
  <2>2. task' \in TaskStatus /\ reconciled' \in BOOLEAN
    BY <1>3 DEF ExpireDue, Expire, MoveTask, TaskStatus, Shape, jobs
  <2>3. /\ action' \in [Action -> ActionStatus]
        /\ approval' \in [Action -> ApprovalStatus]
    BY <1>3 DEF ExpireDue, Expire, SetAction, Shape, ActionStatus, ApprovalStatus
  <2> QED BY <1>3, <2>1, <2>2, <2>3 DEF ExpireDue, Shape, RowsShape
<1> QED BY <1>1, <1>2, <1>3 DEF Scan

LEMMA CancelShape ==
    ASSUME Shape, NEW s, CancelTask(s) \/ SendInput(s)
    PROVE  /\ task' \in TaskStatus /\ reconciled' \in BOOLEAN /\ wakes' \in Nat
           /\ action' \in [Action -> ActionStatus] /\ approval' \in [Action -> ApprovalStatus]
<1>1. wakes' \in Nat
  BY DEF Shape, CancelTask, SendInput
<1>2. task' \in TaskStatus /\ reconciled' \in BOOLEAN
  BY DEF Shape, CancelTask, SendInput, MoveTask, TaskStatus, Terminal
<1>3. action' \in [Action -> ActionStatus] /\ approval' \in [Action -> ApprovalStatus]
  BY DEF Shape, CancelTask, SendInput, ActionStatus, ApprovalStatus
<1> QED BY <1>1, <1>2, <1>3

LEMMA DecideShape ==
    ASSUME Shape, NEW a \in Action, Deny(a) \/ Approve(a)
    PROVE  /\ RowsShape' /\ UNCHANGED <<current, run, live, worker, tool, world, faults>>
<1>1. wakes' \in Nat
  BY DEF Shape, Deny, Approve, Expire
<1>2. task' \in TaskStatus /\ reconciled' \in BOOLEAN
  BY DEF Deny, Approve, Expire, MoveTask, TaskStatus, Terminal
<1>3. action' \in [Action -> ActionStatus] /\ approval' \in [Action -> ApprovalStatus]
  BY DEF Shape, Deny, Approve, Expire, SetAction, ActionStatus, ApprovalStatus
<1>4. UNCHANGED <<current, run, live, overdue, worker, tool, world, faults>>
  BY DEF Deny, Approve
<1> QED BY <1>1, <1>2, <1>3, <1>4 DEF Shape, RowsShape

LEMMA ApartShape == ASSUME Shape, Apart PROVE Shape' /\ worker' = worker
<1>1. ASSUME NEW r \in Run, LeaseExpires(r) PROVE Shape' /\ worker' = worker
  <2>1. faults' \in Nat
    BY <1>1 DEF LeaseExpires, Fault, Shape
  <2> QED BY <1>1, <2>1 DEF LeaseExpires, Shape, jobs, world
<1>2. CASE Scan
  BY <1>2, ScanShape DEF Shape, RowsShape, world
<1>3. CASE UserActs
  <2>1. /\ task' \in TaskStatus /\ reconciled' \in BOOLEAN /\ wakes' \in Nat
        /\ action' \in [Action -> ActionStatus] /\ approval' \in [Action -> ApprovalStatus]
    BY <1>3, CancelShape DEF UserActs
  <2> QED BY <1>3, <2>1 DEF UserActs, Shape, world
<1>4. CASE ToolReads
  <2>1. tool' \in [op : {"none", "cancel", "input"}, seen : TaskStatus \cup {"none"}]
    BY <1>4 DEF ToolReads, Shape
  <2> QED BY <1>4, <2>1 DEF ToolReads, Shape, rows, jobs, world
<1>5. CASE ToolActs
  <2>1. /\ task' \in TaskStatus /\ reconciled' \in BOOLEAN /\ wakes' \in Nat
        /\ action' \in [Action -> ActionStatus] /\ approval' \in [Action -> ApprovalStatus]
    BY <1>5, CancelShape DEF ToolActs, Shape, jobs
  <2>2. tool' \in [op : {"none", "cancel", "input"}, seen : TaskStatus \cup {"none"}]
    BY <1>5 DEF ToolActs, NoTool
  <2> QED BY <1>5, <2>1, <2>2 DEF ToolActs, Shape, world
<1>6. CASE EventWakes
  <2>1. wakes' \in Nat
    BY <1>6 DEF EventWakes, Shape
  <2> QED BY <1>6, <2>1 DEF EventWakes, Shape, MoveTask, TaskStatus, world
<1>7. ASSUME NEW a \in Action, ApprovalDue(a) PROVE Shape' /\ worker' = worker
  BY <1>7 DEF ApprovalDue, Shape, jobs, world
<1>8. ASSUME NEW a \in Action, Deny(a) \/ Approve(a) PROVE Shape' /\ worker' = worker
  BY <1>8, DecideShape DEF Shape, RowsShape, world
<1>9. ASSUME NEW a \in Action, JournalTells(a) PROVE Shape' /\ worker' = worker
  <2>1. wakes' \in Nat
    BY <1>9 DEF JournalTells, Shape, jobs
  <2>2. task' \in TaskStatus /\ reconciled' \in BOOLEAN
    BY <1>9 DEF JournalTells, Shape, MoveTask, TaskStatus, jobs
  <2>3. action' \in [Action -> ActionStatus]
    BY <1>9 DEF JournalTells, SetAction, Shape, ActionStatus
  <2> QED BY <1>9, <2>1, <2>2, <2>3 DEF JournalTells, Shape, world
<1>10. ASSUME NEW a \in Action, LateEffect(a) PROVE Shape' /\ worker' = worker
  <2>1. effects' \in [Action -> Nat]
    <3>1. effects \in [Action -> Nat] /\ effects[a] + 1 \in Nat
      BY DEF Shape
    <3>2. effects' = [effects EXCEPT ![a] = effects[a] + 1]
      BY <1>10 DEF LateEffect
    <3> QED BY <3>1, <3>2
  <2> QED BY <1>10, <2>1 DEF LateEffect, Shape, rows, jobs
<1> QED BY <1>1, <1>2, <1>3, <1>4, <1>5, <1>6, <1>7, <1>8, <1>9, <1>10 DEF Apart

\* A step of a worker that starts nothing.
Falls(w) ==
    \/ Claim(w) \/ ReadTask(w) \/ Stall(w)
    \/ OverBudget(w) \/ NoticeCancel(w) \/ AskModel(w) \/ StepLimit(w) \/ NoCapability(w)
    \/ Discover(w) \/ Finish(w) \/ AskUser(w) \/ Propose(w)
    \/ Succeed(w) \/ Refuse(w) \/ TimeOut(w) \/ Unknown(w) \/ Return(w)
    \/ StartFails(w) \/ Fail(w) \/ Crash(w)

LEMMA RescueShape ==
    ASSUME Shape, NEW w \in Worker, Rescue(w)
    PROVE  Gone(w) /\ RowsShape' /\ UNCHANGED <<current, action, approval>>
<1>1. Gone(w) /\ wakes' \in Nat
  BY JobEffect DEF Rescue
<1>2. task' \in TaskStatus /\ reconciled' \in BOOLEAN
  BY DEF Rescue, Shape, MoveTask, TaskStatus
<1>3. run' \in [Run -> RunStatus] /\ live' \subseteq Run
  BY DEF Rescue, Shape, FinishRun, RunStatus
<1> QED BY <1>1, <1>2, <1>3 DEF Rescue, Shape, RowsShape

LEMMA UnplannedLeast ==
    Unplanned # {} => Least(Unplanned) \in Action /\ action[Least(Unplanned)] = "absent"
<1>1. Unplanned \in SUBSET Nat
  BY TaskAssumption DEF Unplanned
<1> QED BY <1>1, LeastIsMember DEF Unplanned

LEMMA ReadyLeast ==
    Ready # {} => Least(Ready) \in Action /\ action[Least(Ready)] = "ready"
<1>1. Ready \in SUBSET Nat
  BY TaskAssumption DEF Ready
<1> QED BY <1>1, LeastIsMember DEF Ready

\* What a worker proposes ends its run, plans an action or asks for its approval.
LEMMA ProposeCases ==
    ASSUME NEW w \in Worker, Propose(w)
    PROVE  \/ Complete(w, "partial")
           \/ \E a \in Action :
                /\ action[a] = "absent"
                /\ \/ Plan(w, a, "failed")
                   \/ a \in Risky /\ AwaitApproval(w, a)
                   \/ a \notin Risky /\ Plan(w, a, "ready")
  BY UnplannedLeast DEF Propose

LEMMA FallsShape ==
    ASSUME Shape, NEW w \in Worker, Falls(w)
    PROVE  /\ RowsShape' /\ Retreats
           /\ \A v \in Worker \ {w} : worker'[v] = worker[v]
<1> DEFINE Goal == /\ RowsShape' /\ Retreats
                   /\ \A v \in Worker \ {w} : worker'[v] = worker[v]
<1> SUFFICES Goal
  OBVIOUS
<1>g. Gone(w) /\ RowsShape' => Goal
  BY DEF Gone
<1> HIDE DEF Goal
<1>1. CASE Claim(w) \/ ReadTask(w) \/ Stall(w)
  <2>1. wakes' \in Nat
    BY <1>1 DEF Claim, ReadTask, JobDone, Stall, Shape
  <2>2. Retreats
    BY <1>1, JobSteps
  <2>3. UNCHANGED <<rows, reconciled>>
    BY <1>1 DEF Claim, ReadTask, Stall
  <2>4. \A v \in Worker \ {w} : worker'[v] = worker[v]
    BY <1>1 DEF Claim, ReadTask, Stall, JobDone, Shape
  <2> QED BY <2>1, <2>2, <2>3, <2>4 DEF Goal, Shape, RowsShape, rows
<1>2. CASE OverBudget(w) \/ NoCapability(w) \/ Finish(w) \/ AskUser(w)
  <2>1. worker[w].pc \in At
    BY <1>2 DEF OverBudget, NoCapability, Finish, AskUser, MayStep, InLoop, At
  <2>2. \E s \in TaskStatus : EndRun(w, s) \/ Complete(w, s)
    BY <1>2 DEF OverBudget, NoCapability, Finish, AskUser, TaskStatus, Blocked, Terminal
  <2> QED BY <1>g, <2>1, <2>2, EndShape
<1>3. CASE NoticeCancel(w)
  BY <1>g, <1>3, NoticeShape
<1>4. CASE AskModel(w)
  <2>1. CASE Conflict(w)
    BY <1>g, <2>1, ConflictEffect
  <2>2. CASE ~Conflict(w)
    <3>1. /\ worker' = [worker EXCEPT ![w].pc = "model", ![w].act = NoAction]
          /\ live' = live \cup {worker[w].run}
          /\ UNCHANGED <<task, current, run, action, approval, overdue, jobs>>
      BY <1>4, <2>2 DEF AskModel, Renew
    <3>2. MayStep(w) /\ worker[w].pc = "loop" /\ worker[w].run \in Run
      BY <1>4, RunOf DEF AskModel, MayStep, InLoop, At
    <3>3. Moves(w, "model") /\ worker'[w].act = NoAction
      BY <3>1, <3>2, RenewEffect DEF Shape
    <3>4. Leaves(w) /\ \A v \in Worker \ {w} : Keeps(v)
      BY <3>2, <3>3 DEF Moves, Leaves, Keeps, At, OnAction
    <3> QED BY <3>1, <3>2, <3>3, <3>4 DEF Goal, Moves, Retreats, Shape, RowsShape, jobs
  <2> QED BY <2>1, <2>2
<1>5. CASE StepLimit(w)
  BY <1>g, <1>5, StepLimitShape
<1>6. CASE Discover(w)
  <2>1. worker[w].pc \in Inner /\ BackToLoop(w) /\ UNCHANGED <<rows, jobs>>
    BY <1>6 DEF Discover, Inner
  <2> QED BY <2>1, BackToLoopEffect DEF Goal, Shape, RowsShape, rows, jobs
<1>7. CASE Propose(w)
  <2>1. worker[w].pc \in At /\ worker[w].pc \in Inner
    BY <1>7 DEF Propose, At, Inner
  <2>2. CASE Complete(w, "partial")
    BY <1>g, <2>1, <2>2, EndShape DEF TaskStatus, Terminal
  <2>3. ASSUME NEW a \in Action, AwaitApproval(w, a) PROVE Goal
    BY <1>g, <2>3, AwaitShape
  <2>4. ASSUME NEW a \in Action, NEW s \in {"failed", "ready"}, Plan(w, a, s) PROVE Goal
    BY <2>1, <2>4, SettleShape DEF Goal, ActionStatus
  <2> QED BY <1>7, <2>2, <2>3, <2>4, ProposeCases
<1>8. CASE Succeed(w) \/ Refuse(w) \/ TimeOut(w)
  <2>1. worker[w].pc \in Inner /\ worker[w].act \in Action
    BY <1>8, RunOf DEF Succeed, Refuse, TimeOut, Inner, OnAction, At
  <2>2. \E s \in ActionStatus : Settle(w, s)
    BY <1>8 DEF Succeed, Refuse, TimeOut, ActionStatus
  <2> QED BY <2>1, <2>2, SettleShape DEF Goal
<1>9. CASE Unknown(w)
  BY <1>g, <1>9, UnknownShape
<1>10. CASE Return(w) \/ StartFails(w)
  <2>1. (JobDone(w) \/ JobFails(w)) /\ UNCHANGED <<rows, reconciled>>
    BY <1>10 DEF Return, StartFails
  <2>2. Gone(w) /\ wakes' \in Nat
    BY <2>1, JobEffect
  <2> QED BY <1>g, <2>1, <2>2 DEF Shape, RowsShape, rows
<1>11. CASE Fail(w)
  BY <1>g, <1>11, RescueShape DEF Fail
<1>12. CASE Crash(w)
  <2>1. wakes' \in Nat
    BY <1>12 DEF Crash, Shape
  <2>2. Gone(w) /\ UNCHANGED <<rows, reconciled>>
    BY <1>12, BecomesIdle DEF Crash, Shape
  <2> QED BY <1>g, <2>1, <2>2 DEF Shape, RowsShape, rows
<1> QED BY <1>1, <1>2, <1>3, <1>4, <1>5, <1>6, <1>7, <1>8, <1>9, <1>10, <1>11, <1>12
        DEF Falls

\* The steps by which a worker takes up a run and an action and carries it out,
\* unless it has to give up (StartRun, TakeReady) or to leave the action (Dispatch).
Begins(w) ==
    /\ worker[w].pc = "start" /\ Seen(w) = "queued" /\ NextRun \in Run
    /\ SlowDispatch \/ \A v \in Worker : worker[v].pc # "fenced"
    /\ MoveTask("running") /\ current' = NextRun
    /\ run' = [run EXCEPT ![NextRun] = "running"]
    /\ live' = live \cup {NextRun}
    /\ UNCHANGED <<action, approval, overdue, wakes, tool, world, faults>>
    /\ worker' \in [Worker -> WorkerRow]
    /\ worker'[w].pc = "loop" /\ worker'[w].run = NextRun /\ worker'[w].act = worker[w].act
    /\ \A v \in Worker \ {w} : worker'[v] = worker[v]

Takes(w) ==
    LET a == worker'[w].act IN
    /\ MayStep(w) /\ run[worker[w].run] = "running"
    /\ a \in Action /\ action[a] = "ready"
    /\ Moves(w, "fenced")
    /\ live' = live \cup {worker[w].run}
    /\ UNCHANGED <<task, current, run, action, approval, overdue, jobs, tool, world, faults>>

Dispatches(w) ==
    LET a == worker[w].act IN
    /\ worker[w].pc = "fenced" /\ MayBecome(a, "dispatched") /\ SetAction(a, "dispatched")
    /\ Moves(w, "exec") /\ worker'[w].act = a
    /\ UNCHANGED <<task, current, run, live, approval, overdue, jobs, tool, world, faults>>

Affects(w) ==
    /\ worker[w].pc = "exec"
    /\ effects' = [effects EXCEPT ![worker[w].act] = @ + 1]
    /\ Moves(w, "done") /\ worker'[w].act = worker[w].act
    /\ UNCHANGED <<rows, jobs, tool, late, faults>>

\* Where one of them gives up, it is a step of this kind.
GivesUp(w) ==
    /\ RowsShape' /\ Retreats /\ UNCHANGED <<task, current, run, approval, tool, world, faults>>
    /\ \A v \in Worker \ {w} : worker'[v] = worker[v]
    /\ \/ UNCHANGED action
       \/ /\ worker[w].pc = "fenced" /\ MayBecome(worker[w].act, "invalidated")
          /\ SetAction(worker[w].act, "invalidated")

LEMMA ConflictGivesUp ==
    ASSUME Shape, NEW w \in Worker, Conflict(w), UNCHANGED <<tool, world, faults>>
    PROVE  GivesUp(w)
  BY ConflictEffect DEF GivesUp, Gone, rows

LEMMA StartCases == ASSUME Shape, NEW w \in Worker, StartRun(w) PROVE Begins(w) \/ GivesUp(w)
<1>1. CASE Seen(w) # "queued"
  BY <1>1, ConflictGivesUp DEF StartRun
<1>2. CASE Seen(w) = "queued"
  <2>1. /\ NextRun \in Run
        /\ worker' = [worker EXCEPT ![w].pc = "loop", ![w].run = NextRun]
    BY <1>2 DEF StartRun
  <2>2. /\ worker' \in [Worker -> WorkerRow]
        /\ worker'[w].pc = "loop" /\ worker'[w].run = NextRun /\ worker'[w].act = worker[w].act
        /\ \A v \in Worker \ {w} : worker'[v] = worker[v]
    BY <2>1, StartEffect DEF Shape
  <2> QED BY <1>2, <2>2 DEF StartRun, Begins
<1> QED BY <1>1, <1>2

LEMMA TakeCases == ASSUME Shape, NEW w \in Worker, TakeReady(w) PROVE Takes(w) \/ GivesUp(w)
<1>1. CASE run[worker[w].run] # "running"
  BY <1>1, ConflictGivesUp DEF TakeReady, Renew
<1>2. CASE run[worker[w].run] = "running"
  <2> DEFINE a == Least(Ready)
  <2>1. /\ MayStep(w) /\ a \in Action /\ action[a] = "ready"
        /\ worker' = [worker EXCEPT ![w].pc = "fenced", ![w].act = a]
        /\ live' = live \cup {worker[w].run}
        /\ UNCHANGED <<task, current, run, action, approval, overdue, jobs, tool, world, faults>>
    BY <1>2, ReadyLeast DEF TakeReady, Renew
  <2> HIDE DEF a
  <2>2. Moves(w, "fenced") /\ worker'[w].act = a
    BY <2>1, RenewEffect DEF Shape
  <2> QED BY <1>2, <2>1, <2>2 DEF Takes
<1> QED BY <1>1, <1>2

LEMMA DispatchCases ==
    ASSUME Shape, NEW w \in Worker, Dispatch(w) PROVE Dispatches(w) \/ GivesUp(w)
<1> DEFINE a == worker[w].act
<1>1. worker[w].pc \in OnAction /\ worker[w].pc \in At /\ worker[w].pc \in Inner /\ a \in Action
  BY RunOf DEF Dispatch, OnAction, At, Inner
<1>2. CASE /\ MayBecome(a, "dispatched") /\ SetAction(a, "dispatched")
           /\ worker' = [worker EXCEPT ![w].pc = "exec"]
           /\ UNCHANGED <<task, current, run, live, approval, overdue, jobs>>
  <2>1. Moves(w, "exec") /\ worker'[w].act = a
    BY <1>1, <1>2, StepEffect DEF Shape, OnAction
  <2> QED BY <1>2, <2>1 DEF Dispatch, Dispatches
<1>3. CASE /\ MayBecome(a, "invalidated") /\ SetAction(a, "invalidated")
           /\ BackToLoop(w)
           /\ UNCHANGED <<task, current, run, live, approval, overdue, jobs>>
  <2>1. /\ Retreats
        /\ \A v \in Worker \ {w} : worker'[v] = worker[v]
    BY <1>1, <1>3, BackToLoopEffect DEF Shape
  <2>2. RowsShape'
    BY <1>1, <1>3 DEF Shape, RowsShape, SetAction, ActionStatus, jobs
  <2> QED BY <1>3, <2>1, <2>2 DEF Dispatch, GivesUp
<1>4. CASE Conflict(w)
  BY <1>4, ConflictGivesUp DEF Dispatch
<1> QED BY <1>2, <1>3, <1>4 DEF Dispatch

LEMMA EffectCases == ASSUME Shape, NEW w \in Worker, Effect(w) PROVE Affects(w)
<1>1. worker[w].pc \in OnAction /\ worker' = [worker EXCEPT ![w].pc = "done"]
  BY DEF Effect, OnAction
<1>2. Moves(w, "done") /\ worker'[w].act = worker[w].act
  BY <1>1, StepEffect DEF Shape, OnAction
<1> QED BY <1>2 DEF Effect, Affects

\* A step is one of these.
LEMMA StepCases ==
    ASSUME Shape, [Next]_trVars
    PROVE  \/ UNCHANGED trVars \/ Apart
           \/ \E w \in Worker :
                Falls(w) \/ Begins(w) \/ Takes(w) \/ Dispatches(w) \/ Affects(w) \/ GivesUp(w)
<1>1. CASE UNCHANGED trVars
  BY <1>1
<1>2. ASSUME NEW w \in Worker, \/ Claim(w) \/ Work(w)
                               \/ NoCapability(w) \/ TimeOut(w) \/ StartFails(w) \/ Fail(w)
                               \/ Crash(w) \/ Stall(w)
      PROVE  \/ Falls(w)
             \/ Begins(w) \/ Takes(w) \/ Dispatches(w) \/ Affects(w) \/ GivesUp(w)
  BY <1>2, StartCases, TakeCases, DispatchCases, EffectCases DEF Work, Falls
<1>3. CASE Apart
  BY <1>3
<1> QED BY <1>1, <1>2, <1>3 DEF Next, Apart

LEMMA FallsBeside ==
    ASSUME Shape, NEW w \in Worker, Falls(w)
    PROVE  /\ UNCHANGED <<tool, effects>> /\ faults' \in Nat
           /\ late' = late \/ TimeOut(w)
<1>1. faults' \in Nat
  BY DEF Falls, Shape, Fault, Claim, ReadTask, Stall, OverBudget, NoticeCancel, AskModel,
         StepLimit, NoCapability, Discover, Finish, AskUser, Propose, Succeed, Refuse, TimeOut,
         Unknown, Return, StartFails, Fail, Crash
<1>2. UNCHANGED <<tool, effects>> /\ (late' = late \/ TimeOut(w))
  BY DEF Falls, world, Claim, ReadTask, Stall, OverBudget, NoticeCancel, AskModel,
         StepLimit, NoCapability, Discover, Finish, AskUser, Propose, Succeed, Refuse, TimeOut,
         Unknown, Return, StartFails, Fail, Crash
<1> QED BY <1>1, <1>2

LEMMA StepShape == ASSUME Shape, [Next]_trVars PROVE Shape'
<1>1. CASE UNCHANGED trVars
  BY <1>1 DEF Shape, trVars, rows, jobs, world
<1>2. CASE Apart
  BY <1>2, ApartShape
<1>3. ASSUME NEW w \in Worker, Falls(w) PROVE Shape'
  <2>1. late' \subseteq Action
    <3>1. TimeOut(w) => worker[w].act \in Action /\ late' = late \cup {worker[w].act}
      BY RunOf DEF TimeOut, At, OnAction
    <3> QED BY <1>3, <3>1, FallsBeside DEF Shape
  <2>2. RowsShape' /\ worker' \in [Worker -> WorkerRow]
    BY <1>3, FallsShape DEF Retreats
  <2> QED BY <1>3, <2>1, <2>2, FallsBeside DEF Shape, RowsShape
<1>4. ASSUME NEW w \in Worker, Begins(w) PROVE Shape'
  <2>1. task' \in TaskStatus /\ reconciled' \in BOOLEAN
    BY <1>4 DEF Begins, MoveTask, TaskStatus
  <2>2. /\ NextRun \in Run /\ run' = [run EXCEPT ![NextRun] = "running"]
        /\ current' = NextRun /\ live' = live \cup {NextRun}
        /\ worker' \in [Worker -> WorkerRow]
        /\ UNCHANGED <<action, approval, overdue, wakes, tool, effects, late, faults>>
    BY <1>4 DEF Begins, world
  <2>3. run' \in [Run -> RunStatus] /\ live' \subseteq Run /\ current' \in Run
    BY <2>2 DEF Shape, RunStatus
  <2> QED BY <2>1, <2>2, <2>3 DEF Shape
<1>5. ASSUME NEW w \in Worker, Takes(w) PROVE Shape'
  <2>1. worker[w].run \in Run
    BY <1>5, RunOf DEF Takes, MayStep, InLoop, At
  <2> QED BY <1>5, <2>1 DEF Takes, Moves, Shape, jobs, world
<1>6. ASSUME NEW w \in Worker, Dispatches(w) PROVE Shape'
  BY <1>6 DEF Dispatches, Moves, SetAction, Shape, ActionStatus, jobs, world
<1>7. ASSUME NEW w \in Worker, Affects(w) PROVE Shape'
  <2>1. effects' \in [Action -> Nat]
    <3>1. effects \in [Action -> Nat] /\ worker[w].act \in Action
      BY <1>7, RunOf DEF Affects, At, OnAction, Shape
    <3>2. effects[worker[w].act] + 1 \in Nat
      BY <3>1
    <3> QED BY <1>7, <3>1, <3>2 DEF Affects
  <2> QED BY <1>7, <2>1 DEF Affects, Moves, Shape, rows, jobs
<1>8. ASSUME NEW w \in Worker, GivesUp(w) PROVE Shape'
  BY <1>8 DEF GivesUp, Retreats, Shape, RowsShape, world
<1> QED BY <1>1, <1>2, <1>3, <1>4, <1>5, <1>6, <1>7, <1>8, StepCases
-------------------------------------------------------------------------------
(***************************************************************************)
(* Runs.  They are numbered in the order they are started, only the current *)
(* one is running, and that only while the task is running or after it was  *)
(* ended under it; a worker has a run of its own, which nobody but itself   *)
(* completes.  So a worker that completes its run completes the current one *)
(* (the refusal of finish_run is what everything rests on), and queues or   *)
(* blocks the task only when no run is left.                                *)
(***************************************************************************)
Numbered == \A r \in Run : run[r] # "none" <=> r <= current
OnlyCurrentRuns ==
    \A r \in Run : run[r] = "running" => r = current /\ task \in {"running"} \cup Terminal
HasRun ==
    \A w \in Worker : worker[w].pc \in At =>
        worker[w].run <= current /\ run[worker[w].run] # "completed"
RunOfItsOwn ==
    \A v, w \in Worker :
        worker[v].pc \in At /\ worker[w].pc \in At /\ worker[v].run = worker[w].run => v = w

RunsInv == Numbered /\ OnlyCurrentRuns /\ HasRun /\ RunOfItsOwn

AtKept ==
    \A v \in Worker :
        worker'[v].pc \in At => worker[v].pc \in At /\ worker'[v].run = worker[v].run

LEMMA RetreatsKeepAt == Retreats => AtKept
  BY DEF Retreats, AtKept, Keeps, Leaves

LEMMA InitRuns == Init => RunsInv
<1> SUFFICES ASSUME Init PROVE RunsInv
  OBVIOUS
<1>1. current = 0 /\ \A r \in Run : run[r] = "none" /\ ~(r <= current)
  BY TaskAssumption DEF Init, Run
<1>2. \A w \in Worker : worker[w].pc = "idle"
  BY DEF Init, Idle
<1> QED BY <1>1, <1>2 DEF RunsInv, Numbered, OnlyCurrentRuns, HasRun, RunOfItsOwn, At

\* No run changes, and the task leaves "running" only if none is running.
LEMMA RunsUnchanged ==
    ASSUME Shape, RunsInv, AtKept, UNCHANGED <<run, current>>,
           \/ task' = task \/ task' \in {"running"} \cup Terminal
           \/ task \notin {"running"} \cup Terminal
    PROVE  RunsInv'
<1>1. Numbered'
  BY DEF RunsInv, Numbered
<1>2. OnlyCurrentRuns'
  BY DEF RunsInv, OnlyCurrentRuns
<1>3. HasRun' /\ RunOfItsOwn'
  BY DEF RunsInv, HasRun, RunOfItsOwn, AtKept
<1> QED BY <1>1, <1>2, <1>3 DEF RunsInv

\* A run ends, at the hands of its worker if it is completed.
LEMMA RunEnded ==
    ASSUME Shape, RunsInv, AtKept, UNCHANGED current, NEW r \in Run,
           NEW e \in {"completed", "failed", "interrupted"},
           run[r] # "none", FinishRun(r, e),
           e = "completed" => \A v \in Worker : worker'[v].pc \in At => worker'[v].run # r,
           \/ task' = task \/ task' \in {"running"} \cup Terminal
           \/ run[r] = "running"
    PROVE  RunsInv'
<1>1. /\ run \in [Run -> RunStatus] /\ run' = [run EXCEPT ![r] = e]
      /\ run'[r] = e /\ \A s \in Run \ {r} : run'[s] = run[s]
  BY DEF FinishRun, Shape
<1>2. Numbered'
  BY <1>1 DEF RunsInv, Numbered
<1>3. OnlyCurrentRuns'
  BY <1>1 DEF RunsInv, OnlyCurrentRuns
<1>4. HasRun'
  <2> SUFFICES ASSUME NEW w \in Worker, worker'[w].pc \in At
               PROVE  worker'[w].run <= current' /\ run'[worker'[w].run] # "completed"
    BY DEF HasRun
  <2>1. worker[w].pc \in At /\ worker'[w].run = worker[w].run /\ worker[w].run \in Run
    BY RunOf DEF AtKept
  <2>2. worker[w].run <= current /\ run[worker[w].run] # "completed"
    BY <2>1 DEF RunsInv, HasRun
  <2> QED BY <1>1, <2>1, <2>2
<1>5. RunOfItsOwn'
  BY DEF RunsInv, RunOfItsOwn, AtKept
<1> QED BY <1>2, <1>3, <1>4, <1>5 DEF RunsInv

\* The next run is the one after the current one, and nobody has it.
LEMMA NextIsNew == ASSUME Shape, RunsInv PROVE NextRun = current + 1
<1>1. {r \in Run : run[r] # "none"} = 1 .. current
  <2>1. current \in Nat /\ \A r : r \in Run <=> r \in Nat /\ 1 <= r /\ r <= MaxRuns + 1 + MaxFaults
    BY TaskAssumption DEF Shape, Run
  <2>2. current <= MaxRuns + 1 + MaxFaults
    BY TaskAssumption DEF Shape, Run
  <2>3. \A r \in Run : run[r] # "none" <=> r <= current
    BY DEF RunsInv, Numbered
  <2> QED BY <2>1, <2>2, <2>3, TaskAssumption
<1>2. current \in Nat
  BY TaskAssumption DEF Shape, Run
<1>3. Cardinality(1 .. current) = current
  <2>1. 1 \in Int /\ current \in Int
    BY <1>2
  <2>2. Cardinality(1 .. current) = IF 1 > current THEN 0 ELSE current - 1 + 1
    BY <2>1, FS_Interval
  <2> QED BY <1>2, <2>2
<1> QED BY <1>1, <1>3 DEF NextRun

LEMMA StartKeepsRuns ==
    ASSUME ~StaleReads, Shape, Shape', RunsInv, NEW w \in Worker, Begins(w)
    PROVE  RunsInv'
<1> DEFINE n == current + 1
<1>1. /\ n \in Run /\ current' = n /\ task' = "running"
      /\ run' = [run EXCEPT ![n] = "running"]
      /\ worker'[w].pc = "loop" /\ worker'[w].run = n
      /\ \A v \in Worker \ {w} : worker'[v] = worker[v]
  BY NextIsNew DEF Begins, MoveTask
<1>2. task = "queued" /\ \A r \in Run : run[r] # "running"
  BY DEF Begins, Seen, RunsInv, OnlyCurrentRuns, Terminal
<1>3. /\ run'[n] = "running" /\ \A r \in Run \ {n} : run'[r] = run[r]
      /\ current \in Nat /\ \A r \in Run : r \in Nat
  BY <1>1, TaskAssumption DEF Shape, Run
<1>4. Numbered'
  <2>1. \A r \in Run : r <= n <=> r <= current \/ r = n
    BY <1>3
  <2> QED BY <1>1, <1>3, <2>1 DEF RunsInv, Numbered
<1>5. OnlyCurrentRuns'
  BY <1>1, <1>2, <1>3 DEF OnlyCurrentRuns
<1>6. \A v \in Worker \ {w} : worker'[v].pc \in At =>
        /\ worker'[v].run = worker[v].run /\ worker[v].pc \in At
        /\ worker[v].run \in Run /\ worker[v].run <= current
        /\ worker[v].run # n /\ run[worker[v].run] # "completed"
  <2> SUFFICES ASSUME NEW v \in Worker \ {w}, worker'[v].pc \in At
               PROVE  /\ worker'[v].run = worker[v].run /\ worker[v].pc \in At
                      /\ worker[v].run \in Run /\ worker[v].run <= current
                      /\ worker[v].run # n /\ run[worker[v].run] # "completed"
    OBVIOUS
  <2>1. worker[v].pc \in At /\ worker[v].run \in Run /\ worker'[v].run = worker[v].run
    BY <1>1, RunOf
  <2>2. worker[v].run <= current /\ run[worker[v].run] # "completed"
    BY <2>1 DEF RunsInv, HasRun
  <2> QED BY <1>3, <2>1, <2>2
<1>7. HasRun'
  <2>1. n <= n /\ \A r \in Run : r <= current => r <= n
    BY <1>3
  <2> QED BY <1>1, <1>3, <1>6, <2>1 DEF HasRun
<1>8. RunOfItsOwn'
  BY <1>1, <1>6 DEF RunsInv, RunOfItsOwn
<1> QED BY <1>4, <1>5, <1>7, <1>8 DEF RunsInv

\* What a worker's run is when the worker says how it ended.
LEMMA OwnRunIsCurrent ==
    ASSUME Shape, RunsInv, NEW w \in Worker, worker[w].pc \in At
    PROVE  LET r == worker[w].run IN
           /\ r \in Run /\ run[r] # "none"
           /\ MayFinish(r, "completed") =>
                run[r] = "running" /\ task \in {"running"} \cup Terminal
<1>1. /\ worker[w].run \in Run /\ worker[w].run <= current
      /\ run[worker[w].run] # "completed"
  BY RunOf DEF RunsInv, HasRun
<1> QED BY <1>1 DEF RunsInv, Numbered, OnlyCurrentRuns, MayFinish

\* The worker leaves, with its run ended or with all runs as they were.
LEMMA LeavingKeepsRuns ==
    ASSUME Shape, RunsInv, NEW w \in Worker, worker[w].pc \in At, Gone(w), UNCHANGED current,
           NEW e \in {"completed", "failed", "interrupted"}, FinishRun(worker[w].run, e),
           \/ task' = task \/ task' \in {"running"} \cup Terminal
           \/ run[worker[w].run] = "running"
    PROVE  RunsInv'
<1>1. worker[w].run \in Run /\ run[worker[w].run] # "none"
  BY OwnRunIsCurrent
<1>2. AtKept
  BY RetreatsKeepAt DEF Gone
<1>3. \A v \in Worker : worker'[v].pc \in At => worker'[v].run # worker[w].run
  BY <1>2 DEF Gone, AtKept, RunsInv, RunOfItsOwn
<1> QED BY <1>1, <1>2, <1>3, RunEnded

LEMMA ConflictKeepsRuns ==
    ASSUME Shape, RunsInv, NEW w \in Worker, Conflict(w) PROVE RunsInv'
<1>1. Gone(w) /\ UNCHANGED <<task, run, current>>
  BY ConflictEffect DEF rows
<1> QED BY <1>1, RetreatsKeepAt, RunsUnchanged DEF Gone

LEMMA EndKeepsRuns ==
    ASSUME Shape, RunsInv, NEW w \in Worker, worker[w].pc \in At,
           \/ \E s \in {"blocked_node", "blocked_user"} : EndRun(w, s)
           \/ \E s \in {"succeeded", "partial", "failed"} : Complete(w, s)
           \/ NoticeCancel(w) \/ StepLimit(w) \/ Unknown(w)
           \/ \E a \in Action : AwaitApproval(w, a)
    PROVE  RunsInv'
<1> DEFINE r == worker[w].run
<1>1. CASE Conflict(w)
  BY <1>1, ConflictKeepsRuns
<1>2. CASE ~Conflict(w)
  <2>1. ASSUME NEW s \in {"blocked_node", "blocked_user"}, EndRun(w, s)
        PROVE  RunsInv'
    <3>1. /\ MayFinish(r, "completed") /\ FinishRun(r, "completed") /\ RunOver(w)
          /\ UNCHANGED current
      BY <1>2, <2>1 DEF EndRun
    <3> QED BY <3>1, OwnRunIsCurrent, RunOverEffect, LeavingKeepsRuns DEF Shape
  <2>2. ASSUME NEW s \in {"succeeded", "partial", "failed"}, Complete(w, s)
        PROVE  RunsInv'
    <3> DEFINE e == IF s = "failed" THEN "failed" ELSE "completed"
    <3>1. FinishRun(r, e) /\ RunOver(w) /\ MoveTask(s) /\ UNCHANGED current
      BY <1>2, <2>2 DEF Complete
    <3>2. task' \in Terminal /\ e \in {"completed", "failed", "interrupted"}
      BY <3>1 DEF MoveTask, Terminal
    <3> HIDE DEF e
    <3> QED BY <3>1, <3>2, RunOverEffect, LeavingKeepsRuns DEF Shape
  <2>3. CASE NoticeCancel(w)
    <3>1. FinishRun(r, "interrupted") /\ RunOver(w) /\ UNCHANGED <<task, current>>
      BY <1>2, <2>3 DEF NoticeCancel
    <3> QED BY <3>1, RunOverEffect, LeavingKeepsRuns DEF Shape
  <2>4. CASE StepLimit(w)
    <3>1. /\ MayFinish(r, "completed") /\ FinishRun(r, "completed") /\ RunOver(w)
          /\ UNCHANGED current
      BY <1>2, <2>4 DEF StepLimit
    <3> QED BY <3>1, OwnRunIsCurrent, RunOverEffect, LeavingKeepsRuns DEF Shape
  <2>5. CASE Unknown(w) /\ task = "cancelled"
    <3>1. FinishRun(r, "interrupted") /\ RunOver(w) /\ UNCHANGED <<task, current>>
      BY <1>2, <2>5 DEF Unknown
    <3> QED BY <3>1, RunOverEffect, LeavingKeepsRuns DEF Shape
  <2>6. CASE Unknown(w) /\ task # "cancelled"
    <3>1. /\ MayFinish(r, "completed") /\ FinishRun(r, "completed") /\ RunOver(w)
          /\ UNCHANGED current
      BY <1>2, <2>6 DEF Unknown
    <3> QED BY <3>1, OwnRunIsCurrent, RunOverEffect, LeavingKeepsRuns DEF Shape
  <2>7. ASSUME NEW a \in Action, AwaitApproval(w, a) PROVE RunsInv'
    <3>1. /\ MayFinish(r, "completed") /\ FinishRun(r, "completed") /\ RunOver(w)
          /\ UNCHANGED current
      BY <1>2, <2>7 DEF AwaitApproval
    <3> QED BY <3>1, OwnRunIsCurrent, RunOverEffect, LeavingKeepsRuns DEF Shape
  <2> QED BY <2>1, <2>2, <2>3, <2>4, <2>5, <2>6, <2>7
<1> QED BY <1>1, <1>2

LEMMA RescueKeepsRuns ==
    ASSUME Shape, RunsInv, NEW w \in Worker, Rescue(w) PROVE RunsInv'
<1>1. AtKept /\ UNCHANGED current
  BY RescueShape, RetreatsKeepAt DEF Gone
<1>2. CASE task = "running" /\ current > 0 /\ run[current] = "running"
  <2>1. FinishRun(current, "failed")
    BY <1>2 DEF Rescue
  <2>2. current \in Run
    BY <1>2, TaskAssumption DEF Shape
  <2> QED BY <1>1, <1>2, <2>1, <2>2, RunEnded
<1>3. CASE task = "running" /\ ~(current > 0 /\ run[current] = "running")
  <2>1. run' = run
    BY <1>3 DEF Rescue
  <2>2. \A r \in Run : run[r] # "running"
    <3>1. \A r \in Run : r > 0
      BY DEF Run
    <3> QED BY <1>3, <3>1 DEF RunsInv, OnlyCurrentRuns
  <2> QED BY <1>1, <2>1, <2>2 DEF RunsInv, Numbered, OnlyCurrentRuns, HasRun, RunOfItsOwn, AtKept
<1>4. CASE task # "running"
  <2>1. UNCHANGED <<task, run>>
    BY <1>4 DEF Rescue
  <2> QED BY <1>1, <2>1, RunsUnchanged
<1> QED BY <1>2, <1>3, <1>4

LEMMA RecoverKeepsRuns == ASSUME Shape, RunsInv, Recover PROVE RunsInv'
<1>1. AtKept /\ UNCHANGED current
  BY DEF Recover, AtKept
<1>2. CASE current > 0 /\ run[current] = "running"
  <2>1. FinishRun(current, "interrupted") /\ current \in Run
    BY <1>2, TaskAssumption DEF Recover, Shape
  <2> QED BY <1>1, <1>2, <2>1, RunEnded
<1>3. CASE ~(current > 0 /\ run[current] = "running")
  <2>1. run' = run
    BY <1>3 DEF Recover
  <2>2. \A r \in Run : run[r] # "running"
    <3>1. \A r \in Run : r > 0
      BY DEF Run
    <3> QED BY <1>3, <3>1 DEF RunsInv, OnlyCurrentRuns
  <2> QED BY <1>1, <2>1, <2>2 DEF RunsInv, Numbered, OnlyCurrentRuns, HasRun, RunOfItsOwn, AtKept
<1> QED BY <1>2, <1>3

\* Whoever is not a worker moves a task that is not running, or ends it.
LEMMA ApartKeepsRuns ==
    ASSUME ~StaleReads, Shape, RunsInv, Apart PROVE RunsInv'
<1> DEFINE Quietly == \/ task' = task \/ task' \in {"running"} \cup Terminal
                      \/ task \notin {"running"} \cup Terminal
<1>1. AtKept
  BY ApartShape DEF AtKept
<1>2. CASE Recover
  BY <1>2, RecoverKeepsRuns
<1>3. CASE ~Recover
  <2>1. ASSUME NEW r \in Run, LeaseExpires(r) PROVE UNCHANGED <<run, current>> /\ Quietly
    BY <2>1 DEF LeaseExpires
  <2>2. ASSUME WakeUp \/ ToolReads PROVE UNCHANGED <<run, current>> /\ Quietly
    BY <2>2 DEF WakeUp, ToolReads, rows
  <2>3. ASSUME NEW a \in Action, ExpireDue(a) \/ ApprovalDue(a) \/ Deny(a) \/ Approve(a)
        PROVE UNCHANGED <<run, current>> /\ Quietly
    BY <2>3 DEF ExpireDue, ApprovalDue, Deny, Approve, Waiting, Terminal
  <2>4. ASSUME UserActs \/ ToolActs \/ EventWakes
        PROVE UNCHANGED <<run, current>> /\ Quietly
    BY <2>4 DEF UserActs, ToolActs, EventWakes, CancelTask, SendInput, MoveTask, Terminal
  <2>5. ASSUME NEW a \in Action, JournalTells(a) \/ LateEffect(a)
        PROVE UNCHANGED <<run, current>> /\ Quietly
    BY <2>5 DEF JournalTells, LateEffect, rows, Terminal
  <2>6. UNCHANGED <<run, current>> /\ Quietly
    BY <1>3, <2>1, <2>2, <2>3, <2>4, <2>5 DEF Apart, Scan
  <2> QED BY <1>1, <2>6, RunsUnchanged
<1> QED BY <1>2, <1>3

LEMMA FallsKeepsRuns == ASSUME Shape, RunsInv, NEW w \in Worker, Falls(w) PROVE RunsInv'
<1>1. AtKept
  BY FallsShape, RetreatsKeepAt
<1>2. ASSUME UNCHANGED <<task, run, current>> PROVE RunsInv'
  BY <1>1, <1>2, RunsUnchanged
<1>3. CASE Claim(w) \/ ReadTask(w) \/ Stall(w) \/ Discover(w) \/ Return(w) \/ StartFails(w) \/ Crash(w)
  BY <1>2, <1>3 DEF Claim, ReadTask, Stall, Discover, Return, StartFails, Crash, rows
<1>4. CASE AskModel(w)
  BY <1>2, <1>4 DEF AskModel, Renew, Conflict, rows
<1>5. CASE OverBudget(w) \/ Finish(w)
  <2>1. worker[w].pc \in At /\ \E s \in {"succeeded", "partial", "failed"} : Complete(w, s)
    BY <1>5 DEF OverBudget, Finish, InLoop, At
  <2> QED BY <2>1, EndKeepsRuns
<1>6. CASE NoCapability(w) \/ AskUser(w)
  <2>1. worker[w].pc \in At /\ \E s \in {"blocked_node", "blocked_user"} : EndRun(w, s)
    BY <1>6 DEF NoCapability, AskUser, MayStep, InLoop, At
  <2> QED BY <2>1, EndKeepsRuns
<1>7. CASE NoticeCancel(w) \/ StepLimit(w) \/ Unknown(w)
  <2>1. worker[w].pc \in At
    BY <1>7 DEF NoticeCancel, StepLimit, Unknown, MayStep, InLoop, At
  <2> QED BY <1>7, <2>1, EndKeepsRuns
<1>8. CASE Propose(w)
  <2>1. worker[w].pc \in At
    BY <1>8 DEF Propose, At
  <2>2. ASSUME NEW a \in Action, NEW s, Plan(w, a, s) PROVE RunsInv'
    BY <1>2, <2>2 DEF Plan
  <2> QED BY <1>8, <2>1, <2>2, ProposeCases, EndKeepsRuns
<1>9. CASE Succeed(w) \/ Refuse(w) \/ TimeOut(w)
  <2>1. ASSUME NEW s, Settle(w, s) PROVE UNCHANGED <<task, run, current>>
    BY <2>1 DEF Settle, Conflict, rows
  <2> QED BY <1>2, <1>9, <2>1 DEF Succeed, Refuse, TimeOut
<1>10. CASE Fail(w)
  BY <1>10, RescueKeepsRuns DEF Fail
<1> QED BY <1>3, <1>4, <1>5, <1>6, <1>7, <1>8, <1>9, <1>10 DEF Falls

LEMMA StepRuns ==
    ASSUME ~StaleReads, Shape, RunsInv, [Next]_trVars PROVE RunsInv'
<1>1. CASE UNCHANGED trVars
  BY <1>1 DEF RunsInv, Numbered, OnlyCurrentRuns, HasRun, RunOfItsOwn, trVars, rows
<1>2. CASE Apart
  BY <1>2, ApartKeepsRuns
<1>3. ASSUME NEW w \in Worker, Falls(w) PROVE RunsInv'
  BY <1>3, FallsKeepsRuns
<1>4. ASSUME NEW w \in Worker, Begins(w) PROVE RunsInv'
  BY <1>4, StepShape, StartKeepsRuns
<1>5. ASSUME NEW w \in Worker, Takes(w) \/ Dispatches(w) \/ Affects(w) PROVE RunsInv'
  <2>1. UNCHANGED <<task, run, current>> /\ (Moves(w, "fenced") \/ Moves(w, "exec") \/ Moves(w, "done"))
    BY <1>5 DEF Takes, Dispatches, Affects, rows
  <2>2. worker[w].pc \in At
    BY <1>5 DEF Takes, Dispatches, Affects, MayStep, InLoop, At
  <2>3. AtKept
    BY <2>1, <2>2 DEF Moves, AtKept
  <2> QED BY <2>1, <2>3, RunsUnchanged
<1>6. ASSUME NEW w \in Worker, GivesUp(w) PROVE RunsInv'
  BY <1>6, RetreatsKeepAt, RunsUnchanged DEF GivesUp
<1> QED BY <1>1, <1>2, <1>3, <1>4, <1>5, <1>6, StepCases

RTInv == Shape /\ RunsInv

\* Never two runs of a task are running: as long as no session decides on an
\* object it read before it waited for the row (transition_task in
\* task_runtime/repository.py decides on the object it is given), a run that is
\* taken over has ended when the next one starts.
THEOREM OneRunCorrect == ASSUME ~StaleReads PROVE Spec => []OneRun
<1>1. Init => RTInv
  BY InitShape, InitRuns DEF RTInv
<1>2. RTInv /\ [Next]_trVars => RTInv'
  BY StepShape, StepRuns DEF RTInv
<1>3. RTInv => OneRun
  BY DEF RTInv, RunsInv, OnlyCurrentRuns, OneRun
<1> QED BY <1>1, <1>2, <1>3, PTL DEF Spec
-------------------------------------------------------------------------------
(***************************************************************************)
(* Approvals.  What a worker works on was planned and is not waiting for an *)
(* approval (WorkedOn), so that settling it never takes a question away     *)
(* from the user; and what needs an approval is released, worked on or done *)
(* only where it was given (Granted).                                       *)
(***************************************************************************)
Released == {"ready", "dispatched", "unknown", "succeeded"}

OneAsked == \A a, b \in Action : approval[a] = "pending" /\ approval[b] = "pending" => a = b
WorkedOn ==
    \A w \in Worker : worker[w].act \in Action =>
        action[worker[w].act] \notin {"absent", "awaiting"}
Reached(a) == effects[a] > 0 \/ a \in late \/ Executing(a)
Granted ==
    \A a \in Risky :
        /\ action[a] = "absent" => approval[a] = "none"
        /\ action[a] \in Released \/ Reached(a) => approval[a] = "succeeded"

Asking == AskedIffBlocked /\ OneAsked
AskInv == Asking /\ WorkedOn /\ Granted

LEMMA InitAsk == Init => AskInv
<1> SUFFICES ASSUME Init PROVE AskInv
  OBVIOUS
<1>1. /\ \A a \in Action : action[a] = "absent" /\ approval[a] = "none" /\ effects[a] = 0
      /\ late = {} /\ task = "queued"
      /\ \A w \in Worker : worker[w].pc = "idle" /\ worker[w].act = NoAction
  BY DEF Init, Idle
<1>2. Asking
  BY <1>1 DEF Asking, AskedIffBlocked, OneAsked
<1>3. WorkedOn
  BY <1>1, TaskAssumption DEF WorkedOn
<1>4. Granted
  <2>1. \A a \in Action : ~Reached(a)
    BY <1>1 DEF Reached, Executing
  <2> QED BY <1>1, <2>1, TaskAssumption DEF Granted, Released
<1> QED BY <1>2, <1>3, <1>4 DEF AskInv

\* What a step does to an action, where no approval is involved.
Follows(a) ==
    /\ action'[a] \in {"absent", "awaiting"} => action'[a] = action[a]
    /\ action[a] = "awaiting" => action'[a] = "awaiting"
    /\ action'[a] \in Released => action[a] \in Released \/ (a \notin Risky /\ action[a] = "absent")
    /\ action'[a] = "ready" => action[a] \in {"absent", "ready"}

Unasked ==
    /\ UNCHANGED approval /\ \A a \in Action : Follows(a)
    /\ task' = "blocked_approval" <=> task = "blocked_approval"

\* What a step does to the actions that are worked on or reached.
ActsKept ==
    /\ \A v \in Worker : worker'[v].act \in Action =>
          worker'[v].act = worker[v].act \/ action[worker'[v].act] = "ready"
    /\ \A a \in Action : Reached(a)' => Reached(a) \/ action[a] \in Released

LEMMA AskKept == ASSUME Shape, AskInv, Unasked, ActsKept PROVE AskInv'
<1>1. AskedIffBlocked'
  BY DEF AskInv, Asking, AskedIffBlocked, Unasked, Follows
<1>2. OneAsked'
  BY DEF AskInv, Asking, OneAsked, Unasked
<1>3. WorkedOn'
  BY DEF AskInv, WorkedOn, Unasked, Follows, ActsKept
<1>4. Granted'
  <2> SUFFICES ASSUME NEW a \in Risky
               PROVE  /\ action'[a] = "absent" => approval'[a] = "none"
                      /\ action'[a] \in Released \/ Reached(a)' => approval'[a] = "succeeded"
    BY DEF Granted
  <2>1. a \in Action /\ Follows(a) /\ approval'[a] = approval[a]
    BY TaskAssumption DEF Unasked
  <2>2. Reached(a)' => Reached(a) \/ action[a] \in Released
    BY <2>1 DEF ActsKept
  <2>3. /\ action[a] = "absent" => approval[a] = "none"
        /\ action[a] \in Released \/ Reached(a) => approval[a] = "succeeded"
    BY DEF AskInv, Granted
  <2> QED BY <2>1, <2>2, <2>3 DEF Follows
<1> QED BY <1>1, <1>2, <1>3, <1>4 DEF AskInv, Asking

LEMMA RetreatsKeepActs ==
    ASSUME Shape, Retreats, UNCHANGED effects,
           \A a \in late' : a \in late \/ Executing(a)
    PROVE  ActsKept
<1>1. \A v \in Worker : worker'[v].act \in Action => worker'[v].act = worker[v].act
  BY TaskAssumption DEF Retreats, Keeps, Leaves
<1>2. \A a \in Action : Executing(a)' => Executing(a)
  BY DEF Retreats, Keeps, Leaves, Executing, OnAction
<1>3. \A a \in Action : Reached(a)' => Reached(a)
  BY <1>2 DEF Reached
<1> QED BY <1>1, <1>3 DEF ActsKept

LEMMA FallsKeepActs == ASSUME Shape, NEW w \in Worker, Falls(w) PROVE ActsKept
<1>1. Retreats /\ UNCHANGED effects
  BY FallsShape, FallsBeside
<1>2. \A a \in late' : a \in late \/ Executing(a)
  BY FallsBeside DEF TimeOut, Executing
<1> QED BY <1>1, <1>2, RetreatsKeepActs

\* Nothing that has to do with approvals changes.
LEMMA AllSame ==
    ASSUME UNCHANGED <<action, approval>>,
           task' = task \/ (task # "blocked_approval" /\ task' # "blocked_approval")
    PROVE  Unasked
  BY DEF Unasked, Follows

LEMMA PlanAsks ==
    ASSUME Shape, AskInv, NEW w \in Worker, NEW a \in Action, NEW s \in {"failed", "ready"},
           action[a] = "absent", Plan(w, a, s), s = "ready" => a \notin Risky
    PROVE  Unasked
<1>1. /\ action' = [action EXCEPT ![a] = s] /\ UNCHANGED <<approval, task>>
      /\ action \in [Action -> ActionStatus]
  BY DEF Plan, SetAction, Shape
<1>2. ASSUME NEW b \in Action PROVE Follows(b)
  <2>1. CASE b = a
    BY <1>1, <2>1 DEF Follows, Released
  <2>2. CASE b # a
    BY <1>1, <2>2 DEF Follows
  <2> QED BY <2>1, <2>2
<1> QED BY <1>1, <1>2 DEF Unasked

\* The outcome of an action that is worked on.
LEMMA SettleAsks ==
    ASSUME Shape, AskInv, NEW w \in Worker, worker[w].act \in Action,
           NEW s \in {"dispatched", "unknown", "succeeded", "failed", "invalidated"},
           MayBecome(worker[w].act, s), SetAction(worker[w].act, s), UNCHANGED approval,
           task' = task \/ (task # "blocked_approval" /\ task' # "blocked_approval")
    PROVE  Unasked
<1> DEFINE a == worker[w].act
<1>1. /\ action' = [action EXCEPT ![a] = s] /\ action \in [Action -> ActionStatus]
      /\ a \in Action /\ action[a] \notin {"absent", "awaiting"}
  BY DEF SetAction, Shape, AskInv, WorkedOn
<1>2. s \in Released => action[a] \in Released
  <2>1. action[a] = s \/ (s \in ActionMoves[action[a]] /\ action[a] \in DOMAIN ActionMoves)
    BY DEF MayBecome
  <2>2. action[a] \in DOMAIN ActionMoves => action[a] \in {"ready", "dispatched", "unknown"}
    BY <1>1 DEF ActionMoves
  <2> QED BY <2>1, <2>2 DEF Released
<1> HIDE DEF a
<1>3. ASSUME NEW b \in Action PROVE Follows(b)
  <2>1. CASE b = a
    BY <1>1, <1>2, <2>1 DEF Follows
  <2>2. CASE b # a
    BY <1>1, <2>2 DEF Follows
  <2> QED BY <2>1, <2>2
<1> QED BY <1>3 DEF Unasked

LEMMA EndAsks ==
    ASSUME Shape, RunsInv, NEW w \in Worker, worker[w].pc \in At,
           \/ \E s \in {"blocked_node", "blocked_user"} : EndRun(w, s)
           \/ \E s \in {"succeeded", "partial", "failed"} : Complete(w, s)
           \/ NoticeCancel(w) \/ StepLimit(w)
    PROVE  Unasked
<1>1. CASE Conflict(w)
  BY <1>1, AllSame DEF Conflict, rows
<1>2. CASE ~Conflict(w)
  <2>1. MayFinish(worker[w].run, "completed") => task # "blocked_approval"
    BY OwnRunIsCurrent DEF Terminal
  <2>2. UNCHANGED <<action, approval>>
    BY <1>2 DEF EndRun, Complete, NoticeCancel, StepLimit
  <2>3. task' = task \/ (task # "blocked_approval" /\ task' # "blocked_approval")
    BY <1>2, <2>1 DEF EndRun, Complete, NoticeCancel, StepLimit, MoveTask
  <2> QED BY <2>2, <2>3, AllSame
<1> QED BY <1>1, <1>2

\* The one step that asks the user.
LEMMA AwaitAsks ==
    ASSUME Shape, Shape', RunsInv, AskInv, NEW w \in Worker, worker[w].pc = "model",
           Falls(w), NEW a \in Risky, action[a] = "absent", AwaitApproval(w, a)
    PROVE  AskInv'
<1>1. CASE Conflict(w)
  BY <1>1, AllSame, AskKept, FallsKeepActs DEF Conflict, rows
<1>2. CASE ~Conflict(w)
  <2>1. /\ MayFinish(worker[w].run, "completed") /\ a \in Action
        /\ action' = [action EXCEPT ![a] = "awaiting"]
        /\ approval' = [approval EXCEPT ![a] = "pending"]
        /\ task' = "blocked_approval"
    BY <1>2, TaskAssumption DEF AwaitApproval, SetAction, MoveTask
  <2>2. task # "blocked_approval" /\ \A b \in Action : approval[b] # "pending"
    <3>1. task # "blocked_approval"
      BY <2>1, OwnRunIsCurrent DEF At, Terminal
    <3> QED BY <3>1 DEF AskInv, Asking, AskedIffBlocked
  <2>3. /\ action'[a] = "awaiting" /\ \A b \in Action \ {a} : action'[b] = action[b]
        /\ approval'[a] = "pending" /\ \A b \in Action \ {a} : approval'[b] = approval[b]
    BY <2>1 DEF Shape
  <2>4. Asking'
    BY <2>1, <2>2, <2>3 DEF AskInv, Asking, AskedIffBlocked, OneAsked
  <2>5. ActsKept
    BY FallsKeepActs
  <2>6. WorkedOn'
    BY <2>3, <2>5 DEF AskInv, WorkedOn, ActsKept
  <2>7. Granted'
    <3> SUFFICES ASSUME NEW b \in Risky
                 PROVE  /\ action'[b] = "absent" => approval'[b] = "none"
                        /\ action'[b] \in Released \/ Reached(b)' => approval'[b] = "succeeded"
      BY DEF Granted
    <3>1. /\ b \in Action /\ (Reached(b)' => Reached(b) \/ action[b] \in Released)
          /\ action[b] = "absent" => approval[b] = "none"
          /\ action[b] \in Released \/ Reached(b) => approval[b] = "succeeded"
      BY <2>5, TaskAssumption DEF ActsKept, AskInv, Granted
    <3>2. CASE b = a
      BY <2>3, <3>1, <3>2 DEF Released
    <3>3. CASE b # a
      BY <2>3, <3>1, <3>3
    <3> QED BY <3>2, <3>3
  <2> QED BY <2>4, <2>6, <2>7 DEF AskInv
<1> QED BY <1>1, <1>2

LEMMA FallsKeepAsk ==
    ASSUME Shape, Shape', RunsInv, AskInv, NEW w \in Worker, Falls(w) PROVE AskInv'
<1>1. ActsKept
  BY FallsKeepActs
<1>2. ASSUME Unasked PROVE AskInv'
  BY <1>1, <1>2, AskKept
<1>3. CASE Claim(w) \/ ReadTask(w) \/ Stall(w) \/ Discover(w) \/ Return(w) \/ StartFails(w) \/ Crash(w)
  <2>1. UNCHANGED <<action, approval, task>>
    BY <1>3 DEF Claim, ReadTask, Stall, Discover, Return, StartFails, Crash, rows
  <2> QED BY <1>2, <2>1, AllSame
<1>4. CASE AskModel(w)
  <2>1. UNCHANGED <<action, approval, task>>
    BY <1>4 DEF AskModel, Renew, Conflict, rows
  <2> QED BY <1>2, <2>1, AllSame
<1>5. CASE OverBudget(w) \/ Finish(w)
  <2>1. worker[w].pc \in At /\ \E s \in {"succeeded", "partial", "failed"} : Complete(w, s)
    BY <1>5 DEF OverBudget, Finish, InLoop, At
  <2> QED BY <1>2, <2>1, EndAsks
<1>6. CASE NoCapability(w) \/ AskUser(w)
  <2>1. worker[w].pc \in At /\ \E s \in {"blocked_node", "blocked_user"} : EndRun(w, s)
    BY <1>6 DEF NoCapability, AskUser, MayStep, InLoop, At
  <2> QED BY <1>2, <2>1, EndAsks
<1>7. CASE NoticeCancel(w) \/ StepLimit(w)
  <2>1. worker[w].pc \in At
    BY <1>7 DEF NoticeCancel, StepLimit, MayStep, InLoop, At
  <2> QED BY <1>2, <1>7, <2>1, EndAsks
<1>8. CASE Unknown(w)
  <2>1. CASE Conflict(w)
    BY <1>2, <2>1, AllSame DEF Conflict, rows
  <2>2. CASE ~Conflict(w)
    <3>1. worker[w].pc \in At /\ worker[w].act \in Action
      BY <1>8, RunOf DEF Unknown, At, OnAction
    <3>2. /\ MayBecome(worker[w].act, "unknown") /\ SetAction(worker[w].act, "unknown")
          /\ UNCHANGED approval
          /\ task' = task \/ (task' = "reconciling" /\ MayFinish(worker[w].run, "completed"))
      BY <1>8, <2>2 DEF Unknown, MoveTask
    <3>3. task' = task \/ (task # "blocked_approval" /\ task' # "blocked_approval")
      BY <3>1, <3>2, OwnRunIsCurrent DEF Terminal
    <3> QED BY <1>2, <3>1, <3>2, <3>3, SettleAsks
  <2> QED BY <2>1, <2>2
<1>9. CASE Propose(w)
  <2>1. worker[w].pc \in At /\ worker[w].pc = "model"
    BY <1>9 DEF Propose, At
  <2>2. CASE Complete(w, "partial")
    BY <1>2, <2>1, <2>2, EndAsks
  <2>3. ASSUME NEW a \in Action, action[a] = "absent", NEW s \in {"failed", "ready"},
               Plan(w, a, s), s = "ready" => a \notin Risky
        PROVE  AskInv'
    BY <1>2, <2>3, PlanAsks
  <2>4. ASSUME NEW a \in Risky, action[a] = "absent", AwaitApproval(w, a) PROVE AskInv'
    BY <2>1, <2>4, AwaitAsks
  <2> QED BY <1>9, <2>2, <2>3, <2>4, ProposeCases
<1>10. CASE Succeed(w) \/ Refuse(w) \/ TimeOut(w)
  <2>1. PICK s \in {"succeeded", "failed", "invalidated"} : Settle(w, s)
    BY <1>10 DEF Succeed, Refuse, TimeOut
  <2>2. worker[w].act \in Action
    BY <1>10, RunOf DEF Succeed, Refuse, TimeOut, At, OnAction
  <2>3. CASE Conflict(w)
    BY <1>2, <2>3, AllSame DEF Conflict, rows
  <2>4. CASE ~Conflict(w)
    <3>1. /\ MayBecome(worker[w].act, s) /\ SetAction(worker[w].act, s)
          /\ UNCHANGED <<approval, task>>
      BY <2>1, <2>4 DEF Settle
    <3> QED BY <1>2, <2>2, <3>1, SettleAsks
  <2> QED BY <2>3, <2>4
<1>11. CASE Fail(w)
  <2>1. Rescue(w)
    BY <1>11 DEF Fail
  <2>2. /\ UNCHANGED <<action, approval>>
        /\ task' = task \/ (task = "running" /\ task' = "queued")
    BY <2>1 DEF Rescue, MoveTask
  <2> QED BY <1>2, <2>2, AllSame
<1> QED BY <1>3, <1>4, <1>5, <1>6, <1>7, <1>8, <1>9, <1>10, <1>11 DEF Falls

\* A question is answered: by the user, or because its time is over.
LEMMA AnswerAsks ==
    ASSUME Shape, AskInv, NEW a \in Action, Waiting(a), UNCHANGED <<worker, effects, late>>,
           task' # "blocked_approval",
           NEW d \in {"succeeded", "denied", "failed"},
           approval' = [approval EXCEPT ![a] = d],
           NEW s \in {"ready", "cancelled", "invalidated"}, SetAction(a, s),
           s = "ready" => d = "succeeded"
    PROVE  AskInv'
<1>1. /\ action'[a] = s /\ \A b \in Action \ {a} : action'[b] = action[b]
      /\ approval'[a] = d /\ \A b \in Action \ {a} : approval'[b] = approval[b]
  BY DEF SetAction, Shape
<1>2. /\ approval[a] = "pending" /\ \A b \in Action \ {a} : approval[b] # "pending"
      /\ action[a] = "awaiting" /\ \A b \in Action \ {a} : action[b] # "awaiting"
  BY DEF AskInv, Asking, AskedIffBlocked, OneAsked, Waiting
<1>3. Asking'
  BY <1>1, <1>2 DEF Asking, AskedIffBlocked, OneAsked
<1>4. WorkedOn'
  BY <1>1, <1>2 DEF AskInv, WorkedOn
<1>5. Granted'
  <2> SUFFICES ASSUME NEW b \in Risky
               PROVE  /\ action'[b] = "absent" => approval'[b] = "none"
                      /\ action'[b] \in Released \/ Reached(b)' => approval'[b] = "succeeded"
    BY DEF Granted
  <2>1. /\ b \in Action /\ (Reached(b)' <=> Reached(b))
        /\ action[b] = "absent" => approval[b] = "none"
        /\ action[b] \in Released \/ Reached(b) => approval[b] = "succeeded"
    BY TaskAssumption DEF AskInv, Granted, Reached, Executing
  <2>2. CASE b = a
    <3>1. ~Reached(a)
      BY <1>2, <2>1, <2>2
    <3> QED BY <1>1, <2>1, <2>2, <3>1 DEF Released
  <2>3. CASE b # a
    BY <1>1, <2>1, <2>3
  <2> QED BY <2>2, <2>3
<1> QED BY <1>3, <1>4, <1>5 DEF AskInv

LEMMA CancelAsks ==
    ASSUME Shape, AskInv, UNCHANGED <<worker, effects, late>>, NEW seen, CancelTask(seen)
    PROVE  AskInv'
<1>1. /\ task' = "cancelled"
      /\ \A a \in Action :
            /\ action'[a] = IF action[a] \in {"awaiting", "ready"} THEN "cancelled" ELSE action[a]
            /\ approval'[a] = IF approval[a] = "pending" THEN "denied" ELSE approval[a]
  BY DEF CancelTask, MoveTask
<1>2. Asking'
  BY <1>1 DEF AskInv, Asking, AskedIffBlocked, OneAsked
<1>3. WorkedOn'
  BY <1>1 DEF AskInv, WorkedOn
<1>4. Granted'
  <2> SUFFICES ASSUME NEW b \in Risky
               PROVE  /\ action'[b] = "absent" => approval'[b] = "none"
                      /\ action'[b] \in Released \/ Reached(b)' => approval'[b] = "succeeded"
    BY DEF Granted
  <2>1. /\ b \in Action /\ (Reached(b)' <=> Reached(b))
        /\ action[b] = "absent" => approval[b] = "none"
        /\ action[b] \in Released \/ Reached(b) => approval[b] = "succeeded"
    BY TaskAssumption DEF AskInv, Granted, Reached, Executing
  <2> QED BY <1>1, <2>1 DEF Released
<1> QED BY <1>2, <1>3, <1>4 DEF AskInv

LEMMA RecoverAsks == ASSUME Shape, AskInv, Recover PROVE Unasked
<1>1. task = "running" /\ task' # "blocked_approval" /\ UNCHANGED approval
  BY DEF Recover, MoveTask
<1>2. ASSUME NEW b \in Action PROVE Follows(b)
  <2>1. action' = action \/ \E a \in Action : action[a] \in InFlight /\ action' = [action EXCEPT ![a] = "unknown"]
    BY DEF Recover, SetAction
  <2>2. action'[b] = action[b] \/ (action[b] \in InFlight /\ action'[b] = "unknown")
    BY <2>1 DEF Shape
  <2> QED BY <2>2 DEF Follows, InFlight, Released
<1> QED BY <1>1, <1>2 DEF Unasked

LEMMA JournalAsks == ASSUME Shape, AskInv, NEW a \in Action, JournalTells(a) PROVE Unasked
<1>1. /\ UNCHANGED approval
      /\ task' = task \/ (task # "blocked_approval" /\ task' # "blocked_approval")
  BY DEF JournalTells, MoveTask
<1>2. /\ action[a] = "unknown" /\ action'[a] \in {"succeeded", "failed"}
      /\ \A b \in Action \ {a} : action'[b] = action[b]
  BY DEF JournalTells, SetAction, Shape
<1>3. ASSUME NEW b \in Action PROVE Follows(b)
  <2>1. CASE b = a
    BY <1>2, <2>1 DEF Follows, Released
  <2>2. CASE b # a
    BY <1>2, <2>2 DEF Follows
  <2> QED BY <2>1, <2>2
<1> QED BY <1>1, <1>3 DEF Unasked

LEMMA ApartKeepsAsk ==
    ASSUME ~StaleReads, Shape, AskInv, Apart PROVE AskInv'
<1>1. worker' = worker
  BY ApartShape
<1>2. ASSUME UNCHANGED <<effects, late>>, Unasked PROVE AskInv'
  <2>1. ActsKept
    BY <1>1, <1>2 DEF ActsKept, Reached, Executing
  <2> QED BY <1>2, <2>1, AskKept
<1>3. ASSUME NEW r \in Run, LeaseExpires(r) PROVE AskInv'
  BY <1>2, <1>3, AllSame DEF LeaseExpires, world
<1>4. CASE WakeUp \/ ToolReads \/ EventWakes
  <2>1. /\ UNCHANGED <<action, approval, effects, late>>
        /\ task' = task \/ (task # "blocked_approval" /\ task' # "blocked_approval")
    BY <1>4 DEF WakeUp, ToolReads, EventWakes, rows, world, MoveTask
  <2> QED BY <1>2, <2>1, AllSame
<1>5. CASE Recover
  BY <1>2, <1>5, RecoverAsks DEF Recover, world
<1>6. ASSUME NEW a \in Action, ExpireDue(a) PROVE AskInv'
  <2>1. Waiting(a) /\ UNCHANGED <<effects, late>> /\ Expire(a)
    BY <1>6 DEF ExpireDue, AskInv, Asking, AskedIffBlocked, Waiting, world
  <2> QED BY <1>1, <2>1, AnswerAsks DEF Expire, MoveTask
<1>7. ASSUME NEW a \in Action, Deny(a) PROVE AskInv'
  BY <1>1, <1>7, AnswerAsks DEF Deny, MoveTask, world
<1>8. ASSUME NEW a \in Action, Approve(a) PROVE AskInv'
  <2>1. /\ Waiting(a) /\ task' = "queued" /\ UNCHANGED <<effects, late>>
        /\ \/ approval' = [approval EXCEPT ![a] = "succeeded"] /\ SetAction(a, "ready")
           \/ approval' = [approval EXCEPT ![a] = "failed"] /\ SetAction(a, "invalidated")
    BY <1>8 DEF Approve, Expire, MoveTask, world
  <2> QED BY <1>1, <2>1, AnswerAsks
<1>9. ASSUME NEW a \in Action, ApprovalDue(a) \/ JournalTells(a) PROVE AskInv'
  <2>1. UNCHANGED <<effects, late>>
    BY <1>9 DEF ApprovalDue, JournalTells, world
  <2>2. Unasked
    BY <1>9, JournalAsks, AllSame DEF ApprovalDue
  <2> QED BY <1>2, <2>1, <2>2
<1>10. ASSUME NEW a \in Action, LateEffect(a) PROVE AskInv'
  <2>1. /\ UNCHANGED <<action, approval, task>> /\ a \in late /\ late' \subseteq late
        /\ \A b \in Action \ {a} : effects'[b] = effects[b]
    BY <1>10 DEF LateEffect, rows, Shape
  <2>2. ActsKept
    BY <1>1, <2>1 DEF ActsKept, Reached, Executing
  <2> QED BY <2>1, <2>2, AllSame, AskKept
<1>11. ASSUME UNCHANGED <<effects, late>>, CancelTask(task) \/ SendInput(task) PROVE AskInv'
  <2>1. CASE CancelTask(task)
    BY <1>1, <1>11, <2>1, CancelAsks
  <2>2. CASE SendInput(task)
    <3>1. /\ UNCHANGED <<action, approval>>
          /\ task' = task \/ (task # "blocked_approval" /\ task' # "blocked_approval")
      BY <2>2 DEF SendInput, MoveTask
    <3> QED BY <1>2, <1>11, <3>1, AllSame
  <2> QED BY <1>11, <2>1, <2>2
<1>12. CASE UserActs \/ ToolActs
  <2>1. UNCHANGED <<effects, late>>
    BY <1>12 DEF UserActs, ToolActs, world
  <2>2. CancelTask(task) \/ SendInput(task) \/ UNCHANGED <<task, action, approval>>
    BY <1>12 DEF UserActs, ToolActs
  <2>3. CASE UNCHANGED <<task, action, approval>>
    BY <1>2, <2>1, <2>3, AllSame
  <2> QED BY <1>11, <2>1, <2>2, <2>3
<1> QED BY <1>3, <1>4, <1>5, <1>6, <1>7, <1>8, <1>9, <1>10, <1>12 DEF Apart, Scan

LEMMA AdvanceKeepsAsk ==
    ASSUME ~StaleReads, Shape, AskInv, NEW w \in Worker,
           Begins(w) \/ Takes(w) \/ Dispatches(w) \/ Affects(w) \/ GivesUp(w)
    PROVE  AskInv'
<1>1. CASE Begins(w)
  <2>1. task = "queued" /\ task' = "running" /\ UNCHANGED <<action, approval, effects, late>>
    BY <1>1 DEF Begins, Seen, MoveTask, world
  <2>2. ActsKept
    BY <1>1, <2>1 DEF Begins, ActsKept, Reached, Executing
  <2> QED BY <2>1, <2>2, AllSame, AskKept
<1>2. CASE Takes(w)
  <2>1. UNCHANGED <<task, action, approval, effects, late>>
    BY <1>2 DEF Takes, world
  <2>2. ActsKept
    BY <1>2, <2>1 DEF Takes, Moves, ActsKept, Reached, Executing
  <2> QED BY <2>1, <2>2, AllSame, AskKept
<1>3. CASE Dispatches(w)
  <2> DEFINE a == worker[w].act
  <2>1. /\ a \in Action /\ MayBecome(a, "dispatched") /\ SetAction(a, "dispatched")
        /\ UNCHANGED <<task, approval, effects, late>>
    BY <1>3, RunOf DEF Dispatches, At, OnAction, world
  <2>2. action[a] \in Released
    BY <2>1 DEF MayBecome, ActionMoves, Released, AskInv, WorkedOn
  <2>3. ActsKept
    BY <1>3, <2>1, <2>2 DEF Dispatches, Moves, ActsKept, Reached, Executing
  <2> QED BY <2>1, <2>3, SettleAsks, AskKept
<1>4. CASE Affects(w)
  <2> DEFINE a == worker[w].act
  <2>1. UNCHANGED <<task, action, approval, late>>
    BY <1>4 DEF Affects, rows
  <2>2. Executing(a) /\ \A b \in Action \ {a} : effects'[b] = effects[b]
    BY <1>4 DEF Affects, Executing, Shape
  <2>3. \A b \in Action \ {a} : Executing(b)' => Executing(b)
    BY <1>4 DEF Affects, Moves, Executing
  <2>4. \A b \in Action : Reached(b)' => Reached(b)
    BY <2>1, <2>2, <2>3 DEF Reached
  <2>5. ActsKept
    BY <1>4, <2>4 DEF ActsKept, Affects, Moves
  <2> QED BY <2>1, <2>5, AllSame, AskKept
<1>5. CASE GivesUp(w)
  <2>1. /\ Retreats /\ UNCHANGED <<task, approval, effects, late>>
    BY <1>5 DEF GivesUp, world
  <2>2. ActsKept
    BY <2>1, RetreatsKeepActs
  <2>3. CASE UNCHANGED action
    BY <2>1, <2>2, <2>3, AllSame, AskKept
  <2>4. CASE /\ worker[w].pc = "fenced" /\ MayBecome(worker[w].act, "invalidated")
             /\ SetAction(worker[w].act, "invalidated")
    <3>1. worker[w].act \in Action
      BY <2>4, RunOf DEF At, OnAction
    <3> QED BY <2>1, <2>2, <2>4, <3>1, SettleAsks, AskKept
  <2> QED BY <1>5, <2>3, <2>4 DEF GivesUp
<1> QED BY <1>1, <1>2, <1>3, <1>4, <1>5

LEMMA StepAsk ==
    ASSUME ~StaleReads, Shape, RunsInv, AskInv, [Next]_trVars PROVE AskInv'
<1>1. CASE UNCHANGED trVars
  BY <1>1 DEF AskInv, Asking, AskedIffBlocked, OneAsked, WorkedOn, Granted, Reached, Executing,
              trVars, rows, world
<1>2. CASE Apart
  BY <1>2, ApartKeepsAsk
<1>3. ASSUME NEW w \in Worker, Falls(w) PROVE AskInv'
  BY <1>3, StepShape, FallsKeepAsk
<1>4. ASSUME NEW w \in Worker,
             Begins(w) \/ Takes(w) \/ Dispatches(w) \/ Affects(w) \/ GivesUp(w)
      PROVE  AskInv'
  BY <1>4, AdvanceKeepsAsk
<1> QED BY <1>1, <1>2, <1>3, <1>4, StepCases

RTAskInv == RTInv /\ AskInv

LEMMA RTAskInvInit == Init => RTAskInv
  BY InitShape, InitRuns, InitAsk DEF RTAskInv, RTInv

LEMMA RTAskInvStep == ASSUME ~StaleReads, RTAskInv, [Next]_trVars PROVE RTAskInv'
  BY StepShape, StepRuns, StepAsk DEF RTAskInv, RTInv

\* The task is blocked_approval exactly while the user is asked, about an action
\* that waits for the answer: no step of a worker, the scanner, the user or the
\* agent leaves the one without the other.
THEOREM AskedIffBlockedCorrect == ASSUME ~StaleReads PROVE Spec => []AskedIffBlocked
<1>1. RTAskInv => AskedIffBlocked
  BY DEF RTAskInv, AskInv, Asking
<1> QED BY <1>1, RTAskInvInit, RTAskInvStep, PTL DEF Spec

\* What needs an approval is carried out only after it was given, whatever
\* expires, is cancelled, or is delivered and executed again meanwhile.
THEOREM ApprovedFirstCorrect == ASSUME ~StaleReads PROVE Spec => []ApprovedFirst
<1>1. RTAskInv => ApprovedFirst
  BY DEF RTAskInv, AskInv, Granted, Reached, ApprovedFirst
<1> QED BY <1>1, RTAskInvInit, RTAskInvStep, PTL DEF Spec
-------------------------------------------------------------------------------
(***************************************************************************)
(* Effects.  What is not dispatched yet has not been touched (Unused), and  *)
(* what a worker is about to dispatch neither, as its run is still the      *)
(* current one (FenceHolds): so no second worker can be at the same point,  *)
(* and from the dispatch on the status of the action keeps everybody out.   *)
(***************************************************************************)
Fresh == {"absent", "awaiting", "ready"}
OnIt(w, a) == worker[w].pc = "exec" /\ worker[w].act = a
Untouched(a) == effects[a] = 0 /\ a \notin late /\ \A w \in Worker : ~OnIt(w, a)

Unused == \A a \in Action : action[a] \in Fresh => Untouched(a)
FenceHolds ==
    \A w \in Worker : worker[w].pc = "fenced" =>
        worker[w].run = current /\ Untouched(worker[w].act)
OneOnIt ==
    \A a \in Action, w \in Worker : OnIt(w, a) =>
        /\ effects[a] = 0 /\ a \notin late
        /\ \A v \in Worker : OnIt(v, a) => v = w
LateIsUndone == \A a \in late : effects[a] = 0
Once == \A a \in Action : effects[a] <= 1

ExecInv == Unused /\ FenceHolds /\ OneOnIt /\ LateIsUndone /\ Once

LEMMA InitExec == Init => ExecInv
<1> SUFFICES ASSUME Init PROVE ExecInv
  OBVIOUS
<1>1. /\ \A a \in Action : effects[a] = 0
      /\ late = {} /\ \A w \in Worker : worker[w].pc = "idle"
  BY DEF Init, Idle
<1>2. Unused /\ FenceHolds /\ OneOnIt /\ LateIsUndone
  BY <1>1 DEF Unused, FenceHolds, OneOnIt, LateIsUndone, Untouched, OnIt
<1>3. Once
  BY <1>1 DEF Once
<1> QED BY <1>2, <1>3 DEF ExecInv

\* Nothing becomes fresh again.
Ages == \A a \in Action : action'[a] \in Fresh => action[a] \in Fresh

LEMMA SetAges ==
    ASSUME Shape, NEW a \in Action, NEW s, SetAction(a, s), s \notin Fresh \/ action[a] \in Fresh
    PROVE  Ages
<1>1. /\ action'[a] = s /\ \A b \in Action \ {a} : action'[b] = action[b]
  BY DEF SetAction, Shape
<1> QED BY <1>1 DEF Ages

LEMMA FallsAge == ASSUME Shape, NEW w \in Worker, Falls(w) PROVE Ages
<1>1. ASSUME UNCHANGED action PROVE Ages
  BY <1>1 DEF Ages
<1>2. CASE Claim(w) \/ ReadTask(w) \/ Stall(w) \/ Discover(w) \/ Return(w) \/ StartFails(w) \/ Crash(w)
  BY <1>1, <1>2 DEF Claim, ReadTask, Stall, Discover, Return, StartFails, Crash, rows
<1>3. CASE \/ AskModel(w) \/ OverBudget(w) \/ Finish(w) \/ NoCapability(w) \/ AskUser(w)
           \/ NoticeCancel(w) \/ StepLimit(w)
  BY <1>1, <1>3 DEF AskModel, OverBudget, Finish, NoCapability, AskUser, NoticeCancel, StepLimit,
                    Renew, Complete, EndRun, Conflict, rows
<1>4. CASE Unknown(w)
  <2>1. worker[w].act \in Action
    BY <1>4, RunOf DEF Unknown, At, OnAction
  <2>2. UNCHANGED action \/ SetAction(worker[w].act, "unknown")
    BY <1>4 DEF Unknown, Conflict, rows
  <2> QED BY <1>1, <2>1, <2>2, SetAges DEF Fresh
<1>5. CASE Propose(w)
  <2>1. ASSUME NEW a \in Action, action[a] = "absent", NEW s, Plan(w, a, s) PROVE Ages
    BY <2>1, SetAges DEF Plan, Fresh
  <2>2. ASSUME NEW a \in Action, action[a] = "absent", AwaitApproval(w, a) PROVE Ages
    BY <1>1, <2>2, SetAges DEF AwaitApproval, Conflict, rows, Fresh
  <2>3. CASE Complete(w, "partial")
    BY <1>1, <2>3 DEF Complete, Conflict, rows
  <2> QED BY <1>5, <2>1, <2>2, <2>3, ProposeCases
<1>6. CASE Succeed(w) \/ Refuse(w) \/ TimeOut(w)
  <2>1. worker[w].act \in Action
    BY <1>6, RunOf DEF Succeed, Refuse, TimeOut, At, OnAction
  <2>2. PICK s \in {"succeeded", "failed", "invalidated"} : Settle(w, s)
    BY <1>6 DEF Succeed, Refuse, TimeOut
  <2>3. UNCHANGED action \/ SetAction(worker[w].act, s)
    BY <2>2 DEF Settle, Conflict, rows
  <2> QED BY <1>1, <2>1, <2>2, <2>3, SetAges DEF Fresh
<1>7. CASE Fail(w)
  BY <1>1, <1>7 DEF Fail, Rescue
<1> QED BY <1>2, <1>3, <1>4, <1>5, <1>6, <1>7 DEF Falls

LEMMA ApartAges == ASSUME Shape, Apart PROVE Ages
<1>1. ASSUME UNCHANGED action PROVE Ages
  BY <1>1 DEF Ages
<1>2. ASSUME NEW seen, CancelTask(seen) \/ SendInput(seen) PROVE Ages
  BY <1>2 DEF CancelTask, SendInput, Ages, Fresh
<1>3. CASE Recover
  <2>1. UNCHANGED action \/ \E a \in Action : SetAction(a, "unknown")
    BY <1>3 DEF Recover
  <2> QED BY <1>1, <2>1, SetAges DEF Fresh
<1>4. ASSUME NEW a \in Action, ExpireDue(a) \/ Deny(a) \/ Approve(a) \/ JournalTells(a) PROVE Ages
  <2>1. \/ UNCHANGED action
        \/ action[a] = "awaiting" /\ \E s : SetAction(a, s)
        \/ \E s \in {"succeeded", "failed"} : SetAction(a, s)
    BY <1>4 DEF ExpireDue, Expire, Deny, Approve, Waiting, JournalTells
  <2> QED BY <1>1, <2>1, SetAges DEF Fresh
<1>5. CASE UserActs \/ ToolActs
  BY <1>1, <1>2, <1>5 DEF UserActs, ToolActs
<1>6. CASE WakeUp \/ ToolReads \/ EventWakes
  BY <1>1, <1>6 DEF WakeUp, ToolReads, EventWakes, rows
<1>7. ASSUME NEW r \in Run, LeaseExpires(r) PROVE Ages
  BY <1>1, <1>7 DEF LeaseExpires
<1>8. ASSUME NEW a \in Action, ApprovalDue(a) \/ LateEffect(a) PROVE Ages
  BY <1>1, <1>8 DEF ApprovalDue, LateEffect, rows
<1> QED BY <1>3, <1>4, <1>5, <1>6, <1>7, <1>8 DEF Apart, Scan

\* Nobody gets nearer to an action, and nothing is done.
LEMMA ExecKept ==
    ASSUME Shape, ExecInv, Ages, UNCHANGED <<current, effects, late>>,
           \A v \in Worker : Keeps(v) \/ worker'[v].pc \notin OnAction
    PROVE  ExecInv'
<1>1. \A v \in Worker : \A a : OnIt(v, a)' => OnIt(v, a)
  BY DEF OnIt, Keeps, OnAction
<1>2. \A a : Untouched(a) => Untouched(a)'
  BY <1>1 DEF Untouched
<1>3. Unused'
  BY <1>2 DEF ExecInv, Unused, Ages
<1>4. FenceHolds'
  BY <1>2 DEF ExecInv, FenceHolds, Keeps, OnAction
<1>5. OneOnIt'
  BY <1>1 DEF ExecInv, OneOnIt
<1>6. LateIsUndone' /\ Once'
  BY DEF ExecInv, LateIsUndone, Once
<1> QED BY <1>3, <1>4, <1>5, <1>6 DEF ExecInv

LEMMA TimeOutKeepsExec ==
    ASSUME Shape, ExecInv, NEW w \in Worker, TimeOut(w), NEW a \in Action, a = worker[w].act
    PROVE  ExecInv'
<1>1. /\ OnIt(w, a) /\ late' = late \cup {a} /\ UNCHANGED effects
      /\ worker[w].pc \in Inner
  BY DEF TimeOut, OnIt, Inner
<1>2. /\ Retreats /\ worker'[w].pc \notin Inner /\ UNCHANGED current
      /\ \A v \in Worker \ {w} : worker'[v] = worker[v]
  BY <1>1, SettleShape DEF TimeOut, ActionStatus
<1>3. Ages
  BY FallsAge DEF Falls
<1>4. effects[a] = 0 /\ action[a] \notin Fresh /\ \A v \in Worker : OnIt(v, a) => v = w
  BY <1>1 DEF ExecInv, OneOnIt, Unused, Untouched
<1>5. /\ \A v \in Worker : \A b : OnIt(v, b)' => OnIt(v, b)
      /\ \A v \in Worker : ~OnIt(v, a)'
  <2>1. \A v \in Worker : \A b : OnIt(v, b)' => OnIt(v, b)
    <3> SUFFICES ASSUME NEW v \in Worker, NEW b, OnIt(v, b)' PROVE OnIt(v, b)
      OBVIOUS
    <3>1. v # w
      BY <1>2 DEF OnIt, Inner
    <3> QED BY <1>2, <3>1 DEF OnIt
  <2>2. ~OnIt(w, a)'
    BY <1>2 DEF OnIt, Inner
  <2> QED BY <1>4, <2>1, <2>2
<1>6. \A b : Untouched(b) => Untouched(b)' /\ b # a
  BY <1>1, <1>5 DEF Untouched
<1>7. Unused'
  BY <1>3, <1>6 DEF ExecInv, Unused, Ages
<1>8. FenceHolds'
  BY <1>2, <1>6 DEF ExecInv, FenceHolds, Inner
<1>9. OneOnIt'
  <2> SUFFICES ASSUME NEW b \in Action, NEW v \in Worker, OnIt(v, b)'
               PROVE  /\ effects'[b] = 0 /\ b \notin late'
                      /\ \A u \in Worker : OnIt(u, b)' => u = v
    BY DEF OneOnIt
  <2>1. OnIt(v, b) /\ b # a
    BY <1>5
  <2>2. /\ effects[b] = 0 /\ b \notin late
        /\ \A u \in Worker : OnIt(u, b) => u = v
    BY <2>1 DEF ExecInv, OneOnIt
  <2> QED BY <1>1, <1>5, <2>1, <2>2
<1>10. LateIsUndone' /\ Once'
  BY <1>1, <1>4 DEF ExecInv, LateIsUndone, Once
<1> QED BY <1>7, <1>8, <1>9, <1>10 DEF ExecInv

LEMMA LateEffectKeepsExec ==
    ASSUME Shape, ExecInv, NEW a \in Action, LateEffect(a) PROVE ExecInv'
<1>1. /\ a \in late /\ late' = late \ {a} /\ UNCHANGED <<action, worker, current>>
      /\ effects' = [effects EXCEPT ![a] = effects[a] + 1]
  BY DEF LateEffect, rows
<1>2. effects[a] = 0 /\ effects'[a] = 1 /\ \A b \in Action \ {a} : effects'[b] = effects[b]
  BY <1>1 DEF ExecInv, LateIsUndone, Shape
<1>3. \A b : ~Untouched(b) \/ b # a
  BY <1>1 DEF Untouched
<1>4. \A b \in Action : Untouched(b) => Untouched(b)'
  BY <1>1, <1>2, <1>3 DEF Untouched, OnIt
<1>5. Unused'
  BY <1>1, <1>4 DEF ExecInv, Unused
<1>6. FenceHolds'
  <2>1. \A w \in Worker : worker[w].pc = "fenced" => worker[w].act \in Action
    BY RunOf DEF At, OnAction
  <2> QED BY <1>1, <1>4, <2>1 DEF ExecInv, FenceHolds
<1>7. OneOnIt'
  <2>1. \A w \in Worker : ~OnIt(w, a)
    BY <1>1 DEF ExecInv, OneOnIt
  <2> QED BY <1>1, <1>2, <2>1 DEF ExecInv, OneOnIt, OnIt
<1>8. LateIsUndone' /\ Once'
  <2>1. late \subseteq Action
    BY DEF Shape
  <2> QED BY <1>1, <1>2, <2>1 DEF ExecInv, LateIsUndone, Once
<1> QED BY <1>5, <1>6, <1>7, <1>8 DEF ExecInv

LEMMA BeginsKeepsExec ==
    ASSUME ~SlowDispatch, Shape, ExecInv, NEW w \in Worker, Begins(w) PROVE ExecInv'
<1>1. /\ UNCHANGED <<action, effects, late>> /\ worker'[w].pc = "loop"
      /\ \A v \in Worker \ {w} : worker'[v] = worker[v]
      /\ \A v \in Worker : worker[v].pc # "fenced"
  BY DEF Begins, world
<1>2. \A v \in Worker : \A a : OnIt(v, a)' => OnIt(v, a)
  BY <1>1 DEF OnIt
<1>3. \A a : Untouched(a) => Untouched(a)'
  BY <1>1, <1>2 DEF Untouched
<1>4. Unused' /\ OneOnIt'
  BY <1>1, <1>2, <1>3 DEF ExecInv, Unused, OneOnIt
<1>5. FenceHolds'
  BY <1>1 DEF FenceHolds
<1>6. LateIsUndone' /\ Once'
  BY <1>1 DEF ExecInv, LateIsUndone, Once
<1> QED BY <1>4, <1>5, <1>6 DEF ExecInv

LEMMA TakesKeepsExec ==
    ASSUME Shape, RunsInv, ExecInv, NEW w \in Worker, Takes(w) PROVE ExecInv'
<1>1. /\ UNCHANGED <<action, effects, late, current>> /\ worker'[w].pc = "fenced"
      /\ worker'[w].run = worker[w].run
      /\ \A v \in Worker \ {w} : worker'[v] = worker[v]
      /\ run[worker[w].run] = "running" /\ worker[w].pc \in At
      /\ worker'[w].act \in Action /\ action[worker'[w].act] = "ready"
  BY DEF Takes, Moves, world, MayStep, InLoop, At
<1>2. worker[w].run = current /\ Untouched(worker'[w].act)
  <2>1. worker[w].run \in Run
    BY <1>1, RunOf
  <2> QED BY <1>1, <2>1 DEF RunsInv, OnlyCurrentRuns, ExecInv, Unused, Fresh
<1>3. \A v \in Worker : \A a : OnIt(v, a)' => OnIt(v, a)
  BY <1>1 DEF OnIt
<1>4. \A a : Untouched(a) => Untouched(a)'
  BY <1>1, <1>3 DEF Untouched
<1>5. Unused' /\ OneOnIt'
  BY <1>1, <1>3, <1>4 DEF ExecInv, Unused, OneOnIt
<1>6. FenceHolds'
  BY <1>1, <1>2, <1>4 DEF ExecInv, FenceHolds
<1>7. LateIsUndone' /\ Once'
  BY <1>1 DEF ExecInv, LateIsUndone, Once
<1> QED BY <1>5, <1>6, <1>7 DEF ExecInv

LEMMA DispatchKeepsExec ==
    ASSUME Shape, RunsInv, ExecInv, NEW w \in Worker, Dispatches(w) PROVE ExecInv'
<1> DEFINE a == worker[w].act
<1>1. /\ UNCHANGED <<effects, late, current>> /\ worker[w].pc = "fenced"
      /\ worker'[w].pc = "exec" /\ worker'[w].act = a /\ a \in Action
      /\ \A v \in Worker \ {w} : worker'[v] = worker[v]
      /\ action'[a] = "dispatched" /\ \A b \in Action \ {a} : action'[b] = action[b]
  BY RunOf DEF Dispatches, Moves, world, At, OnAction, SetAction, Shape
<1>2. Untouched(a)
  BY <1>1 DEF ExecInv, FenceHolds
<1>3. \A v \in Worker : worker[v].pc = "fenced" => v = w
  BY <1>1 DEF ExecInv, FenceHolds, RunsInv, RunOfItsOwn, At
<1> HIDE DEF a
<1>4. \A v \in Worker : \A b : OnIt(v, b)' <=> OnIt(v, b) \/ (v = w /\ b = a)
  BY <1>1 DEF OnIt
<1>5. \A b : b # a /\ Untouched(b) => Untouched(b)'
  BY <1>1, <1>4 DEF Untouched
<1>6. Unused'
  BY <1>1, <1>5 DEF ExecInv, Unused, Fresh
<1>7. FenceHolds'
  BY <1>1, <1>3 DEF FenceHolds
<1>8. OneOnIt'
  BY <1>1, <1>2, <1>4 DEF ExecInv, OneOnIt, Untouched
<1>9. LateIsUndone' /\ Once'
  BY <1>1 DEF ExecInv, LateIsUndone, Once
<1> QED BY <1>6, <1>7, <1>8, <1>9 DEF ExecInv

LEMMA AffectKeepsExec ==
    ASSUME Shape, ExecInv, NEW w \in Worker, Affects(w), NEW a \in Action, a = worker[w].act
    PROVE  ExecInv'
<1>1. /\ UNCHANGED <<action, late, current>> /\ worker[w].pc = "exec"
      /\ worker'[w].pc = "done"
      /\ \A v \in Worker \ {w} : worker'[v] = worker[v]
      /\ effects' = [effects EXCEPT ![a] = effects[a] + 1]
  BY DEF Affects, Moves, rows
<1>2. OnIt(w, a) /\ effects[a] = 0 /\ a \notin late /\ \A v \in Worker : OnIt(v, a) => v = w
  BY <1>1 DEF ExecInv, OneOnIt, OnIt
<1>3. effects'[a] = 1 /\ \A b \in Action \ {a} : effects'[b] = effects[b]
  BY <1>1, <1>2 DEF Shape
<1>4. /\ \A v \in Worker : \A b : OnIt(v, b)' => OnIt(v, b)
      /\ \A v \in Worker : ~OnIt(v, a)'
  <2>1. \A v \in Worker : \A b : OnIt(v, b)' => OnIt(v, b)
    <3> SUFFICES ASSUME NEW v \in Worker, NEW b, OnIt(v, b)' PROVE OnIt(v, b)
      OBVIOUS
    <3>1. v # w
      BY <1>1 DEF OnIt
    <3> QED BY <1>1, <3>1 DEF OnIt
  <2>2. ~OnIt(w, a)'
    BY <1>1 DEF OnIt
  <2> QED BY <1>2, <2>1, <2>2
<1>5. ~Untouched(a) /\ \A b \in Action : Untouched(b) => Untouched(b)'
  BY <1>1, <1>2, <1>3, <1>4 DEF Untouched
<1>6. Unused'
  BY <1>1, <1>5 DEF ExecInv, Unused
<1>7. FenceHolds'
  <2>1. \A v \in Worker : worker[v].pc = "fenced" => worker[v].act \in Action
    BY RunOf DEF At, OnAction
  <2> QED BY <1>1, <1>5, <2>1 DEF ExecInv, FenceHolds
<1>8. OneOnIt'
  <2> SUFFICES ASSUME NEW b \in Action, NEW v \in Worker, OnIt(v, b)'
               PROVE  /\ effects'[b] = 0 /\ b \notin late'
                      /\ \A u \in Worker : OnIt(u, b)' => u = v
    BY DEF OneOnIt
  <2>1. OnIt(v, b) /\ b # a
    BY <1>4
  <2>2. /\ effects[b] = 0 /\ b \notin late
        /\ \A u \in Worker : OnIt(u, b) => u = v
    BY <2>1 DEF ExecInv, OneOnIt
  <2> QED BY <1>1, <1>3, <1>4, <2>1, <2>2
<1>9. LateIsUndone' /\ Once'
  <2>1. late \subseteq Action
    BY DEF Shape
  <2> QED BY <1>1, <1>2, <1>3, <2>1 DEF ExecInv, LateIsUndone, Once
<1> QED BY <1>6, <1>7, <1>8, <1>9 DEF ExecInv

LEMMA StepExec ==
    ASSUME ~SlowDispatch, Shape, RunsInv, ExecInv, [Next]_trVars PROVE ExecInv'
<1>1. CASE UNCHANGED trVars
  BY <1>1, ExecKept DEF Ages, Keeps, trVars, rows, world
<1>2. CASE Apart
  <2>1. worker' = worker /\ Ages
    BY <1>2, ApartShape, ApartAges
  <2>2. ASSUME NEW a \in Action, LateEffect(a) PROVE ExecInv'
    BY <2>2, LateEffectKeepsExec
  <2>3. ASSUME UNCHANGED <<current, effects, late>> PROVE ExecInv'
    BY <2>1, <2>3, ExecKept DEF Keeps
  <2>4. UNCHANGED <<current, effects, late>> \/ \E a \in Action : LateEffect(a)
    BY <1>2 DEF Apart, Scan, LeaseExpires, Recover, WakeUp, ExpireDue, UserActs, ToolReads, ToolActs,
                EventWakes, ApprovalDue, Deny, Approve, JournalTells, rows, world
  <2> QED BY <2>2, <2>3, <2>4
<1>3. ASSUME NEW w \in Worker, Falls(w) PROVE ExecInv'
  <2>1. CASE TimeOut(w)
    <3>1. worker[w].act \in Action
      BY <2>1, RunOf DEF TimeOut, At, OnAction
    <3> QED BY <2>1, <3>1, TimeOutKeepsExec
  <2>2. CASE ~TimeOut(w)
    <3>1. UNCHANGED <<effects, late>> /\ Ages /\ Retreats
      BY <1>3, <2>2, FallsBeside, FallsAge, FallsShape
    <3>2. UNCHANGED current
      BY <1>3 DEF Falls, Claim, ReadTask, Stall, OverBudget, NoticeCancel, AskModel, StepLimit,
                  NoCapability, Discover, Finish, AskUser, Propose, Succeed, Refuse, TimeOut,
                  Unknown, Return, StartFails, Fail, Crash, Rescue, Renew, Complete, EndRun,
                  Plan, AwaitApproval, Settle, Conflict, rows
    <3> QED BY <3>1, <3>2, ExecKept DEF Retreats, Leaves
  <2> QED BY <2>1, <2>2
<1>4. ASSUME NEW w \in Worker, Begins(w) PROVE ExecInv'
  BY <1>4, BeginsKeepsExec
<1>5. ASSUME NEW w \in Worker, Takes(w) PROVE ExecInv'
  BY <1>5, TakesKeepsExec
<1>6. ASSUME NEW w \in Worker, Dispatches(w) PROVE ExecInv'
  BY <1>6, DispatchKeepsExec
<1>7. ASSUME NEW w \in Worker, Affects(w) PROVE ExecInv'
  <2>1. worker[w].act \in Action
    BY <1>7, RunOf DEF Affects, At, OnAction
  <2> QED BY <1>7, <2>1, AffectKeepsExec
<1>8. ASSUME NEW w \in Worker, GivesUp(w) PROVE ExecInv'
  <2>1. Retreats /\ UNCHANGED <<current, effects, late>>
    BY <1>8 DEF GivesUp, world
  <2>2. Ages
    <3>1. worker[w].pc = "fenced" => worker[w].act \in Action
      BY RunOf DEF At, OnAction
    <3>2. CASE UNCHANGED action
      BY <3>2 DEF Ages
    <3> QED BY <1>8, <3>1, <3>2, SetAges DEF GivesUp, Fresh
  <2> QED BY <2>1, <2>2, ExecKept DEF Retreats, Leaves
<1> QED BY <1>1, <1>2, <1>3, <1>4, <1>5, <1>6, <1>7, <1>8, StepCases

RTExecInv == RTInv /\ ExecInv

\* An action is carried out at most once, whatever crashes, stalls, times out,
\* loses its result or its lease, is cancelled, recovered or delivered again: as
\* long as no session decides on a stale object, and no other run starts between
\* the renewal of a lease and the dispatch that follows it.  TLC finds two
\* executions without the second condition: README, section 4, item 11.
THEOREM ExecutedOnceCorrect ==
    ASSUME ~StaleReads, ~SlowDispatch PROVE Spec => []ExecutedOnce
<1>1. Init => RTExecInv
  BY InitShape, InitRuns, InitExec DEF RTExecInv, RTInv
<1>2. RTExecInv /\ [Next]_trVars => RTExecInv'
  BY StepShape, StepRuns, StepExec DEF RTExecInv, RTInv
<1>3. RTExecInv => ExecutedOnce
  BY ShapeTypes DEF RTExecInv, RTInv, ExecInv, Once, ExecutedOnce
<1> QED BY <1>1, <1>2, <1>3, PTL DEF Spec
===============================================================================
