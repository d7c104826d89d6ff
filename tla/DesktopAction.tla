----------------------------- MODULE DesktopAction -----------------------------
(***************************************************************************)
(* The actions of one task on one desktop node: the dispatcher of the      *)
(* backend (task_runtime/runtime.py, desktop/connection_manager.py), the   *)
(* node with its journal (apps/desktop/src/node-host), the websocket       *)
(* between them and the reconciliation after a reconnect.                  *)
(*                                                                         *)
(* A message is handled when it is sent or it is lost with its connection; *)
(* only a request, and the answer to journal.query, are on the wire for a  *)
(* while.  What the dispatcher read before it waited for the node (the     *)
(* objects of its database session) is kept in disp.seen.                  *)
(***************************************************************************)
EXTENDS Naturals, FiniteSets

CONSTANTS Action,       \* agent_actions in the order of their sequence: numbers
          NoAction,
          MaxDrops,     \* bound: connections that break
          MaxCrashes    \* bound: crashes of the backend and of the node

ASSUME DesktopAssumption ==
    /\ Action \subseteq Nat /\ NoAction \notin Action
    /\ MaxDrops \in Nat /\ MaxCrashes \in Nat

VARIABLES action,       \* status of each action
          task, run,    \* status of the task; its run and who works on it
          receipt,      \* desktop_action_receipts
          disp,         \* the dispatcher and its _PendingDispatch
          link,         \* the websocket: "up", "half" (the node lost it), "down"
          wire, snap,   \* requests and journal.query entries on their way
          node, heard,  \* what the node does, and whether it can report it
          journal,      \* action-journal.json
          effects,      \* how often the node carried out each action
          drops, crashes

rows == <<action, task, run, receipt>>
channel == <<link, wire, snap>>
host == <<node, heard, journal, effects>>
daVars == <<rows, disp, channel, host, drops, crashes>>

Outstanding == {"dispatched", "running", "unknown"}

Idle == [pc |-> "loop", act |-> NoAction, seen |-> "none", reply |-> "none"]
NoAnswer == [a \in Action |-> "none"]

Init ==
    /\ action = [a \in Action |-> "absent"]
    /\ task = "queued" /\ run = "none"
    /\ receipt = [a \in Action |-> "none"]
    /\ disp = Idle
    /\ link = "up" /\ wire = {} /\ snap = NoAnswer
    /\ node = [a \in Action |-> "idle"]
    /\ heard = [a \in Action |-> FALSE]
    /\ journal = [a \in Action |-> "none"]
    /\ effects = [a \in Action |-> 0]
    /\ drops = 0 /\ crashes = 0
-------------------------------------------------------------------------------
(* state_machine.py: what ensure_transition lets an action do *)

Moves ==
    [dispatched |-> {"running", "succeeded", "failed", "unknown", "invalidated"},
     running    |-> {"succeeded", "failed", "unknown"},
     unknown    |-> {"succeeded", "failed", "ready", "cancelled"}]

MayBecome(a, s) ==
    \/ action[a] = s
    \/ action[a] \in DOMAIN Moves /\ s \in Moves[action[a]]

Set(a, s) == action' = [action EXCEPT ![a] = s]
-------------------------------------------------------------------------------
(* The run of the task *)

StartRun ==
    /\ task = "queued"
    /\ task' = "running" /\ run' = "held"
    /\ UNCHANGED <<action, receipt, disp, channel, host, drops, crashes>>

InLoop == run = "held" /\ disp.pc = "loop"

\* The next action: one that is ready, or else a new one the agent proposes.
NextAction(a) ==
    \/ action[a] = "ready"
    \/ /\ action[a] = "absent"
       /\ \A b \in Action : action[b] # "ready" /\ (b < a => action[b] # "absent")

Take(a) ==
    /\ InLoop /\ task = "running"
    /\ NextAction(a)
    /\ Set(a, "dispatched")
    /\ disp' = [Idle EXCEPT !.pc = "taken", !.act = a]
    /\ UNCHANGED <<task, run, receipt, channel, host, drops, crashes>>

LeaveRun ==
    /\ InLoop
    /\ task' = IF task = "running" THEN "done" ELSE task       \* finish, or cancelled
    /\ run' = "none"
    /\ UNCHANGED <<action, receipt, disp, channel, host, drops, crashes>>

\* max_actions_per_run: the task goes on in a new run.  A task that was cancelled
\* meanwhile has no way back to queued, and its run is never finished.
StepLimit ==
    /\ InLoop
    /\ IF task = "running" THEN task' = "queued" /\ run' = "none"
                           ELSE run' = "orphan" /\ UNCHANGED task
    /\ UNCHANGED <<action, receipt, disp, channel, host, drops, crashes>>

\* DesktopDispatchError: the session still holds what it read before the wait.
GiveUp(a, seen) ==
    /\ Set(a, "unknown")
    /\ task' = IF seen = "cancelled" THEN task ELSE "reconciling"
    /\ run' = "none"
    /\ disp' = Idle

Send ==
    /\ disp.pc = "taken"
    /\ IF link = "down"
       THEN GiveUp(disp.act, task) /\ UNCHANGED wire            \* desktop_node_offline
       ELSE /\ disp' = [disp EXCEPT !.pc = "waiting", !.seen = task, !.reply = "open"]
            /\ wire' = IF link = "up" THEN wire \cup {disp.act} ELSE wire
            /\ UNCHANGED <<action, task, run>>
    /\ UNCHANGED <<receipt, link, snap, host, drops, crashes>>

Timeout ==
    /\ disp.pc = "waiting" /\ disp.reply = "open"
    /\ GiveUp(disp.act, disp.seen)
    /\ UNCHANGED <<receipt, channel, host, drops, crashes>>

\* What the reply makes of the action.
Verdict(reply) ==
    CASE reply = "ok" -> "succeeded"
      [] reply = "precondition" -> "invalidated"
      [] reply \in {"failed", "disconnected"} -> "failed"
      [] reply = "unknown" -> "unknown"

\* An answer, or detach, woke the dispatcher; what the transition table does not
\* allow is a ValueError, and leaves the run to recover_stale_tasks.
Record ==
    LET a == disp.act
        s == Verdict(disp.reply) IN
    /\ disp.pc = "waiting" /\ disp.reply # "open"
    /\ disp' = Idle
    /\ IF ~MayBecome(a, s)
       THEN run' = "orphan" /\ UNCHANGED <<action, task>>
       ELSE /\ Set(a, s)
            /\ run' = IF s = "unknown" THEN "none" ELSE run
            /\ task' = IF s = "unknown" /\ task # "cancelled" THEN "reconciling" ELSE task
    /\ UNCHANGED <<receipt, channel, host, drops, crashes>>

Cancel ==
    /\ task \in {"queued", "running", "reconciling"}
    /\ task' = "cancelled"
    /\ action' = [a \in Action |-> IF action[a] = "ready" THEN "cancelled" ELSE action[a]]
    /\ UNCHANGED <<run, receipt, disp, channel, host, drops, crashes>>

\* Mutant: the task does not wait for what was dispatched.
RecoverBlindly ==
    /\ run = "orphan" /\ task = "running"
    /\ run' = "none" /\ task' = "queued"
    /\ action' = [a \in Action |-> IF action[a] \in Outstanding THEN "unknown" ELSE action[a]]
    /\ UNCHANGED <<receipt, disp, channel, host, drops, crashes>>

\* recover_stale_tasks, once the lease of the run is over.
Recover ==
    /\ run = "orphan" /\ task = "running"
    /\ run' = "none"
    /\ task' = IF \E a \in Action : action[a] \in Outstanding THEN "reconciling" ELSE "queued"
    /\ action' = [a \in Action |-> IF action[a] \in Outstanding THEN "unknown" ELSE action[a]]
    /\ UNCHANGED <<receipt, disp, channel, host, drops, crashes>>
-------------------------------------------------------------------------------
(* connection_manager.py and routes_desktop.py: the backend's end of the link *)

\* operation.result: apply_entry without reconciliation, then resolve_result.
Report(a, status, reply, ears) ==
    IF link = "up" /\ ears
    THEN /\ receipt' = [receipt EXCEPT ![a] = status]
         /\ disp' = IF disp.act = a /\ disp.reply = "open"
                    THEN [disp EXCEPT !.reply = reply] ELSE disp
    ELSE UNCHANGED <<receipt, disp>>

\* operation.ack with status started.
Acknowledge(a) ==
    IF link = "up" /\ heard[a]
    THEN /\ receipt' = [receipt EXCEPT ![a] = "started"]
         /\ IF action[a] = "dispatched" THEN Set(a, "running") ELSE UNCHANGED action
    ELSE UNCHANGED <<receipt, action>>

\* The node loses its socket ...
Drop ==
    /\ link = "up" /\ drops < MaxDrops
    /\ link' = "half" /\ wire' = {} /\ snap' = NoAnswer
    /\ heard' = [a \in Action |-> FALSE]
    /\ drops' = drops + 1
    /\ UNCHANGED <<rows, disp, node, journal, effects, crashes>>

\* ... the backend notices and wakes the dispatcher ...
Detach ==
    /\ link = "half"
    /\ link' = "down"
    /\ disp' = IF disp.reply = "open" THEN [disp EXCEPT !.reply = "disconnected"] ELSE disp
    /\ UNCHANGED <<rows, wire, snap, host, drops, crashes>>

\* ... unless the node is back before that.  Hello is answered by journal.query.
Reconnect ==
    /\ link # "up"
    /\ link' = "up"
    /\ snap' = [a \in Action |-> IF action[a] \in Outstanding THEN "asked" ELSE "none"]
    /\ UNCHANGED <<rows, disp, wire, host, drops, crashes>>

AnswerQuery ==
    /\ link = "up" /\ \E a \in Action : snap[a] = "asked"
    /\ snap' = [a \in Action |-> IF snap[a] = "asked"
                                 THEN IF journal[a] = "none" THEN "missing" ELSE journal[a]
                                 ELSE snap[a]]
    /\ UNCHANGED <<rows, disp, link, wire, host, drops, crashes>>

Handled(a) == snap' = [snap EXCEPT ![a] = "none"]

Requeued == IF task = "reconciling" THEN "queued" ELSE task

\* apply_entry
ApplyEntry(a) ==
    LET settled == snap[a] \in {"committed", "failed", "refused"} IN
    /\ link = "up"
    /\ settled \/ snap[a] = "started"
    /\ receipt' = [receipt EXCEPT ![a] = IF snap[a] = "refused" THEN "failed" ELSE snap[a]]
    /\ IF settled /\ action[a] \in Outstanding
       THEN /\ Set(a, IF snap[a] = "committed" THEN "succeeded" ELSE "failed")
            /\ task' = IF \E b \in Action \ {a} : action[b] \in Outstanding
                       THEN task ELSE Requeued
       ELSE UNCHANGED <<action, task>>
    /\ Handled(a)
    /\ UNCHANGED <<run, disp, link, wire, host, drops, crashes>>

MayRepeat(a) == receipt[a] \notin {"started", "committed", "failed"}

\* apply_missing
ApplyMissing(a) ==
    /\ link = "up" /\ snap[a] = "missing"
    /\ IF action[a] # "unknown" THEN UNCHANGED <<action, task>>
       ELSE IF task \in {"done", "cancelled"}
            THEN Set(a, "cancelled") /\ UNCHANGED task
       ELSE IF MayRepeat(a) THEN Set(a, "ready") /\ task' = Requeued
       ELSE UNCHANGED <<action, task>>
    /\ Handled(a)
    /\ UNCHANGED <<run, receipt, disp, link, wire, host, drops, crashes>>

\* The backend dies: the run is left to recovery, the socket is gone.
CrashBackend ==
    /\ crashes < MaxCrashes
    /\ run' = IF run = "held" THEN "orphan" ELSE run
    /\ disp' = Idle
    /\ link' = "down" /\ wire' = {} /\ snap' = NoAnswer
    /\ heard' = [a \in Action |-> FALSE]
    /\ crashes' = crashes + 1
    /\ UNCHANGED <<action, task, receipt, node, journal, effects, drops>>
-------------------------------------------------------------------------------
(* client.mjs and journal.mjs: the node *)

\* Mutant: an entry that is not final does not keep the node from starting.
FreshUnlessSettled(a) == journal[a] \notin {"committed", "failed", "refused"}

Fresh(a) == journal[a] = "none"

\* Mutant: an entry is good unless it is marked as failed.
AnswerUnlessFailed(status) ==
    IF status = "refused" THEN "precondition" ELSE IF status = "failed" THEN "failed" ELSE "ok"

Answer(status) ==
    CASE status = "committed" -> "ok"
      [] status = "refused" -> "precondition"
      [] status = "failed" -> "failed"
      [] OTHER -> "unknown"

\* handleOperation: join what runs already, refuse or replay what the journal
\* knows, or begin.
Receive(a) ==
    /\ link = "up" /\ a \in wire
    /\ wire' = wire \ {a}
    /\ IF node[a] = "idle" /\ ~Fresh(a)
       THEN /\ Report(a, CASE journal[a] = "refused" -> "failed"
                           [] journal[a] = "started" -> "unknown"
                           [] OTHER -> journal[a],
                      Answer(journal[a]), TRUE)
            /\ UNCHANGED <<node, heard>>
       ELSE /\ heard' = [heard EXCEPT ![a] = TRUE]
            /\ node' = IF node[a] = "idle" THEN [node EXCEPT ![a] = "checking"] ELSE node
            /\ UNCHANGED <<receipt, disp>>
    /\ UNCHANGED <<action, task, run, link, snap, journal, effects, drops, crashes>>

Finish(a, status) ==
    /\ node' = [node EXCEPT ![a] = "idle"]
    /\ heard' = [heard EXCEPT ![a] = FALSE]
    /\ Report(a, IF status = "refused" THEN "failed" ELSE status, Answer(status), heard[a])

\* The first check of scope and preconditions fails: nothing is journaled.
Refuse(a) ==
    /\ node[a] = "checking"
    /\ \E s \in {"failed", "refused"} : Finish(a, s)
    /\ UNCHANGED <<action, task, run, channel, journal, effects, drops, crashes>>

Start(a) ==
    /\ node[a] = "checking"
    /\ node' = [node EXCEPT ![a] = "executing"]
    /\ journal' = [journal EXCEPT ![a] = "started"]
    /\ Acknowledge(a)
    /\ UNCHANGED <<task, run, disp, channel, heard, effects, drops, crashes>>

Execute(a) ==
    /\ node[a] = "executing"
    /\ node' = [node EXCEPT ![a] = "executed"]
    /\ effects' = [effects EXCEPT ![a] = @ + 1]
    /\ UNCHANGED <<rows, disp, channel, heard, journal, drops, crashes>>

\* The result is journaled; a second check or the handler itself may fail.
Commit(a) ==
    /\ \/ node[a] = "executed" /\ journal' = [journal EXCEPT ![a] = "committed"]
       \/ /\ node[a] = "executing"
          /\ \E s \in {"failed", "refused"} : journal' = [journal EXCEPT ![a] = s]
    /\ Finish(a, journal'[a])
    /\ UNCHANGED <<action, task, run, channel, effects, drops, crashes>>

CrashNode ==
    /\ crashes < MaxCrashes
    /\ node' = [a \in Action |-> "idle"]
    /\ heard' = [a \in Action |-> FALSE]
    /\ link' = IF link = "up" THEN "half" ELSE link
    /\ wire' = {} /\ snap' = NoAnswer
    /\ crashes' = crashes + 1
    /\ UNCHANGED <<rows, disp, journal, effects, drops>>
-------------------------------------------------------------------------------
BackendStep ==
    \/ StartRun \/ (\E a \in Action : Take(a)) \/ Send \/ Timeout \/ Record
    \/ LeaveRun \/ StepLimit \/ Recover
    \/ Detach \/ \E a \in Action : ApplyEntry(a) \/ ApplyMissing(a)

NodeStep ==
    \/ Reconnect \/ AnswerQuery
    \/ \E a \in Action : Receive(a) \/ Refuse(a) \/ Start(a) \/ Execute(a) \/ Commit(a)

Next == BackendStep \/ NodeStep \/ Cancel \/ Drop \/ CrashBackend \/ CrashNode

\* The node reconnects for ever, both ends handle what arrives, the scanner and
\* the outbox take up what waits, and no dispatch waits for ever.
Fairness ==
    /\ WF_daVars(BackendStep)
    /\ WF_daVars(Reconnect) /\ WF_daVars(AnswerQuery)
    /\ \A a \in Action :
          /\ WF_daVars(ApplyEntry(a)) /\ WF_daVars(ApplyMissing(a))
          /\ WF_daVars(Receive(a) \/ Refuse(a) \/ Start(a) \/ Execute(a) \/ Commit(a))

Spec == Init /\ [][Next]_daVars
FairSpec == Spec /\ Fairness
-------------------------------------------------------------------------------
TypeOK ==
    /\ action \in [Action -> Outstanding \cup {"absent", "ready", "succeeded", "failed",
                                               "invalidated", "cancelled"}]
    /\ task \in {"queued", "running", "reconciling", "done", "cancelled"}
    /\ run \in {"none", "held", "orphan"}
    /\ receipt \in [Action -> {"none", "started", "committed", "failed", "unknown"}]
    /\ disp \in [pc : {"loop", "taken", "waiting"}, act : Action \cup {NoAction},
                 seen : {"none", "running", "cancelled"},
                 reply : {"none", "open", "ok", "failed", "precondition", "unknown",
                          "disconnected"}]
    /\ disp.pc # "loop" => run = "held"
    /\ link \in {"up", "half", "down"} /\ wire \subseteq Action
    /\ snap \in [Action -> {"none", "asked", "missing", "started", "committed", "failed",
                            "refused"}]
    /\ node \in [Action -> {"idle", "checking", "executing", "executed"}]
    /\ heard \in [Action -> BOOLEAN]
    /\ journal \in [Action -> {"none", "started", "committed", "failed", "refused"}]
    /\ effects \in [Action -> Nat]
    /\ drops \in 0 .. MaxDrops /\ crashes \in 0 .. MaxCrashes

\* "never blindly retry an unknown side effect": through lost requests, lost
\* answers, redispatches and crashes of both ends, the node carries out an
\* action once (and all keeps its type).
ExecutedOnce == TypeOK /\ \A a \in Action : effects[a] <= 1

\* What the backend calls succeeded the node has carried out and journaled.
SucceededIsCommitted ==
    \A a \in Action : action[a] = "succeeded" => journal[a] = "committed" /\ effects[a] = 1

\* An action that is unknown has stopped the task: nothing is queued or run
\* until the journal was consulted.
UnknownStopsTask ==
    \A a \in Action : action[a] = "unknown" => task \notin {"queued", "running"}

\* The statements that follow are not kept by the code: README, section 4.

\* "when a disconnect leaves the outcome unconfirmed, the action is unknown":
\* an action that is reported as failed was not carried out.
FailedIsUndone ==
    \A a \in Action : action[a] = "failed" => effects[a] = 0

\* A cancelled task and a settled action stay as they are: the state machine
\* lets nothing follow.
TerminalIsFinal ==
    [][/\ task = "cancelled" => task' = "cancelled"
       /\ \A a \in Action : action[a] \in {"succeeded", "failed", "invalidated", "cancelled"} =>
             action'[a] = action[a]]_daVars

\* "the node checks scope and preconditions again right before the side effect":
\* when that check fails, the dispatch ends with the action settled.
RefusalSettles ==
    [][disp.reply = "precondition" /\ disp'.pc = "loop" /\ crashes' = crashes =>
          action'[disp.act] \notin Outstanding]_daVars

\* "after a reconnect the backend asks for the journal, reconciles and resumes
\* the task": so it does for an action that was still executed when it asked.
JournalResumesTask ==
    \A a \in Action :
        task = "reconciling" /\ snap[a] = "started" /\ node[a] = "executed"
            ~> task # "reconciling"
===============================================================================
