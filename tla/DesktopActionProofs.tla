-------------------------- MODULE DesktopActionProofs --------------------------
(***************************************************************************)
(* Proofs of the safety properties of DesktopAction, for every set of      *)
(* actions and every number of broken connections and crashes:             *)
(*   ExecutedOnce           from  Carried, which ties the journal of the   *)
(*                                node to what it has carried out;         *)
(*   SucceededIsCommitted   from  Told, what the backend was told and the  *)
(*                                journal's answers on their way to it;    *)
(*   UnknownStopsTask       from  Lone, the task has one action on its way *)
(*                                at most, and from Working.               *)
(***************************************************************************)
EXTENDS DesktopAction, TLAPS

\* The dispatcher between two actions, with one it has taken, and waiting for one.
DispShape ==
    /\ disp.pc = "loop" => disp = Idle
    /\ disp.pc = "taken" => /\ disp.act \in Action
                            /\ disp.reply = "none" /\ disp.seen = "none"
    /\ disp.pc = "waiting" => /\ disp.act \in Action
                              /\ disp.reply # "none" /\ disp.seen # "none"

Shape == TypeOK /\ DispShape

\* The journal is written before the side effect and after it, and an entry that
\* exists keeps the node from beginning anew.
Carried ==
    \A a \in Action :
        /\ journal[a] = "none" => node[a] \in {"idle", "checking"} /\ effects[a] = 0
        /\ node[a] = "checking" => journal[a] = "none"
        /\ node[a] = "executing" => journal[a] = "started" /\ effects[a] = 0
        /\ node[a] = "executed" => journal[a] = "started" /\ effects[a] = 1
        /\ journal[a] = "committed" => node[a] = "idle" /\ effects[a] = 1
        /\ journal[a] \in {"failed", "refused"} => node[a] = "idle"
        /\ effects[a] <= 1

\* Every good answer, on its way or recorded, comes from a committed entry.
Told ==
    /\ disp.reply = "ok" => journal[disp.act] = "committed"
    /\ \A a \in Action : snap[a] = "committed" => journal[a] = "committed"
    /\ \A a \in Action : action[a] = "succeeded" => journal[a] = "committed"

\* The run and the task; what the dispatcher read of a cancelled task stays true.
Working ==
    /\ run = "none" => task \in {"queued", "reconciling", "done", "cancelled"}
    /\ run # "none" => task \in {"running", "cancelled"}
    /\ disp.seen = "cancelled" => task = "cancelled"

Out == {a \in Action : action[a] \in Outstanding}

\* One action is outstanding at most: the one of the dispatcher.  Between two
\* actions, and while the task is queued, there is none.
Lone ==
    /\ \A a, b \in Out : a = b
    /\ disp.pc # "loop" => Out \subseteq {disp.act}
    /\ (run = "held" /\ disp.pc = "loop") \/ task = "queued" => Out = {}

Inv == Shape /\ Carried /\ Told /\ Working /\ Lone /\ UnknownStopsTask
-------------------------------------------------------------------------------
(* The start *)

LEMMA InitInv == Init => Inv
<1> SUFFICES ASSUME Init PROVE Inv
  OBVIOUS
<1> USE DesktopAssumption
<1>1. TypeOK
  BY DEF Init, TypeOK, Idle, NoAnswer, Outstanding
<1>2. DispShape
  BY DEF Init, DispShape, Idle
<1>3. Carried
  BY DEF Init, Carried
<1>4. Told
  BY DEF Init, Told, Idle, NoAnswer
<1>5. Working
  BY DEF Init, Working, Idle
<1>6. Out = {}
  BY DEF Init, Out, Outstanding
<1>7. Lone /\ UnknownStopsTask
  BY <1>6 DEF Init, Lone, UnknownStopsTask, Idle
<1>. QED
  BY <1>1, <1>2, <1>3, <1>4, <1>5, <1>7 DEF Inv, Shape
-------------------------------------------------------------------------------
(* The types, and the shape of the dispatcher *)

DispRow == [pc : {"loop", "taken", "waiting"}, act : Action \cup {NoAction},
            seen : {"none", "running", "cancelled"},
            reply : {"none", "open", "ok", "failed", "precondition", "unknown",
                     "disconnected"}]

LEMMA ShapeStep ==
    ASSUME Shape, Working, [Next]_daVars
    PROVE  Shape'
<1> USE DesktopAssumption DEF Shape, TypeOK, DispShape, Outstanding
<1>1. CASE StartRun
  BY <1>1 DEF StartRun, channel, host
<1>2. ASSUME NEW a \in Action, Take(a) PROVE Shape'
  BY <1>2 DEF Take, InLoop, Set, channel, host, Idle
<1>3. CASE Send
  <2>1. CASE link = "down"
    BY <1>3, <2>1 DEF Send, GiveUp, Set, host, Idle
  <2>2. CASE link # "down"
    <3>1. task \in {"running", "cancelled"}
      BY <1>3 DEF Send, Working
    <3>2. /\ disp' = [disp EXCEPT !.pc = "waiting", !.seen = task, !.reply = "open"]
          /\ disp.pc = "taken" /\ run' = run
      BY <1>3, <2>2 DEF Send
    <3>3. disp' \in DispRow
      BY <3>1, <3>2 DEF DispRow
    <3>4. /\ disp'.pc = "waiting" /\ disp'.act = disp.act
          /\ disp'.reply = "open" /\ disp'.seen = task
      BY <3>2
    <3>5. wire' \subseteq Action
      <4>1. disp.act \in Action
        BY <1>3 DEF Send
      <4>. QED
        BY <1>3, <2>2, <4>1 DEF Send
    <3>. QED
      BY <1>3, <2>2, <3>1, <3>2, <3>3, <3>4, <3>5 DEF Send, host, DispRow
  <2>. QED
    BY <2>1, <2>2
<1>4. CASE Timeout
  BY <1>4 DEF Timeout, GiveUp, Set, channel, host, Idle
<1>5. CASE Record
  BY <1>5 DEF Record, Verdict, MayBecome, Set, channel, host, Idle
<1>6. CASE LeaveRun
  BY <1>6 DEF LeaveRun, InLoop, channel, host, Idle
<1>7. CASE StepLimit
  BY <1>7 DEF StepLimit, InLoop, channel, host, Idle
<1>8. CASE Recover
  BY <1>8 DEF Recover, channel, host, Idle
<1>9. CASE Detach
  BY <1>9 DEF Detach, rows, host, Idle
<1>10. ASSUME NEW a \in Action, ApplyEntry(a) PROVE Shape'
  BY <1>10 DEF ApplyEntry, Requeued, Handled, Set, host, Idle
<1>11. ASSUME NEW a \in Action, ApplyMissing(a) PROVE Shape'
  BY <1>11 DEF ApplyMissing, Requeued, Handled, Set, host, Idle
<1>12. CASE Reconnect
  BY <1>12 DEF Reconnect, rows, host, Idle
<1>13. CASE AnswerQuery
  BY <1>13 DEF AnswerQuery, rows, host, Idle
<1>14. ASSUME NEW a \in Action, Receive(a) PROVE Shape'
  <2>1. CASE node[a] = "idle" /\ ~Fresh(a)
    <3>. DEFINE status == CASE journal[a] = "refused" -> "failed"
                            [] journal[a] = "started" -> "unknown"
                            [] OTHER -> journal[a]
                reply == Answer(journal[a])
    <3>1. journal[a] \in {"started", "committed", "failed", "refused"}
      BY <2>1 DEF Fresh
    <3>2. /\ status \in {"started", "committed", "failed", "unknown"}
          /\ reply \in {"ok", "failed", "precondition", "unknown"}
      BY <3>1 DEF Answer
    <3>3. Report(a, status, reply, TRUE)
      BY <1>14, <2>1 DEF Receive
    <3>. HIDE DEF status, reply
    <3>4. /\ receipt' \in [Action -> {"none", "started", "committed", "failed", "unknown"}]
          /\ disp' \in DispRow /\ disp'.pc = disp.pc /\ DispShape'
      BY <3>2, <3>3 DEF Report, DispRow, Idle
    <3>. QED
      BY <1>14, <2>1, <3>4 DEF Receive, DispRow
  <2>2. CASE ~(node[a] = "idle" /\ ~Fresh(a))
    <3>1. /\ heard' = [heard EXCEPT ![a] = TRUE]
          /\ node' = node \/ node' = [node EXCEPT ![a] = "checking"]
      BY <1>14, <2>2 DEF Receive
    <3>2. heard' \in [Action -> BOOLEAN]
      BY <3>1
    <3>3. node' \in [Action -> {"idle", "checking", "executing", "executed"}]
      BY <3>1
    <3>4. wire' \subseteq Action
      BY <1>14 DEF Receive
    <3>5. UNCHANGED <<action, task, run, receipt, disp, link, snap, journal, effects,
                     drops, crashes>>
      BY <1>14, <2>2 DEF Receive
    <3>. QED
      BY <3>2, <3>3, <3>4, <3>5 DEF Idle
  <2>. QED
    BY <2>1, <2>2
<1>15. ASSUME NEW a \in Action, Refuse(a) PROVE Shape'
  BY <1>15 DEF Refuse, Finish, Report, Answer, channel, Idle
<1>16. ASSUME NEW a \in Action, Start(a) PROVE Shape'
  BY <1>16 DEF Start, Acknowledge, Set, channel, Idle
<1>17. ASSUME NEW a \in Action, Execute(a) PROVE Shape'
  BY <1>17 DEF Execute, rows, channel, Idle
<1>18. ASSUME NEW a \in Action, Commit(a) PROVE Shape'
  BY <1>18 DEF Commit, Finish, Report, Answer, channel, Idle
<1>19. CASE Cancel
  BY <1>19 DEF Cancel, channel, host, Idle
<1>20. CASE Drop
  BY <1>20 DEF Drop, rows, Idle, NoAnswer
<1>21. CASE CrashBackend
  BY <1>21 DEF CrashBackend, Idle, NoAnswer
<1>22. CASE CrashNode
  BY <1>22 DEF CrashNode, rows, Idle, NoAnswer
<1>23. CASE UNCHANGED daVars
  BY <1>23 DEF daVars, rows, channel, host, Idle
<1>. QED
  BY <1>1, <1>2, <1>3, <1>4, <1>5, <1>6, <1>7, <1>8, <1>9, <1>10, <1>11, <1>12, <1>13,
     <1>14, <1>15, <1>16, <1>17, <1>18, <1>19, <1>20, <1>21, <1>22, <1>23
     DEF Next, BackendStep, NodeStep
-------------------------------------------------------------------------------
(* The node: what it carried out, and what its journal says *)

\* Only the node's own steps touch what it does, its journal and the world.
LEMMA HostCases ==
    ASSUME [Next]_daVars
    PROVE  \/ UNCHANGED <<node, journal, effects>>
           \/ \E a \in Action : \/ Receive(a) \/ Refuse(a) \/ Start(a)
                                \/ Execute(a) \/ Commit(a)
           \/ CrashNode
BY DEF Next, BackendStep, NodeStep, daVars, host, StartRun, Take, Send, Timeout, Record,
       LeaveRun, StepLimit, Recover, Detach, ApplyEntry, ApplyMissing, Reconnect,
       AnswerQuery, Cancel, Drop, CrashBackend

LEMMA CarriedStep ==
    ASSUME Shape, Carried, [Next]_daVars
    PROVE  Carried'
<1> USE DEF Shape, TypeOK
<1>1. CASE UNCHANGED <<node, journal, effects>>
  BY <1>1 DEF Carried
<1>2. ASSUME NEW a \in Action, Receive(a) PROVE Carried'
  <2>1. /\ UNCHANGED <<journal, effects>>
        /\ \/ node' = node
           \/ /\ node' = [node EXCEPT ![a] = "checking"]
              /\ node[a] = "idle" /\ journal[a] = "none"
    BY <1>2 DEF Receive, Fresh
  <2>. QED
    BY <2>1 DEF Carried
<1>3. ASSUME NEW a \in Action, Refuse(a) PROVE Carried'
  BY <1>3 DEF Refuse, Finish, Carried
<1>4. ASSUME NEW a \in Action, Start(a) PROVE Carried'
  BY <1>4 DEF Start, Carried
<1>5. ASSUME NEW a \in Action, Execute(a) PROVE Carried'
  BY <1>5 DEF Execute, Carried
<1>6. ASSUME NEW a \in Action, Commit(a) PROVE Carried'
  <2>1. node' = [node EXCEPT ![a] = "idle"] /\ UNCHANGED effects
    BY <1>6 DEF Commit, Finish
  <2>2. CASE node[a] = "executed" /\ journal' = [journal EXCEPT ![a] = "committed"]
    BY <2>1, <2>2 DEF Carried
  <2>3. ASSUME NEW s \in {"failed", "refused"}, node[a] = "executing",
               journal' = [journal EXCEPT ![a] = s]
        PROVE  Carried'
    BY <2>1, <2>3 DEF Carried
  <2>. QED
    BY <1>6, <2>2, <2>3 DEF Commit
<1>7. CASE CrashNode
  BY <1>7 DEF CrashNode, Carried
<1>. QED
  BY HostCases, <1>1, <1>2, <1>3, <1>4, <1>5, <1>6, <1>7

\* A committed entry of the journal is final.
LEMMA CommittedIsFinal ==
    ASSUME Shape, Carried, [Next]_daVars, NEW a \in Action, journal[a] = "committed"
    PROVE  journal'[a] = "committed"
<1> USE DEF Shape, TypeOK
<1>1. CASE UNCHANGED <<node, journal, effects>>
  BY <1>1
<1>2. ASSUME NEW b \in Action, \/ Receive(b) \/ Refuse(b) \/ Start(b)
                               \/ Execute(b) \/ Commit(b)
      PROVE  journal'[a] = "committed"
  <2>1. CASE Receive(b) \/ Refuse(b) \/ Execute(b)
    BY <2>1 DEF Receive, Refuse, Execute
  <2>2. CASE Start(b)
    BY <2>2 DEF Start, Carried
  <2>3. CASE Commit(b)
    <3>1. b # a
      BY <2>3 DEF Commit, Carried
    <3>. QED
      BY <2>3, <3>1 DEF Commit
  <2>. QED
    BY <1>2, <2>1, <2>2, <2>3
<1>3. CASE CrashNode
  BY <1>3 DEF CrashNode
<1>. QED
  BY HostCases, <1>1, <1>2, <1>3
-------------------------------------------------------------------------------
(* The backend: what it was told *)

\* A good answer of the node is one from a committed entry.
LEMMA GoodReport ==
    ASSUME Shape, Told, NEW a \in Action, NEW status, NEW reply, NEW ears,
           Report(a, status, reply, ears), disp'.reply = "ok"
    PROVE  /\ disp'.act = disp.act
           /\ disp.reply = "ok" \/ (disp.act = a /\ reply = "ok")
BY DEF Shape, TypeOK, Report

LEMMA ReplyStep ==
    ASSUME Shape, Carried, Told, [Next]_daVars, disp'.reply = "ok"
    PROVE  journal'[disp'.act] = "committed"
<1> DEFINE Before == disp.reply = "ok" /\ disp'.act = disp.act
<1>0. disp.reply = "ok" => disp.act \in Action
  BY DEF Shape, TypeOK, DispShape, Idle
<1>1. Before => journal'[disp'.act] = "committed"
  BY <1>0, CommittedIsFinal DEF Told
<1>2. ASSUME NEW a \in Action, Receive(a) PROVE journal'[disp'.act] = "committed"
  <2>1. CASE node[a] = "idle" /\ ~Fresh(a)
    <3>. DEFINE status == CASE journal[a] = "refused" -> "failed"
                            [] journal[a] = "started" -> "unknown"
                            [] OTHER -> journal[a]
    <3>1. Report(a, status, Answer(journal[a]), TRUE)
      BY <1>2, <2>1 DEF Receive
    <3>. HIDE DEF status
    <3>2. Before \/ (disp'.act = a /\ Answer(journal[a]) = "ok")
      BY <3>1, GoodReport
    <3>3. Answer(journal[a]) = "ok" => journal[a] = "committed"
      BY DEF Answer
    <3>. QED
      BY <1>1, <3>2, <3>3, CommittedIsFinal
  <2>2. CASE ~(node[a] = "idle" /\ ~Fresh(a))
    <3>1. UNCHANGED disp
      BY <1>2, <2>2 DEF Receive
    <3>. QED
      BY <1>1, <3>1
  <2>. QED
    BY <2>1, <2>2
<1>3. ASSUME NEW a \in Action, Refuse(a) PROVE journal'[disp'.act] = "committed"
  <2>1. PICK s \in {"failed", "refused"} : Finish(a, s)
    BY <1>3 DEF Refuse
  <2>2. PICK status : Report(a, status, Answer(s), heard[a])
    BY <2>1 DEF Finish
  <2>3. Answer(s) # "ok"
    BY DEF Answer
  <2>. QED
    BY <1>1, <2>2, <2>3, GoodReport
<1>4. ASSUME NEW a \in Action, Commit(a) PROVE journal'[disp'.act] = "committed"
  <2>1. PICK status : Report(a, status, Answer(journal'[a]), heard[a])
    BY <1>4 DEF Commit, Finish
  <2>2. Before \/ (disp'.act = a /\ Answer(journal'[a]) = "ok")
    BY <2>1, GoodReport
  <2>3. Answer(journal'[a]) = "ok" => journal'[a] = "committed"
    <3>1. journal' \in [Action -> {"none", "started", "committed", "failed", "refused"}]
      BY <1>4 DEF Commit, Shape, TypeOK
    <3>. QED
      BY <3>1 DEF Answer
  <2>. QED
    BY <1>1, <2>2, <2>3
<1>5. CASE UNCHANGED disp
  BY <1>1, <1>5
<1>6. CASE Detach
  BY <1>1, <1>6 DEF Detach, Shape, TypeOK
<1>7. CASE Send
  <2>1. CASE link = "down"
    BY <1>7, <2>1 DEF Send, GiveUp, Idle
  <2>2. CASE link # "down"
    <3>1. disp' = [disp EXCEPT !.pc = "waiting", !.seen = task, !.reply = "open"]
      BY <1>7, <2>2 DEF Send
    <3>2. disp'.reply = "open"
      BY <3>1 DEF Shape, TypeOK
    <3>. QED
      BY <3>2
  <2>. QED
    BY <2>1, <2>2
<1>8. CASE disp' = Idle
  BY <1>8 DEF Idle
<1>9. ASSUME NEW a \in Action, Take(a) PROVE FALSE
  <2>1. disp'.reply = "none"
    BY <1>9 DEF Take, Idle
  <2>. QED
    BY <2>1
<1>. QED
  BY <1>2, <1>3, <1>4, <1>5, <1>6, <1>7, <1>8, <1>9
     DEF Next, BackendStep, NodeStep, daVars, StartRun, LeaveRun, StepLimit, Recover,
         Timeout, GiveUp, Record, CrashBackend, ApplyEntry, ApplyMissing, Reconnect, AnswerQuery, Start, Execute, Cancel, Drop,
         CrashNode

\* What journal.query brings is what the journal said, and no entry that was
\* committed changes on the way.
LEMMA SnapStep ==
    ASSUME Shape, Carried, Told, [Next]_daVars, NEW a \in Action,
           snap'[a] = "committed"
    PROVE  journal'[a] = "committed"
<1>1. snap[a] = "committed" \/ journal[a] = "committed"
  <2> USE DEF Shape, TypeOK
  <2>1. CASE AnswerQuery
    BY <2>1 DEF AnswerQuery
  <2>2. CASE Reconnect
    BY <2>2 DEF Reconnect
  <2>3. ASSUME NEW b \in Action, ApplyEntry(b) \/ ApplyMissing(b)
        PROVE  snap[a] = "committed"
    BY <2>3 DEF ApplyEntry, ApplyMissing, Handled
  <2>4. CASE Drop \/ CrashBackend \/ CrashNode
    BY <2>4 DEF Drop, CrashBackend, CrashNode, NoAnswer
  <2>5. CASE UNCHANGED snap
    BY <2>5
  <2>. QED
    BY <2>1, <2>2, <2>3, <2>4, <2>5
       DEF Next, BackendStep, NodeStep, daVars, channel, StartRun, Take, Send, Timeout,
           Record, LeaveRun, StepLimit, Recover, Detach, Receive, Refuse, Start, Execute,
           Commit, Cancel
<1>. QED
  BY <1>1, CommittedIsFinal DEF Told

\* An action becomes succeeded by a good answer or by a committed entry.
LEMMA SucceededStep ==
    ASSUME Shape, Carried, Told, [Next]_daVars, NEW a \in Action,
           action'[a] = "succeeded"
    PROVE  journal'[a] = "committed"
<1>1. journal[a] = "committed" \/ action[a] = "succeeded"
  <2> USE DEF Shape, TypeOK, Set
  <2>1. CASE Record
    <3>1. \/ UNCHANGED action
          \/ action' = [action EXCEPT ![disp.act] = Verdict(disp.reply)]
      BY <2>1 DEF Record
    <3>2. ASSUME Verdict(disp.reply) = "succeeded" PROVE disp.reply = "ok"
      <4>1. disp.reply \in {"ok", "failed", "precondition", "unknown", "disconnected"}
        BY <2>1 DEF Record, DispShape
      <4>. QED
        BY <3>2, <4>1 DEF Verdict
    <3>. QED
      BY <3>1, <3>2 DEF Told
  <2>2. ASSUME NEW b \in Action, ApplyEntry(b)
        PROVE  journal[a] = "committed" \/ action[a] = "succeeded"
    BY <2>2 DEF ApplyEntry, Told
  <2>3. ASSUME NEW b \in Action, Take(b) \/ ApplyMissing(b) \/ Start(b)
        PROVE  action[a] = "succeeded"
    BY <2>3 DEF Take, ApplyMissing, Start, Acknowledge
  <2>4. CASE Send \/ Timeout
    BY <2>4 DEF Send, Timeout, GiveUp
  <2>5. CASE Cancel \/ Recover
    BY <2>5 DEF Cancel, Recover
  <2>6. CASE UNCHANGED action
    BY <2>6
  <2>. QED
    BY <2>1, <2>2, <2>3, <2>4, <2>5, <2>6
       DEF Next, BackendStep, NodeStep, daVars, rows, StartRun, LeaveRun, StepLimit,
           Detach, Reconnect, AnswerQuery, Receive, Refuse, Execute, Commit, Drop,
           CrashBackend, CrashNode
<1>. QED
  BY <1>1, CommittedIsFinal DEF Told

LEMMA ToldStep ==
    ASSUME Shape, Carried, Told, [Next]_daVars
    PROVE  Told'
BY ReplyStep, SnapStep, SucceededStep DEF Told
-------------------------------------------------------------------------------
(* The task: one action on its way *)

LEMMA WorkingStep ==
    ASSUME Shape, Working, [Next]_daVars
    PROVE  Working'
<1> USE DEF Shape, TypeOK, DispShape, Working, Idle
<1>1. CASE StartRun \/ LeaveRun \/ StepLimit \/ Recover \/ Cancel
  BY <1>1 DEF StartRun, LeaveRun, StepLimit, Recover, Cancel, InLoop
<1>2. ASSUME NEW a \in Action, Take(a) PROVE Working'
  BY <1>2 DEF Take, InLoop
<1>3. CASE Send
  <2>1. CASE link = "down"
    BY <1>3, <2>1 DEF Send, GiveUp
  <2>2. CASE link # "down"
    <3>1. /\ UNCHANGED <<task, run>>
          /\ disp' = [disp EXCEPT !.pc = "waiting", !.seen = task, !.reply = "open"]
      BY <1>3, <2>2 DEF Send
    <3>2. disp'.seen = task
      BY <3>1
    <3>. QED
      BY <3>1, <3>2
  <2>. QED
    BY <2>1, <2>2
<1>4. CASE Timeout
  BY <1>4 DEF Timeout, GiveUp
<1>5. CASE Record
  BY <1>5 DEF Record
<1>6. CASE Detach
  BY <1>6 DEF Detach, rows
<1>7. ASSUME NEW a \in Action, ApplyEntry(a) \/ ApplyMissing(a) PROVE Working'
  BY <1>7 DEF ApplyEntry, ApplyMissing, Requeued
<1>8. CASE CrashBackend
  BY <1>8 DEF CrashBackend
<1>9. ASSUME UNCHANGED <<task, run>>,
             disp' = disp \/ \E a \in Action : \E s, r, e : Report(a, s, r, e)
      PROVE  Working'
  BY <1>9 DEF Report
<1>. QED
  BY <1>1, <1>2, <1>3, <1>4, <1>5, <1>6, <1>7, <1>8, <1>9
     DEF Next, BackendStep, NodeStep, daVars, rows, Reconnect, AnswerQuery, Receive,
         Refuse, Start, Execute, Commit, Finish, Drop, CrashNode

\* Where the node's steps leave the task: an action that is dispatched may turn
\* out to be running, which makes nothing outstanding that was not.
LEMMA QuietStep ==
    ASSUME Shape, Lone, UnknownStopsTask,
           UNCHANGED <<task, run>>, disp'.pc = disp.pc, disp'.act = disp.act,
           \/ UNCHANGED action
           \/ \E a \in Action : action[a] = "dispatched" /\ Set(a, "running")
    PROVE  Lone' /\ UnknownStopsTask'
<1>1. Out' = Out /\ \A a \in Action : action'[a] = "unknown" => action[a] = "unknown"
  BY DEF Shape, TypeOK, Out, Outstanding, Set
<1>. QED
  BY <1>1 DEF Lone, UnknownStopsTask

LEMMA ReportIsQuiet ==
    ASSUME Shape, NEW a \in Action, NEW s, NEW r, NEW e, Report(a, s, r, e)
    PROVE  disp'.pc = disp.pc /\ disp'.act = disp.act
BY DEF Shape, TypeOK, Report

LEMMA LoneStep ==
    ASSUME Shape, Working, Lone, UnknownStopsTask, [Next]_daVars
    PROVE  Lone' /\ UnknownStopsTask'
<1> USE DEF Shape, TypeOK, DispShape, Working, Lone, UnknownStopsTask, Out, Outstanding,
            Idle, Set
<1>1. CASE StartRun
  BY <1>1 DEF StartRun
<1>2. ASSUME NEW a \in Action, Take(a) PROVE Lone' /\ UnknownStopsTask'
  <2>1. /\ action' = [action EXCEPT ![a] = "dispatched"]
        /\ task' = "running" /\ run' = "held" /\ Out = {}
        /\ disp'.pc = "taken" /\ disp'.act = a
    BY <1>2 DEF Take, InLoop
  <2>2. Out' = {a}
    BY <2>1
  <2>. QED
    BY <2>1, <2>2
<1>3. ASSUME NEW seen, GiveUp(disp.act, seen), disp.pc # "loop",
             seen = "cancelled" => task = "cancelled"
      PROVE  Lone' /\ UnknownStopsTask'
  <2>1. Out' = {disp.act} /\ task' \in {"cancelled", "reconciling"} /\ disp'.pc = "loop"
    BY <1>3 DEF GiveUp
  <2>. QED
    BY <1>3, <2>1 DEF GiveUp
<1>4. CASE Send
  <2>1. CASE link = "down"
    BY <1>3, <1>4, <2>1 DEF Send
  <2>2. CASE link # "down"
    <3>1. /\ UNCHANGED <<action, task, run>> /\ disp.pc # "loop"
          /\ disp' = [disp EXCEPT !.pc = "waiting", !.seen = task, !.reply = "open"]
      BY <1>4, <2>2 DEF Send
    <3>2. disp'.pc = "waiting" /\ disp'.act = disp.act
      BY <3>1
    <3>. QED
      BY <3>1, <3>2
  <2>. QED
    BY <2>1, <2>2
<1>5. CASE Timeout
  BY <1>3, <1>5 DEF Timeout
<1>6. CASE Record
  BY <1>6 DEF Record, Verdict
<1>7. CASE LeaveRun
  BY <1>7 DEF LeaveRun, InLoop
<1>8. CASE StepLimit
  BY <1>8 DEF StepLimit, InLoop
<1>9. CASE Recover
  BY <1>9 DEF Recover
<1>10. ASSUME NEW a \in Action, ApplyEntry(a) PROVE Lone' /\ UnknownStopsTask'
  BY <1>10 DEF ApplyEntry, Requeued
<1>11. ASSUME NEW a \in Action, ApplyMissing(a) PROVE Lone' /\ UnknownStopsTask'
  BY <1>11 DEF ApplyMissing, Requeued
<1>12. CASE Cancel
  BY <1>12 DEF Cancel
<1>13. CASE CrashBackend
  BY <1>13 DEF CrashBackend
<1>14. CASE Detach
  BY <1>14, QuietStep DEF Detach, rows
<1>15. ASSUME NEW a \in Action, Receive(a) \/ Refuse(a) \/ Start(a) \/ Execute(a) \/ Commit(a)
       PROVE  Lone' /\ UnknownStopsTask'
  BY <1>15, QuietStep, ReportIsQuiet DEF Receive, Refuse, Start, Acknowledge, Execute, Commit,
             Finish, rows
<1>16. CASE Reconnect \/ AnswerQuery \/ Drop \/ CrashNode \/ UNCHANGED daVars
  BY <1>16, QuietStep DEF Reconnect, AnswerQuery, Drop, CrashNode, daVars, rows
<1>. QED
  BY <1>1, <1>2, <1>4, <1>5, <1>6, <1>7, <1>8, <1>9, <1>10, <1>11, <1>12, <1>13,
     <1>14, <1>15, <1>16
     DEF Next, BackendStep, NodeStep
-------------------------------------------------------------------------------
LEMMA InvInvariant == Spec => []Inv
<1>1. Inv /\ [Next]_daVars => Inv'
  BY ShapeStep, CarriedStep, ToldStep, WorkingStep, LoneStep DEF Inv
<1>. QED
  BY InitInv, <1>1, PTL DEF Spec

\* Through lost requests, lost answers, redispatches and crashes of both ends the
\* node carries out each action once: the journal decides, not what the backend
\* believes (handleOperation in client.mjs, begin and commit of journal.mjs).
THEOREM ExecutedOnceCorrect == Spec => []ExecutedOnce
<1>1. Inv => ExecutedOnce
  BY DEF Inv, Shape, Carried, ExecutedOnce
<1>. QED
  BY InvInvariant, <1>1, PTL

\* What the backend records as succeeded, be it from an answer or from the journal
\* after a reconnect, the node has carried out and journaled as committed
\* (_dispatch_ready of runtime.py, apply_entry of reconciliation.py).
THEOREM SucceededIsCommittedCorrect == Spec => []SucceededIsCommitted
<1>1. Inv => SucceededIsCommitted
  BY DEF Inv, Carried, Told, SucceededIsCommitted
<1>. QED
  BY InvInvariant, <1>1, PTL

\* While the outcome of an action is unknown the task is neither queued nor run:
\* at most one action of the task is on its way, so the one that is reconciled is
\* all the task has to wait for (apply_missing requeues it without looking).
THEOREM UnknownStopsTaskCorrect == Spec => []UnknownStopsTask
<1>1. Inv => UnknownStopsTask
  BY DEF Inv
<1>. QED
  BY InvInvariant, <1>1, PTL
===============================================================================
