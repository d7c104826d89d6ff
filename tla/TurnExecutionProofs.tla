-------------------------- MODULE TurnExecutionProofs --------------------------
(***************************************************************************)
(* What holds of one thread for every set of turns, requests, decisions and *)
(* handlers, and every number of crashes and stalls.                       *)
(***************************************************************************)
EXTENDS TurnExecution, FiniteSetTheorems, TLAPS

LeaseRow == [owner : Owner \cup {NoOwner}, grant : Process \cup {NoProcess}, live : BOOLEAN]
TurnRow == [status : {"absent", "not_started", "running", "completed", "interrupted"},
            exec : Request \cup {NoProcess}, live : BOOLEAN]
ReqState == [pc : {"idle", "acquire", "preempt", "run", "done"}, turn : Turn \cup {0},
             lost : BOOLEAN]
HandState == [pc : {"idle", "acquire", "recheck", "decide", "apply"},
              dec : Decision \cup {NoOwner}, reuse : BOOLEAN, stale : BOOLEAN]

\* The shape of every variable; and who is under way has something to work on.
Shape ==
    /\ lease \in LeaseRow /\ turn \in [Turn -> TurnRow]
    /\ \A t \in Turn : turn[t].live => turn[t].status = "running"
    /\ snapshot \in [current : Turn \cup {0}, previous : Turn \cup {0}]
    /\ decision \in [Decision -> [recorded : Handler \cup {NoProcess}, applied : Nat]]
    /\ req \in [Request -> ReqState] /\ hand \in [Handler -> HandState]
    /\ crashes \in 0 .. MaxCrashes /\ stalls \in 0 .. MaxStalls
    /\ \A r \in Request : InFlight(r) => req[r].turn \in Turn
    /\ \A h \in Handler : hand[h].pc # "idle" => hand[h].dec \in Decision

LEMMA ShapeTypes == Shape => TypeOK
  BY DEF Shape, TypeOK, LeaseRow, TurnRow, ReqState, HandState

\* What is done to one row or one process, and what is left of it.
LEMMA LeaseUpdate ==
    ASSUME NEW b \in BOOLEAN, NEW l \in LeaseRow
    PROVE  /\ [l EXCEPT !.live = b] \in LeaseRow
           /\ [l EXCEPT !.live = b].owner = l.owner
           /\ [l EXCEPT !.live = b].grant = l.grant
           /\ [l EXCEPT !.live = b].live = b
  BY DEF LeaseRow

LEMMA TurnLive ==
    ASSUME NEW x \in TurnRow, NEW b \in BOOLEAN
    PROVE  /\ [x EXCEPT !.live = b] \in TurnRow
           /\ [x EXCEPT !.live = b].status = x.status
           /\ [x EXCEPT !.live = b].exec = x.exec
           /\ [x EXCEPT !.live = b].live = b
  BY DEF TurnRow

LEMMA TurnOpened ==
    ASSUME NEW x \in TurnRow
    PROVE  /\ [x EXCEPT !.status = "not_started"] \in TurnRow
           /\ [x EXCEPT !.status = "not_started"].status = "not_started"
           /\ [x EXCEPT !.status = "not_started"].live = x.live
  BY DEF TurnRow

LEMMA TurnClosed ==
    ASSUME NEW x \in TurnRow, NEW s \in {"completed", "interrupted"}
    PROVE  /\ [x EXCEPT !.status = s, !.live = FALSE] \in TurnRow
           /\ [x EXCEPT !.status = s, !.live = FALSE].status = s
           /\ [x EXCEPT !.status = s, !.live = FALSE].exec = x.exec
           /\ [x EXCEPT !.status = s, !.live = FALSE].live = FALSE
  BY DEF TurnRow

LEMMA HandUpdate ==
    ASSUME NEW x \in HandState, NEW p \in {"recheck", "decide", "apply"}
    PROVE  /\ [x EXCEPT !.pc = p] \in HandState
           /\ [x EXCEPT !.pc = p].pc = p
           /\ [x EXCEPT !.pc = p].dec = x.dec
           /\ [x EXCEPT !.pc = p].stale = x.stale
           /\ [x EXCEPT !.stale = TRUE] \in HandState
           /\ [x EXCEPT !.stale = TRUE].pc = x.pc
           /\ [x EXCEPT !.stale = TRUE].dec = x.dec
           /\ [x EXCEPT !.pc = "idle", !.stale = FALSE] \in HandState
           /\ [x EXCEPT !.pc = "idle", !.stale = FALSE].pc = "idle"
           /\ [x EXCEPT !.pc = "idle", !.stale = FALSE].stale = FALSE
  BY DEF HandState

LEMMA GotoEffect ==
    ASSUME req \in [Request -> ReqState], NEW r \in Request, NEW t \in Turn \cup {0},
           NEW p \in {"idle", "acquire", "preempt", "run", "done"}, Goto(r, t, p)
    PROVE  /\ req' \in [Request -> ReqState]
           /\ req'[r].pc = p /\ req'[r].turn = t
           /\ \A q \in Request \ {r} : req'[q] = req[q]
<1>1. [pc |-> p, turn |-> t, lost |-> FALSE] \in ReqState
  BY DEF ReqState
<1>2. req' = [req EXCEPT ![r] = [pc |-> p, turn |-> t, lost |-> FALSE]]
  BY DEF Goto
<1> QED BY <1>1, <1>2

\* A handler that leaves, or goes on.
LEMMA LeaveEffect ==
    ASSUME hand \in [Handler -> HandState], NEW h \in Handler, Leave(h)
    PROVE  /\ hand' \in [Handler -> HandState]
           /\ hand'[h].pc = "idle" /\ ~hand'[h].stale
           /\ \A g \in Handler \ {h} : hand'[g] = hand[g]
<1> DEFINE x == [hand[h] EXCEPT !.pc = "idle", !.stale = FALSE]
<1>1. hand[h] \in HandState
  OBVIOUS
<1>2. x \in HandState /\ x.pc = "idle" /\ ~x.stale
  BY <1>1, HandUpdate
<1>3. hand' = [hand EXCEPT ![h] = x]
  BY DEF Leave
<1> HIDE DEF x
<1> QED BY <1>2, <1>3

LEMMA AdvanceEffect ==
    ASSUME hand \in [Handler -> HandState], NEW h \in Handler,
           NEW p \in {"recheck", "decide", "apply"}, Advance(h, p)
    PROVE  /\ hand' \in [Handler -> HandState]
           /\ hand'[h].pc = p /\ hand'[h].dec = hand[h].dec /\ hand'[h].stale = hand[h].stale
           /\ \A g \in Handler \ {h} : hand'[g] = hand[g]
<1> DEFINE x == [hand[h] EXCEPT !.pc = p]
<1>1. hand[h] \in HandState
  OBVIOUS
<1>2. x \in HandState /\ x.pc = p /\ x.dec = hand[h].dec /\ x.stale = hand[h].stale
  BY <1>1 DEF HandState
<1>3. hand' = [hand EXCEPT ![h] = x]
  BY DEF Advance
<1> HIDE DEF x
<1> QED BY <1>2, <1>3

\* What the functions of thread_lease.py leave in the row.
LEMMA AcquireEffect ==
    ASSUME NEW p \in Process, NEW o \in Owner, Acquire(p, o)
    PROVE  /\ FreeFor(o) /\ lease' \in LeaseRow
           /\ lease'.owner = o /\ lease'.grant = p /\ lease'.live
  BY DEF Acquire, LeaseRow

LEMMA ReleaseEffect ==
    ASSUME lease \in LeaseRow
    PROVE  /\ \A o : ReleasedBy(o) \in LeaseRow /\ (lease.owner # o => ReleasedBy(o) = lease)
           /\ \A p, o : ReleasedWith(p, o) \in LeaseRow /\ (~Holds(p, o) => ReleasedWith(p, o) = lease)
  BY LeaseUpdate DEF ReleasedBy, ReleasedWith

\* A turn is only ever interrupted by its execution_id, and the lease given
\* back by its owner.
LEMMA MarkInterruptedEffect ==
    ASSUME Shape, NEW t \in Turn, NEW e, MarkInterrupted(t, e)
    PROVE  /\ turn' \in [Turn -> TurnRow] /\ lease' \in LeaseRow
           /\ \A s \in Turn : /\ turn'[s] = turn[s] \/ s = t
                              /\ turn'[s].live => turn'[s].status = "running"
           /\ turn'[t].exec = turn[t].exec
           /\ \/ turn'[t] = turn[t]
              \/ turn[t].status = "running" /\ turn'[t].status = "interrupted"
           /\ lease.owner # t => lease' = lease
<1> DEFINE x == [turn[t] EXCEPT !.status = "interrupted", !.live = FALSE]
<1>1. /\ turn \in [Turn -> TurnRow] /\ lease \in LeaseRow
      /\ \A s \in Turn : turn[s].live => turn[s].status = "running"
  BY DEF Shape
<1>2. x \in TurnRow /\ x.status = "interrupted" /\ x.exec = turn[t].exec /\ ~x.live
  <2>1. turn[t] \in TurnRow
    BY <1>1
  <2> QED BY <2>1, TurnLive, TurnOpened, TurnClosed
<1>3. CASE turn[t].status = "running" /\ turn[t].exec = e
  <2>1. turn' = [turn EXCEPT ![t] = x] /\ lease' = ReleasedBy(t)
    BY <1>3 DEF MarkInterrupted
  <2> HIDE DEF x
  <2> QED BY <1>1, <1>2, <1>3, <2>1, ReleaseEffect
<1>4. CASE ~(turn[t].status = "running" /\ turn[t].exec = e)
  BY <1>1, <1>4 DEF MarkInterrupted
<1> QED BY <1>3, <1>4
-------------------------------------------------------------------------------
LEMMA InitShape == Init => Shape
<1> USE TurnAssumption
<1> SUFFICES ASSUME Init PROVE Shape
  OBVIOUS
<1>1. lease \in LeaseRow /\ turn \in [Turn -> TurnRow]
  BY DEF Init, LeaseRow, TurnRow
<1>2. req \in [Request -> ReqState] /\ hand \in [Handler -> HandState]
  BY DEF Init, ReqState, HandState
<1>3. /\ snapshot \in [current : Turn \cup {0}, previous : Turn \cup {0}]
      /\ decision \in [Decision -> [recorded : Handler \cup {NoProcess}, applied : Nat]]
      /\ crashes \in 0 .. MaxCrashes /\ stalls \in 0 .. MaxStalls
  BY DEF Init
<1>4. /\ \A t \in Turn : ~turn[t].live
      /\ \A r \in Request : req[r].pc = "idle"
      /\ \A h \in Handler : hand[h].pc = "idle"
  BY DEF Init
<1> QED BY <1>1, <1>2, <1>3, <1>4 DEF Shape, InFlight

\* What a request does to itself, and the rest of the shape.
LEMMA RequestShape ==
    ASSUME Shape, NEW r \in Request, NEW t \in Turn, NEW p \in {"acquire", "preempt", "run", "done"},
           Goto(r, t, p), lease' \in LeaseRow, turn' \in [Turn -> TurnRow],
           \A s \in Turn : turn'[s].live => turn'[s].status = "running",
           snapshot' \in [current : Turn \cup {0}, previous : Turn \cup {0}],
           crashes' \in 0 .. MaxCrashes,
           UNCHANGED <<decision, hand, stalls>>
    PROVE  Shape'
<1>1. /\ req' \in [Request -> ReqState] /\ req'[r].turn = t
      /\ \A q \in Request \ {r} : req'[q] = req[q]
  BY GotoEffect DEF Shape
<1> QED BY <1>1 DEF Shape, InFlight

LEMMA HandlerShape ==
    ASSUME Shape, NEW h \in Handler, hand[h].pc # "idle",
           Leave(h) \/ \E p \in {"recheck", "decide", "apply"} : Advance(h, p),
           lease' \in LeaseRow, crashes' \in 0 .. MaxCrashes,
           decision' \in [Decision -> [recorded : Handler \cup {NoProcess}, applied : Nat]],
           UNCHANGED <<turn, snapshot, req, stalls>>
    PROVE  Shape'
<1>1. /\ hand' \in [Handler -> HandState]
      /\ hand'[h].pc = "idle" \/ hand'[h].dec = hand[h].dec
      /\ \A g \in Handler \ {h} : hand'[g] = hand[g]
  BY LeaveEffect, AdvanceEffect DEF Shape
<1> QED BY <1>1 DEF Shape, InFlight

LEMMA RequestStepShape ==
    ASSUME Shape, NEW r \in Request,
           \/ \E t \in Turn : Resolve(r, t)
           \/ Proceed(r) \/ Heartbeat(r) \/ FailTurn(r) \/ CrashRequest(r) \/ StallRequest(r)
    PROVE  Shape'
<1> USE TurnAssumption
<1> DEFINE t == req[r].turn
<1>0. /\ lease \in LeaseRow /\ turn \in [Turn -> TurnRow]
      /\ \A s \in Turn : turn[s].live => turn[s].status = "running"
      /\ snapshot \in [current : Turn \cup {0}, previous : Turn \cup {0}]
      /\ crashes \in 0 .. MaxCrashes /\ stalls \in 0 .. MaxStalls
      /\ req \in [Request -> ReqState]
      /\ InFlight(r) => t \in Turn
  BY DEF Shape
<1>1. ASSUME NEW s \in Turn, Resolve(r, s) PROVE Shape'
  <2>1. /\ turn' \in [Turn -> TurnRow] /\ lease' \in LeaseRow
        /\ \A u \in Turn : turn'[u].live => turn'[u].status = "running"
    <3>1. CASE turn' = [turn EXCEPT ![s].status = "not_started"] /\ turn[s].status = "absent" /\ UNCHANGED lease
      <4> DEFINE x == [turn[s] EXCEPT !.status = "not_started"]
      <4>1. x \in TurnRow /\ ~x.live
        BY <1>0, <3>1 DEF TurnRow
      <4>2. turn' = [turn EXCEPT ![s] = x]
        BY <3>1
      <4> HIDE DEF x
      <4> QED BY <1>0, <3>1, <4>1, <4>2
    <3>2. CASE \E e : MarkInterrupted(s, e)
      BY <3>2, MarkInterruptedEffect
    <3>3. CASE UNCHANGED <<turn, lease>>
      BY <1>0, <3>3
    <3> QED BY <1>1, <3>1, <3>2, <3>3 DEF Resolve, NextTurn
  <2>2. Goto(r, s, "acquire") \/ Goto(r, s, "done")
    BY <1>1 DEF Resolve
  <2> QED BY <1>0, <1>1, <2>1, <2>2, RequestShape DEF Resolve
<1>2. CASE AcquireForTurn(r)
  <2>1. t \in Turn
    BY <1>0, <1>2 DEF AcquireForTurn, InFlight
  <2>2. lease' \in LeaseRow
    BY <1>2, <2>1, AcquireEffect DEF AcquireForTurn, Owner, Process
  <2> QED BY <1>0, <1>2, <2>1, <2>2, RequestShape DEF AcquireForTurn
<1>3. CASE GiveUp(r) \/ CrashRequest(r)
  <2>1. t \in Turn /\ Goto(r, t, "done") /\ UNCHANGED <<rows, hand, stalls>>
    BY <1>0, <1>3 DEF GiveUp, CrashRequest, InFlight
  <2>2. crashes' \in 0 .. MaxCrashes
    BY <1>0, <1>3 DEF GiveUp, CrashRequest
  <2> QED BY <1>0, <2>1, <2>2, RequestShape DEF rows
<1>4. CASE Preempt(r)
  <2>1. t \in Turn
    BY <1>0, <1>4 DEF Preempt, InFlight
  <2>2. [status |-> "running", exec |-> r, live |-> TRUE] \in TurnRow
    BY DEF TurnRow
  <2>3. /\ turn' \in [Turn -> TurnRow]
        /\ \A u \in Turn : turn'[u].live => turn'[u].status = "running"
    BY <1>0, <1>4, <2>1, <2>2 DEF Preempt
  <2>4. Goto(r, t, "run") \/ Goto(r, t, "done")
    BY <1>4 DEF Preempt
  <2> QED BY <1>0, <1>4, <2>1, <2>3, <2>4, RequestShape DEF Preempt
<1>5. CASE req[r].pc = "run" /\ (FinalizeLost(r) \/ FailTurn(r))
  <2>1. t \in Turn
    BY <1>0, <1>5 DEF InFlight
  <2>2. MarkInterrupted(t, r) \/ UNCHANGED <<turn, lease>>
    BY <1>5 DEF FinalizeLost, FailTurn
  <2>3. /\ turn' \in [Turn -> TurnRow] /\ lease' \in LeaseRow
        /\ \A u \in Turn : turn'[u].live => turn'[u].status = "running"
    BY <1>0, <2>1, <2>2, MarkInterruptedEffect
  <2> QED BY <1>0, <1>5, <2>1, <2>3, RequestShape DEF FinalizeLost, FailTurn
<1>6. CASE FinalizeTurn(r)
  <2> DEFINE x == [turn[t] EXCEPT !.status = "completed", !.live = FALSE]
  <2>1. t \in Turn
    BY <1>0, <1>6 DEF FinalizeTurn, InFlight
  <2>2. x \in TurnRow /\ ~x.live
    <3>1. turn[t] \in TurnRow
      BY <1>0, <2>1
    <3> QED BY <3>1, TurnLive, TurnOpened, TurnClosed
  <2>3. turn' = [turn EXCEPT ![t] = x] \/ turn' = turn
    BY <1>6 DEF FinalizeTurn
  <2>4. /\ turn' \in [Turn -> TurnRow]
        /\ \A u \in Turn : turn'[u].live => turn'[u].status = "running"
    <3> HIDE DEF x
    <3> QED BY <1>0, <2>1, <2>2, <2>3
  <2>5. lease' \in LeaseRow
    BY <1>0, <1>6, ReleaseEffect DEF FinalizeTurn
  <2>6. snapshot' \in [current : Turn \cup {0}, previous : Turn \cup {0}]
    BY <1>0, <1>6, <2>1 DEF FinalizeTurn, Rotated
  <2> QED BY <1>0, <1>6, <2>1, <2>4, <2>5, <2>6, RequestShape DEF FinalizeTurn
<1>7. CASE Heartbeat(r)
  <2>1. t \in Turn /\ req[r].pc = "run"
    BY <1>0, <1>7 DEF Heartbeat, InFlight
  <2>2. /\ turn' \in [Turn -> TurnRow]
        /\ \A u \in Turn : turn'[u].live => turn'[u].status = "running"
    <3> DEFINE x == [turn[t] EXCEPT !.live = TRUE]
    <3>1. x \in TurnRow /\ x.status = turn[t].status
      <4>1. turn[t] \in TurnRow
        BY <1>0, <2>1
      <4> QED BY <4>1, TurnLive, TurnOpened, TurnClosed
    <3>2. turn' = turn \/ (turn[t].status = "running" /\ turn' = [turn EXCEPT ![t] = x])
      BY <1>7 DEF Heartbeat, Executes
    <3> HIDE DEF x
    <3> QED BY <1>0, <2>1, <3>1, <3>2
  <2>3. lease' \in LeaseRow
    BY <1>0, <1>7, LeaseUpdate DEF Heartbeat
  <2>4. req' \in [Request -> ReqState] /\ \A q \in Request : req'[q].turn = req[q].turn /\ req'[q].pc = req[q].pc
    <3>1. PICK b \in BOOLEAN : req' = [req EXCEPT ![r].lost = b]
      BY <1>0, <1>7 DEF Heartbeat, ReqState
    <3> DEFINE x == [req[r] EXCEPT !.lost = b]
    <3>2. x \in ReqState /\ x.turn = req[r].turn /\ x.pc = req[r].pc
      BY <1>0 DEF ReqState
    <3>3. req' = [req EXCEPT ![r] = x]
      BY <3>1
    <3> HIDE DEF x
    <3> QED BY <1>0, <3>2, <3>3
  <2> QED BY <1>7, <2>2, <2>3, <2>4 DEF Heartbeat, Shape, InFlight
<1>8. CASE StallRequest(r)
  <2>1. t \in Turn
    BY <1>0, <1>8 DEF StallRequest, InFlight
  <2>2. /\ turn' \in [Turn -> TurnRow]
        /\ \A u \in Turn : turn'[u].live => turn'[u].status = "running"
    <3> DEFINE x == [turn[t] EXCEPT !.live = FALSE]
    <3>1. x \in TurnRow /\ ~x.live
      <4>1. turn[t] \in TurnRow
        BY <1>0, <2>1
      <4> QED BY <4>1, TurnLive, TurnOpened, TurnClosed
    <3>2. turn' = turn \/ turn' = [turn EXCEPT ![t] = x]
      BY <1>8 DEF StallRequest
    <3> HIDE DEF x
    <3> QED BY <1>0, <2>1, <3>1, <3>2
  <2>3. lease' \in LeaseRow
    BY <1>0, <1>8, ReleaseEffect DEF StallRequest
  <2>4. stalls' \in 0 .. MaxStalls
    BY <1>0, <1>8 DEF StallRequest
  <2> QED BY <1>8, <2>2, <2>3, <2>4 DEF StallRequest, Shape, InFlight
<1> QED BY <1>1, <1>2, <1>3, <1>4, <1>5, <1>6, <1>7, <1>8 DEF Proceed, FinalizeLost, FailTurn

LEMMA HandlerStepShape ==
    ASSUME Shape, NEW h \in Handler,
           \/ \E d \in Decision : StartDecision(h, d)
           \/ ProceedHandler(h) \/ FailDecision(h) \/ CrashHandler(h) \/ StallHandler(h)
    PROVE  Shape'
<1> USE TurnAssumption
<1> DEFINE d == hand[h].dec
<1>0. /\ lease \in LeaseRow /\ hand \in [Handler -> HandState]
      /\ decision \in [Decision -> [recorded : Handler \cup {NoProcess}, applied : Nat]]
      /\ crashes \in 0 .. MaxCrashes /\ stalls \in 0 .. MaxStalls
      /\ hand[h].pc # "idle" => d \in Decision
  BY DEF Shape
<1>1. ASSUME NEW e \in Decision, StartDecision(h, e) PROVE Shape'
  <2> DEFINE x == [pc |-> "acquire", dec |-> e, stale |-> FALSE,
                   reuse |-> decision[e].recorded # NoProcess]
  <2>1. x \in HandState /\ x.dec = e
    BY DEF HandState
  <2>2. hand' = [hand EXCEPT ![h] = x]
    BY <1>1 DEF StartDecision
  <2> HIDE DEF x
  <2>3. /\ hand' \in [Handler -> HandState] /\ hand'[h].dec = e
        /\ \A g \in Handler \ {h} : hand'[g] = hand[g]
    BY <1>0, <2>1, <2>2
  <2> QED BY <1>1, <2>3 DEF StartDecision, Shape, rows, InFlight
<1>2. lease' \in LeaseRow \/ ~GiveBack(h)
  BY <1>0, ReleaseEffect DEF GiveBack
<1>3. CASE AcquireForDecision(h)
  <2>1. lease' \in LeaseRow
    BY <1>0, <1>3, AcquireEffect DEF AcquireForDecision, Owner, Process
  <2> QED BY <1>0, <1>3, <2>1, HandlerShape DEF AcquireForDecision
<1>4. CASE RecheckTurn(h)
  <2>1. lease' \in LeaseRow
    BY <1>0, <1>2, <1>4 DEF RecheckTurn
  <2> QED BY <1>0, <1>4, <2>1, HandlerShape DEF RecheckTurn, GiveBack
<1>5. CASE Decide(h)
  <2>1. decision' \in [Decision -> [recorded : Handler \cup {NoProcess}, applied : Nat]]
    <3>1. [decision[d] EXCEPT !.recorded = h]
             \in [recorded : Handler \cup {NoProcess}, applied : Nat]
      BY <1>0, <1>5 DEF Decide
    <3> QED BY <1>0, <1>5, <3>1 DEF Decide
  <2> QED BY <1>0, <1>5, <2>1, HandlerShape DEF Decide
<1>6. CASE ApplyDecision(h)
  <2>1. decision' \in [Decision -> [recorded : Handler \cup {NoProcess}, applied : Nat]]
    BY <1>0, <1>6 DEF ApplyDecision
  <2> QED BY <1>0, <1>2, <1>6, <2>1, HandlerShape DEF ApplyDecision, GiveBack
<1>7. CASE FailDecision(h)
  BY <1>0, <1>2, <1>7, HandlerShape DEF FailDecision, GiveBack
<1>8. CASE CrashHandler(h)
  <2>1. crashes' \in 0 .. MaxCrashes
    BY <1>0, <1>8 DEF CrashHandler
  <2> QED BY <1>0, <1>8, <2>1, HandlerShape DEF CrashHandler, rows
<1>9. CASE StallHandler(h)
  <2> DEFINE x == [hand[h] EXCEPT !.stale = TRUE]
  <2>1. x \in HandState /\ x.pc = hand[h].pc /\ x.dec = d
    <3>1. hand[h] \in HandState
      BY <1>0
    <3> QED BY <3>1, HandUpdate
  <2>2. hand' = [hand EXCEPT ![h] = x]
    BY <1>9 DEF StallHandler
  <2>3. /\ hand' \in [Handler -> HandState] /\ hand'[h].dec = d /\ hand'[h].pc = hand[h].pc
        /\ \A g \in Handler \ {h} : hand'[g] = hand[g]
    <3> HIDE DEF x
    <3> QED BY <1>0, <2>1, <2>2
  <2>4. lease' \in LeaseRow
    BY <1>0, <1>9, ReleaseEffect DEF StallHandler
  <2>5. stalls' \in 0 .. MaxStalls
    BY <1>0, <1>9 DEF StallHandler
  <2> QED BY <1>9, <2>3, <2>4, <2>5 DEF StallHandler, Shape, InFlight
<1> QED BY <1>1, <1>3, <1>4, <1>5, <1>6, <1>7, <1>8, <1>9 DEF ProceedHandler

LEMMA StepShape == Shape /\ [Next]_turnVars => Shape'
<1> SUFFICES ASSUME Shape, [Next]_turnVars PROVE Shape'
  OBVIOUS
<1>1. CASE LeaseExpires
  <2>1. lease' \in LeaseRow
    BY <1>1, LeaseUpdate DEF LeaseExpires, Shape
  <2> QED BY <1>1, <2>1 DEF LeaseExpires, Shape, InFlight
<1>2. ASSUME NEW t \in Turn, TurnExpires(t) PROVE Shape'
  <2> DEFINE x == [turn[t] EXCEPT !.live = FALSE]
  <2>1. turn[t] \in TurnRow /\ x \in TurnRow /\ ~x.live
    <3>1. turn[t] \in TurnRow
      BY DEF Shape
    <3> QED BY <3>1, TurnLive, TurnOpened, TurnClosed
  <2>2. turn' = [turn EXCEPT ![t] = x]
    BY <1>2 DEF TurnExpires
  <2>3. /\ turn' \in [Turn -> TurnRow]
        /\ \A u \in Turn : turn'[u].live => turn'[u].status = "running"
    <3> HIDE DEF x
    <3> QED BY <2>1, <2>2 DEF Shape
  <2> QED BY <1>2, <2>3 DEF TurnExpires, Shape, InFlight
<1>3. CASE UNCHANGED turnVars
  BY <1>3 DEF turnVars, rows, Shape, InFlight
<1> QED BY <1>1, <1>2, <1>3, RequestStepShape, HandlerStepShape DEF Next
-------------------------------------------------------------------------------
(***************************************************************************)
(* A turn that was started keeps its execution_id, and is never open again; *)
(* so whoever runs it started it, and nobody else can.                     *)
(***************************************************************************)
Started == {"running", "completed", "interrupted"}

RunsItsTurn ==
    \A r \in Request : req[r].pc = "run" =>
        turn[req[r].turn].exec = r /\ turn[req[r].turn].status \in Started

\* What one step may do to the record of a turn.
TurnStep(t) ==
    /\ turn[t].status \in Started => turn'[t].exec = turn[t].exec /\ turn'[t].status \in Started
    /\ turn'[t].status = "completed" =>
          \/ turn[t].status = "completed"
          \/ snapshot' = Rotated(snapshot, t)

LEMMA EveryTurnStep == ASSUME Shape, [Next]_turnVars, NEW t \in Turn PROVE TurnStep(t)
<1> USE TurnAssumption
<1>0. /\ turn \in [Turn -> TurnRow]
      /\ \A r \in Request : InFlight(r) => req[r].turn \in Turn
  BY DEF Shape
<1>1. ASSUME NEW s \in Turn, NEW x \in TurnRow, turn' = [turn EXCEPT ![s] = x],
             turn[s].status \in Started => x.exec = turn[s].exec /\ x.status \in Started,
             x.status = "completed" =>
                turn[s].status = "completed" \/ snapshot' = Rotated(snapshot, s)
      PROVE  TurnStep(t)
  BY <1>0, <1>1 DEF TurnStep
<1>2. CASE turn' = turn
  BY <1>2 DEF TurnStep
<1>3. ASSUME NEW s \in Turn, NEW e, MarkInterrupted(s, e) PROVE TurnStep(t)
  BY <1>3, MarkInterruptedEffect DEF TurnStep, Started
<1>4. ASSUME NEW s \in Turn, NEW b \in BOOLEAN, turn' = [turn EXCEPT ![s].live = b]
      PROVE  TurnStep(t)
  <2> DEFINE x == [turn[s] EXCEPT !.live = b]
  <2>1. x \in TurnRow /\ x.status = turn[s].status /\ x.exec = turn[s].exec
    <3>1. turn[s] \in TurnRow
      BY <1>0
    <3> QED BY <3>1, TurnLive
  <2>2. turn' = [turn EXCEPT ![s] = x]
    BY <1>4
  <2> HIDE DEF x
  <2> QED BY <1>1, <2>1, <2>2
<1>5. ASSUME NEW r \in Request, NEW s \in Turn, Resolve(r, s) PROVE TurnStep(t)
  <2>1. CASE NextTurn(s) /\ turn' = [turn EXCEPT ![s].status = "not_started"]
    <3> DEFINE x == [turn[s] EXCEPT !.status = "not_started"]
    <3>1. x \in TurnRow /\ x.status = "not_started"
      <4>1. turn[s] \in TurnRow
        BY <1>0
      <4> QED BY <4>1, TurnLive, TurnOpened, TurnClosed
    <3>2. turn' = [turn EXCEPT ![s] = x] /\ turn[s].status \notin Started
      BY <2>1 DEF NextTurn, Started
    <3> HIDE DEF x
    <3> QED BY <1>1, <3>1, <3>2
  <2>2. CASE turn' = turn \/ \E e : MarkInterrupted(s, e)
    BY <1>2, <1>3, <2>2
  <2> QED BY <1>5, <2>1, <2>2 DEF Resolve
<1>6. ASSUME NEW r \in Request, Preempt(r) PROVE TurnStep(t)
  <2> DEFINE s == req[r].turn
             x == [status |-> "running", exec |-> r, live |-> TRUE]
  <2>1. s \in Turn
    BY <1>0, <1>6 DEF Preempt, InFlight
  <2>2. turn' = turn \/ (turn' = [turn EXCEPT ![s] = x] /\ turn[s].status \notin Started)
    BY <1>6 DEF Preempt, CanStart, Started
  <2>3. x \in TurnRow /\ x.status = "running"
    BY DEF TurnRow
  <2> HIDE DEF s, x
  <2> QED BY <1>1, <1>2, <2>1, <2>2, <2>3
<1>7. ASSUME NEW r \in Request, FinalizeTurn(r) PROVE TurnStep(t)
  <2> DEFINE s == req[r].turn
             x == [turn[s] EXCEPT !.status = "completed", !.live = FALSE]
  <2>1. s \in Turn
    BY <1>0, <1>7 DEF FinalizeTurn, InFlight
  <2>2. turn' = turn \/ (turn' = [turn EXCEPT ![s] = x] /\ snapshot' = Rotated(snapshot, s))
    BY <1>7 DEF FinalizeTurn
  <2>3. x \in TurnRow /\ x.status = "completed" /\ x.exec = turn[s].exec
    <3>1. turn[s] \in TurnRow
      BY <1>0, <2>1
    <3> QED BY <3>1, TurnLive, TurnOpened, TurnClosed
  <2> HIDE DEF s, x
  <2> QED BY <1>1, <1>2, <2>1, <2>2, <2>3 DEF Started
<1>8. ASSUME NEW r \in Request, Heartbeat(r) \/ StallRequest(r) PROVE TurnStep(t)
  <2>1. req[r].turn \in Turn
    BY <1>0, <1>8 DEF Heartbeat, StallRequest, InFlight
  <2> QED BY <1>2, <1>4, <1>8, <2>1 DEF Heartbeat, StallRequest
<1>9. ASSUME NEW r \in Request, FinalizeLost(r) \/ FailTurn(r) PROVE TurnStep(t)
  <2>1. req[r].turn \in Turn
    BY <1>0, <1>9 DEF FinalizeLost, FailTurn, InFlight
  <2> QED BY <1>2, <1>3, <1>9, <2>1 DEF FinalizeLost, FailTurn
<1>10. ASSUME NEW s \in Turn, TurnExpires(s) PROVE TurnStep(t)
  BY <1>4, <1>10 DEF TurnExpires
<1>11. ASSUME NEW r \in Request, AcquireForTurn(r) \/ GiveUp(r) \/ CrashRequest(r)
       PROVE  turn' = turn
  BY <1>11 DEF AcquireForTurn, GiveUp, CrashRequest, rows
<1>12. ASSUME NEW h \in Handler,
              \/ \E d \in Decision : StartDecision(h, d)
              \/ ProceedHandler(h) \/ FailDecision(h) \/ CrashHandler(h) \/ StallHandler(h)
       PROVE  turn' = turn
  BY <1>12 DEF StartDecision, ProceedHandler, AcquireForDecision, RecheckTurn, Decide,
               ApplyDecision, FailDecision, CrashHandler, StallHandler, rows
<1>13. CASE LeaseExpires \/ UNCHANGED turnVars
  BY <1>2, <1>13 DEF LeaseExpires, turnVars, rows
<1> QED BY <1>2, <1>5, <1>6, <1>7, <1>8, <1>9, <1>10, <1>11, <1>12, <1>13 DEF Next, Proceed

\* A request that runs either ran before, or has just started its turn.
LEMMA EveryRequestStep ==
    ASSUME Shape, [Next]_turnVars, NEW r \in Request, req'[r].pc = "run"
    PROVE  /\ req'[r].turn = req[r].turn /\ req[r].turn \in Turn
           /\ \/ req[r].pc = "run"
              \/ /\ Preempt(r) /\ CanStart(req[r].turn)
                 /\ \A q \in Request \ {r} : req'[q] = req[q]
<1>0. /\ req \in [Request -> ReqState]
      /\ req[r].pc \in {"acquire", "preempt", "run"} => req[r].turn \in Turn
  BY DEF Shape, InFlight
<1>1. ASSUME NEW q \in Request, NEW t \in Turn \cup {0},
             NEW p \in {"idle", "acquire", "preempt", "done"}, Goto(q, t, p)
      PROVE  req'[r] = req[r]
  BY <1>0, <1>1, GotoEffect
<1>2. CASE req'[r] = req[r]
  BY <1>0, <1>2
<1>3. ASSUME NEW q \in Request, Preempt(q) PROVE
             req'[r] = req[r] \/ (Preempt(r) /\ CanStart(req[r].turn) /\ req'[r].turn = req[r].turn
                                  /\ \A u \in Request \ {r} : req'[u] = req[u])
  <2>1. req[q].turn \in Turn
    BY <1>3 DEF Preempt, Shape, InFlight
  <2>2. CASE CanStart(req[q].turn) /\ Goto(q, req[q].turn, "run")
    BY <1>0, <1>3, <2>1, <2>2, GotoEffect
  <2>3. CASE Goto(q, req[q].turn, "done")
    BY <1>1, <2>1, <2>3
  <2> QED BY <1>3, <2>2, <2>3 DEF Preempt
<1>4. ASSUME NEW q \in Request,
             \/ \E t \in Turn : Resolve(q, t)
             \/ AcquireForTurn(q) \/ GiveUp(q) \/ FinalizeLost(q) \/ FinalizeTurn(q)
             \/ FailTurn(q) \/ CrashRequest(q)
      PROVE  req'[r] = req[r]
  <2>1. req[q].turn \in Turn \cup {0}
    BY <1>0 DEF ReqState
  <2>2. \E t \in Turn \cup {0}, p \in {"acquire", "preempt", "done"} : Goto(q, t, p)
    BY <1>4, <2>1 DEF Resolve, AcquireForTurn, GiveUp, FinalizeLost, FinalizeTurn, FailTurn,
                      CrashRequest
  <2> QED BY <1>1, <2>2
<1>5. ASSUME NEW q \in Request, Heartbeat(q)
      PROVE  req'[r].pc = req[r].pc /\ req'[r].turn = req[r].turn
  <2>1. \E b : req' = [req EXCEPT ![q].lost = b]
    BY <1>5 DEF Heartbeat
  <2> QED BY <1>0, <2>1 DEF ReqState
<1>6. ASSUME NEW q \in Request, StallRequest(q) PROVE req' = req
  BY <1>6 DEF StallRequest
<1>7. ASSUME NEW h \in Handler,
             \/ \E d \in Decision : StartDecision(h, d)
             \/ ProceedHandler(h) \/ FailDecision(h) \/ CrashHandler(h) \/ StallHandler(h)
      PROVE  req' = req
  BY <1>7 DEF StartDecision, ProceedHandler, AcquireForDecision, RecheckTurn, Decide,
              ApplyDecision, FailDecision, CrashHandler, StallHandler
<1>8. LeaseExpires \/ (\E t \in Turn : TurnExpires(t)) \/ UNCHANGED turnVars => req' = req
  BY DEF LeaseExpires, TurnExpires, turnVars
<1>9. \/ req'[r].pc = req[r].pc /\ req'[r].turn = req[r].turn
      \/ /\ Preempt(r) /\ CanStart(req[r].turn) /\ req'[r].turn = req[r].turn
         /\ \A q \in Request \ {r} : req'[q] = req[q]
  <2>1. ASSUME NEW q \in Request, Proceed(q) PROVE (req'[r].pc = req[r].pc /\ req'[r].turn = req[r].turn) \/
             (/\ Preempt(r) /\ CanStart(req[r].turn) /\ req'[r].turn = req[r].turn
              /\ \A u \in Request \ {r} : req'[u] = req[u])
    BY <1>3, <1>4, <2>1 DEF Proceed
  <2> QED BY <1>4, <1>5, <1>6, <1>7, <1>8, <2>1 DEF Next
<1> QED BY <1>0, <1>9 DEF Preempt

LEMMA RunsItsTurnStep == Shape /\ RunsItsTurn /\ [Next]_turnVars => RunsItsTurn'
<1> SUFFICES ASSUME Shape, RunsItsTurn, [Next]_turnVars, NEW r \in Request, req'[r].pc = "run"
             PROVE  turn'[req'[r].turn].exec = r /\ turn'[req'[r].turn].status \in Started
  BY DEF RunsItsTurn
<1>1. req'[r].turn = req[r].turn /\ req[r].turn \in Turn
  BY EveryRequestStep
<1>2. CASE req[r].pc = "run"
  BY <1>1, <1>2, EveryTurnStep DEF RunsItsTurn, TurnStep
<1>3. CASE Preempt(r) /\ CanStart(req[r].turn)
  BY <1>1, <1>3 DEF Preempt, Shape, Started
<1> QED BY <1>2, <1>3, EveryRequestStep

LEMMA SnapshotStep == Shape /\ SnapshotIsLatest /\ [Next]_turnVars => SnapshotIsLatest'
<1> USE TurnAssumption
<1> SUFFICES ASSUME Shape, SnapshotIsLatest, [Next]_turnVars, NEW t \in Turn,
                    turn'[t].status = "completed"
             PROVE  t <= snapshot'.current
  BY DEF SnapshotIsLatest
<1>1. snapshot.current \in Nat /\ snapshot'.current \in Nat /\ t \in Nat
  <2>1. /\ snapshot \in [current : Turn \cup {0}, previous : Turn \cup {0}]
        /\ snapshot' \in [current : Turn \cup {0}, previous : Turn \cup {0}]
    BY StepShape DEF Shape
  <2>2. snapshot.current \in Turn \cup {0} /\ snapshot'.current \in Turn \cup {0}
    BY <2>1
  <2>3. \A n \in Turn \cup {0} : n \in Nat
    OBVIOUS
  <2> QED BY <2>2, <2>3
<1>2. CASE snapshot' = Rotated(snapshot, t)
  BY <1>1, <1>2 DEF Rotated
<1>3. snapshot' = snapshot \/ \E s \in Turn : snapshot' = Rotated(snapshot, s)
  BY DEF Next, Resolve, Proceed, AcquireForTurn, GiveUp, Preempt, FinalizeLost, FinalizeTurn,
         Heartbeat, FailTurn, CrashRequest, StallRequest, StartDecision, ProceedHandler,
         AcquireForDecision, RecheckTurn, Decide, ApplyDecision, FailDecision, CrashHandler,
         StallHandler, LeaseExpires, TurnExpires, turnVars, rows, Shape, InFlight
<1>4. snapshot'.current >= snapshot.current
  BY <1>1, <1>3 DEF Rotated
<1>5. CASE turn[t].status = "completed"
  <2>1. t <= snapshot.current
    BY <1>5 DEF SnapshotIsLatest
  <2> QED BY <1>1, <1>4, <2>1
<1> QED BY <1>2, <1>5, EveryTurnStep DEF TurnStep
-------------------------------------------------------------------------------
\* What holds of a thread whatever its processes do.
ThreadInv == Shape /\ RunsItsTurn /\ SnapshotIsLatest

LEMMA ThreadInvHolds == Spec => []ThreadInv
<1>1. Init => ThreadInv
  <2>1. Init => RunsItsTurn /\ SnapshotIsLatest
    BY DEF Init, RunsItsTurn, SnapshotIsLatest
  <2> QED BY <2>1, InitShape DEF ThreadInv
<1>2. ThreadInv /\ [Next]_turnVars => ThreadInv'
  BY StepShape, RunsItsTurnStep, SnapshotStep DEF ThreadInv
<1> QED BY <1>1, <1>2, PTL DEF Spec

\* However requests for the same turn_id overlap, crash and stall, at most one
\* of them executes the turn (the status check of runtime/turn_execution.py).
THEOREM TurnRunsOnceCorrect == Spec => []TurnRunsOnce
<1>1. ThreadInv => TurnRunsOnce
  BY DEF ThreadInv, RunsItsTurn, TurnRunsOnce
<1> QED BY <1>1, ThreadInvHolds, PTL

\* Whatever order the turns complete in, the current snapshot is the one of
\* the last completed turn (_rotate_snapshot).
THEOREM SnapshotIsLatestCorrect == Spec => []SnapshotIsLatest
<1>1. ThreadInv => SnapshotIsLatest
  BY DEF ThreadInv
<1> QED BY <1>1, ThreadInvHolds, PTL
-------------------------------------------------------------------------------
(***************************************************************************)
(* While every process keeps its leases (stalls = 0) the outbox has at most *)
(* one handler at work on a decision, and that one has not applied it yet.  *)
(***************************************************************************)
HandlersApart ==
    /\ \A h \in Handler : ~hand[h].stale
    /\ \A g, h \in Handler :
          hand[g].pc # "idle" /\ hand[h].pc # "idle" /\ hand[g].dec = hand[h].dec => g = h
    /\ \A h \in Handler : hand[h].pc # "idle" => decision[hand[h].dec].applied = 0
    /\ AppliedOnce

LEMMA NoStallYet == Shape /\ [Next]_turnVars /\ stalls' = 0 => stalls = 0
<1> SUFFICES ASSUME Shape, [Next]_turnVars, stalls' = 0 PROVE stalls = 0
  OBVIOUS
<1>1. stalls \in Nat
  BY TurnAssumption DEF Shape
<1>2. stalls' = stalls \/ stalls' = stalls + 1
  BY DEF Next, Resolve, Proceed, AcquireForTurn, GiveUp, Preempt, FinalizeLost, FinalizeTurn,
         Heartbeat, FailTurn, CrashRequest, StallRequest, StartDecision, ProceedHandler,
         AcquireForDecision, RecheckTurn, Decide, ApplyDecision, FailDecision, CrashHandler,
         StallHandler, LeaseExpires, TurnExpires, turnVars
<1> QED BY <1>1, <1>2

LEMMA HandlersApartStep ==
    Shape /\ HandlersApart /\ [Next]_turnVars /\ stalls' = 0 => HandlersApart'
<1> SUFFICES ASSUME Shape, HandlersApart, [Next]_turnVars, stalls' = 0 PROVE HandlersApart'
  OBVIOUS
<1>0. /\ hand \in [Handler -> HandState]
      /\ decision \in [Decision -> [recorded : Handler \cup {NoProcess}, applied : Nat]]
      /\ \A h \in Handler : hand[h].pc # "idle" => hand[h].dec \in Decision
      /\ stalls = 0
  BY NoStallYet DEF Shape
<1> DEFINE SameWork == \A g \in Handler :
              /\ ~hand'[g].stale
              /\ hand'[g].pc # "idle" => hand[g].pc # "idle" /\ hand'[g].dec = hand[g].dec
           SameApplied == \A d \in Decision : decision'[d].applied = decision[d].applied
<1>1. SameWork /\ SameApplied => HandlersApart'
  BY <1>0 DEF HandlersApart, AppliedOnce
<1>2. ASSUME NEW h \in Handler,
             Leave(h) \/ \E p \in {"recheck", "decide", "apply"} : Advance(h, p),
             hand[h].pc # "idle"
      PROVE  SameWork
  BY <1>0, <1>2, LeaveEffect, AdvanceEffect DEF HandlersApart
<1>3. ASSUME NEW h \in Handler, NEW d \in Decision, StartDecision(h, d) PROVE HandlersApart'
  <2> DEFINE x == [pc |-> "acquire", dec |-> d, stale |-> FALSE,
                   reuse |-> decision[d].recorded # NoProcess]
  <2>1. hand' = [hand EXCEPT ![h] = x] /\ x.dec = d /\ ~x.stale
    BY <1>3 DEF StartDecision
  <2> HIDE DEF x
  <2>2. /\ hand'[h].dec = d /\ ~hand'[h].stale
        /\ \A g \in Handler \ {h} : hand'[g] = hand[g]
    BY <1>0, <2>1
  <2>3. \A g \in Handler : hand[g].pc # "idle" => hand[g].dec # d
    BY <1>3 DEF StartDecision, HandlersApart
  <2>4. decision' = decision /\ decision[d].applied = 0
    BY <1>3 DEF StartDecision, Unapplied, rows
  <2> QED BY <2>2, <2>3, <2>4 DEF HandlersApart, AppliedOnce
<1>4. ASSUME NEW h \in Handler, AcquireForDecision(h) \/ RecheckTurn(h) \/ FailDecision(h)
                                \/ CrashHandler(h)
      PROVE  HandlersApart'
  BY <1>1, <1>2, <1>4
     DEF AcquireForDecision, RecheckTurn, FailDecision, CrashHandler, GiveBack, rows
<1>5. ASSUME NEW h \in Handler, Decide(h) PROVE HandlersApart'
  <2> DEFINE d == hand[h].dec
  <2>1. SameWork
    BY <1>2, <1>5 DEF Decide
  <2>2. SameApplied
    <3>1. decision' = decision \/ decision' = [decision EXCEPT ![d].recorded = h]
      BY <1>5 DEF Decide
    <3> QED BY <1>0, <3>1
  <2> QED BY <1>1, <2>1, <2>2
<1>6. ASSUME NEW h \in Handler, ApplyDecision(h) PROVE HandlersApart'
  <2> DEFINE d == hand[h].dec
  <2>1. SameWork
    BY <1>2, <1>6 DEF ApplyDecision, GiveBack
  <2>2. CASE decision' = decision
    BY <1>1, <2>1, <2>2
  <2>3. CASE decision' = [decision EXCEPT ![d].applied = @ + 1]
    <3>1. d \in Decision /\ hand[h].pc # "idle" /\ decision[d].applied = 0
      BY <1>0, <1>6 DEF ApplyDecision, HandlersApart
    <3>2. decision'[d].applied = 1 /\ \A e \in Decision \ {d} : decision'[e] = decision[e]
      BY <1>0, <2>3, <3>1
    <3>3. hand'[h].pc = "idle"
      BY <1>0, <1>6, LeaveEffect DEF ApplyDecision, GiveBack
    <3>4. \A g \in Handler : hand'[g].pc # "idle" => hand'[g].dec # d
      BY <2>1, <3>1, <3>3 DEF HandlersApart
    <3> QED BY <1>0, <2>1, <3>2, <3>4 DEF HandlersApart, AppliedOnce
  <2> QED BY <1>6, <2>2, <2>3 DEF ApplyDecision
<1>7. ASSUME NEW p, StallRequest(p) \/ StallHandler(p) PROVE FALSE
  BY <1>0, <1>7 DEF StallRequest, StallHandler
<1>8. CASE UNCHANGED <<hand, decision>>
  BY <1>1, <1>8 DEF HandlersApart
<1>9. ASSUME NEW r \in Request,
             \/ \E t \in Turn : Resolve(r, t)
             \/ Proceed(r) \/ Heartbeat(r) \/ FailTurn(r) \/ CrashRequest(r)
      PROVE  UNCHANGED <<hand, decision>>
  BY <1>9 DEF Resolve, Proceed, AcquireForTurn, GiveUp, Preempt, FinalizeLost, FinalizeTurn,
              Heartbeat, FailTurn, CrashRequest, rows
<1>10. LeaseExpires \/ (\E t \in Turn : TurnExpires(t)) \/ UNCHANGED turnVars
          => UNCHANGED <<hand, decision>>
  BY DEF LeaseExpires, TurnExpires, turnVars, rows
<1> QED BY <1>3, <1>4, <1>5, <1>6, <1>7, <1>8, <1>9, <1>10 DEF Next, ProceedHandler

\* As long as no process misses its leases, a decision that is delivered again
\* and again changes the plan once (handle_goal_trigger_decision).
THEOREM AppliedOnceCorrect == Spec => [](stalls = 0 => AppliedOnce)
<1> DEFINE I == Shape /\ (stalls = 0 => HandlersApart)
<1>1. Init => I
  <2>1. Init => HandlersApart
    BY DEF Init, HandlersApart, AppliedOnce
  <2> QED BY <2>1, InitShape
<1>2. I /\ [Next]_turnVars => I'
  BY StepShape, HandlersApartStep, NoStallYet
<1>3. I => (stalls = 0 => AppliedOnce)
  BY DEF HandlersApart
<1> QED BY <1>1, <1>2, <1>3, PTL DEF Spec
-------------------------------------------------------------------------------
(***************************************************************************)
(* Who is between taking the lease and giving it back holds it, live.  This *)
(* needs more than the lease itself: that no second request for the same    *)
(* turn_id is under way (Overlap), for it would be let in by the same owner.*)
(***************************************************************************)
OneRequestEach ==
    \A q, r \in Request : InFlight(q) /\ InFlight(r) /\ req[q].turn = req[r].turn => q = r

HasLease(l, o, p) == l.owner = o /\ l.grant = p /\ l.live

RequestsHold ==
    \A r \in Request : req[r].pc \in {"preempt", "run"} => HasLease(lease, req[r].turn, r)

HandlersHold ==
    \A h \in Handler : hand[h].pc \in {"recheck", "decide", "apply"} =>
                          HasLease(lease, hand[h].dec, h)

LeaseInv == HandlersApart /\ OneRequestEach /\ RequestsHold /\ HandlersHold

\* A request that is under way was so before, with the same turn, or it has
\* just resolved a turn nobody else is under way with.
LEMMA OneRequestEachStep ==
    ASSUME ~Overlap, Shape, OneRequestEach, [Next]_turnVars
    PROVE  OneRequestEach'
<1>0. /\ req \in [Request -> ReqState]
      /\ \A r \in Request : InFlight(r) => req[r].turn \in Turn
  BY DEF Shape
<1>1. ASSUME NEW r \in Request, NEW t \in Turn, Goto(r, t, "acquire"),
             \A q \in Request : InFlight(q) => req[q].turn # t
      PROVE  OneRequestEach'
  BY <1>0, <1>1, GotoEffect DEF OneRequestEach, InFlight
<1>2. ASSUME NEW r \in Request, InFlight(r), NEW p \in {"preempt", "run", "done"},
             Goto(r, req[r].turn, p)
      PROVE  OneRequestEach'
  BY <1>0, <1>2, GotoEffect DEF OneRequestEach, InFlight
<1>3. ASSUME NEW r \in Request, NEW t \in Turn, Goto(r, t, "done") PROVE OneRequestEach'
  BY <1>0, <1>3, GotoEffect DEF OneRequestEach, InFlight
<1>4. ASSUME NEW r \in Request, NEW t \in Turn, Resolve(r, t) PROVE OneRequestEach'
  BY <1>1, <1>3, <1>4 DEF Resolve
<1>5. ASSUME NEW r \in Request, Proceed(r) \/ FailTurn(r) \/ CrashRequest(r)
      PROVE  OneRequestEach'
  <2>1. InFlight(r)
    BY <1>5 DEF Proceed, AcquireForTurn, GiveUp, Preempt, FinalizeLost, FinalizeTurn,
                FailTurn, CrashRequest, InFlight
  <2>2. \E p \in {"preempt", "run", "done"} : Goto(r, req[r].turn, p)
    BY <1>5 DEF Proceed, AcquireForTurn, GiveUp, Preempt, FinalizeLost, FinalizeTurn,
                FailTurn, CrashRequest
  <2> QED BY <1>2, <2>1, <2>2
<1>6. ASSUME NEW r \in Request, Heartbeat(r) PROVE OneRequestEach'
  <2>1. \E b : req' = [req EXCEPT ![r].lost = b]
    BY <1>6 DEF Heartbeat
  <2>2. \A q \in Request : req'[q].pc = req[q].pc /\ req'[q].turn = req[q].turn
    BY <1>0, <2>1 DEF ReqState
  <2> QED BY <2>2 DEF OneRequestEach, InFlight
<1>7. req' = req => OneRequestEach'
  BY DEF OneRequestEach, InFlight
<1>8. ASSUME NEW h \in Handler,
             \/ \E d \in Decision : StartDecision(h, d)
             \/ ProceedHandler(h) \/ FailDecision(h) \/ CrashHandler(h) \/ StallHandler(h)
      PROVE  req' = req
  BY <1>8 DEF StartDecision, ProceedHandler, AcquireForDecision, RecheckTurn, Decide,
              ApplyDecision, FailDecision, CrashHandler, StallHandler
<1>9. ASSUME NEW r \in Request, StallRequest(r) PROVE req' = req
  BY <1>9 DEF StallRequest
<1>10. LeaseExpires \/ (\E t \in Turn : TurnExpires(t)) \/ UNCHANGED turnVars => req' = req
  BY DEF LeaseExpires, TurnExpires, turnVars
<1> QED BY <1>4, <1>5, <1>6, <1>7, <1>8, <1>9, <1>10 DEF Next

\* A process that takes the lease finds nobody between taking and giving back.
LEMMA AcquireMeansNobody ==
    ASSUME Shape, LeaseInv, NEW o, FreeFor(o)
    PROVE  /\ \A r \in Request : req[r].pc \in {"preempt", "run"} => req[r].turn = o
           /\ \A h \in Handler : hand[h].pc \in {"recheck", "decide", "apply"} => hand[h].dec = o
  BY DEF LeaseInv, RequestsHold, HandlersHold, HasLease, FreeFor

\* What a request does with the lease leaves it to those who hold it: when it
\* takes it there is none, when it gives it back it was its own.
LEMMA RequestKeepsLease ==
    ASSUME ~Overlap, Shape, LeaseInv, NEW r \in Request,
           \/ \E t \in Turn : Resolve(r, t)
           \/ Proceed(r) \/ Heartbeat(r) \/ FailTurn(r) \/ CrashRequest(r)
    PROVE  RequestsHold' /\ HandlersHold'
<1> USE TurnAssumption
<1> DEFINE t == req[r].turn
<1>0. /\ lease \in LeaseRow /\ req \in [Request -> ReqState]
      /\ \A q \in Request : InFlight(q) => req[q].turn \in Turn
      /\ \A h \in Handler : hand[h].pc # "idle" => hand[h].dec \in Decision
  BY DEF Shape
<1>1. hand' = hand
  BY DEF Resolve, Proceed, AcquireForTurn, GiveUp, Preempt, FinalizeLost, FinalizeTurn,
         Heartbeat, FailTurn, CrashRequest
<1>2. ASSUME NEW s \in Turn, Resolve(r, s) PROVE RequestsHold' /\ HandlersHold'
  <2>1. \A q \in Request : InFlight(q) => req[q].turn # s
    BY <1>2 DEF Resolve
  <2>2. lease.owner = s \/ lease' = lease
    BY <1>2, MarkInterruptedEffect DEF Resolve
  <2>3. req'[r].pc \in {"acquire", "done"} /\ \A q \in Request \ {r} : req'[q] = req[q]
    BY <1>0, <1>2, GotoEffect DEF Resolve
  <2> QED BY <1>0, <1>1, <2>1, <2>2, <2>3
          DEF LeaseInv, RequestsHold, HandlersHold, HasLease, InFlight
<1>3. CASE AcquireForTurn(r)
  <2>1. t \in Turn /\ InFlight(r)
    BY <1>0, <1>3 DEF AcquireForTurn, InFlight
  <2>2. FreeFor(t) /\ HasLease(lease', t, r)
    BY <1>3, <2>1, AcquireEffect DEF AcquireForTurn, Owner, Process, HasLease
  <2>3. req'[r].turn = t /\ \A q \in Request \ {r} : req'[q] = req[q]
    BY <1>0, <1>3, <2>1, GotoEffect DEF AcquireForTurn
  <2>4. /\ \A q \in Request : req[q].pc \notin {"preempt", "run"}
        /\ \A h \in Handler : hand[h].pc \notin {"recheck", "decide", "apply"}
    BY <1>0, <1>3, <2>1, <2>2, AcquireMeansNobody
       DEF LeaseInv, OneRequestEach, InFlight, AcquireForTurn
  <2> QED BY <1>1, <2>2, <2>3, <2>4 DEF RequestsHold, HandlersHold
<1>4. ASSUME lease' = lease \/ (lease'.owner = lease.owner /\ lease'.grant = lease.grant /\ lease'.live),
             \A q \in Request : /\ req'[q].pc \in {"preempt", "run"} => req[q].pc \in {"preempt", "run"}
                                /\ req'[q].turn = req[q].turn
      PROVE  RequestsHold' /\ HandlersHold'
  BY <1>1, <1>4 DEF LeaseInv, RequestsHold, HandlersHold, HasLease
<1>5. CASE GiveUp(r) \/ CrashRequest(r) \/ Preempt(r)
  <2>1. t \in Turn /\ \E p \in {"run", "done"} : Goto(r, t, p) /\ (p = "run" => req[r].pc = "preempt")
    BY <1>0, <1>5 DEF GiveUp, CrashRequest, Preempt, InFlight
  <2>2. lease' = lease
    BY <1>5 DEF GiveUp, CrashRequest, Preempt, rows
  <2>3. PICK p \in {"run", "done"} : Goto(r, t, p) /\ (p = "run" => req[r].pc = "preempt")
    BY <2>1
  <2>4. req'[r].pc = p /\ req'[r].turn = t /\ \A q \in Request \ {r} : req'[q] = req[q]
    <3>1. t \in Turn \cup {0} /\ p \in {"idle", "acquire", "preempt", "run", "done"}
      BY <2>1
    <3> HIDE DEF t
    <3> QED BY <1>0, <2>3, <3>1, GotoEffect
  <2> QED BY <1>4, <2>2, <2>3, <2>4
<1>6. CASE req[r].pc = "run" /\ Goto(r, t, "done")
           /\ (lease' = lease \/ lease' = ReleasedBy(t))
  <2>1. t \in Turn
    BY <1>0, <1>6 DEF InFlight
  <2>2. lease.grant = r
    BY <1>6 DEF LeaseInv, RequestsHold, HasLease
  <2>3. req'[r].pc = "done" /\ \A q \in Request \ {r} : req'[q] = req[q]
    BY <1>0, <1>6, <2>1, GotoEffect
  <2> QED BY <1>1, <2>2, <2>3 DEF LeaseInv, RequestsHold, HandlersHold, HasLease
<1>7. CASE FinalizeLost(r) \/ FinalizeTurn(r) \/ FailTurn(r)
  BY <1>6, <1>7 DEF FinalizeLost, FinalizeTurn, FailTurn, MarkInterrupted
<1>8. CASE Heartbeat(r)
  <2>1. \E b : req' = [req EXCEPT ![r].lost = b]
    BY <1>8 DEF Heartbeat
  <2>2. \A q \in Request : req'[q].pc = req[q].pc /\ req'[q].turn = req[q].turn
    BY <1>0, <2>1 DEF ReqState
  <2>3. lease' = lease \/ lease' = [lease EXCEPT !.live = TRUE]
    BY <1>8 DEF Heartbeat
  <2> QED BY <1>0, <1>4, <2>2, <2>3, LeaseUpdate
<1> QED BY <1>2, <1>3, <1>5, <1>7, <1>8 DEF Proceed

LEMMA HandlerKeepsLease ==
    ASSUME Shape, LeaseInv, NEW h \in Handler,
           \/ \E d \in Decision : StartDecision(h, d)
           \/ ProceedHandler(h) \/ FailDecision(h) \/ CrashHandler(h)
    PROVE  RequestsHold' /\ HandlersHold'
<1> USE TurnAssumption
<1> DEFINE d == hand[h].dec
           Inside(g) == hand[g].pc \in {"recheck", "decide", "apply"}
<1>0. /\ lease \in LeaseRow /\ hand \in [Handler -> HandState]
      /\ \A r \in Request : InFlight(r) => req[r].turn \in Turn
      /\ \A g \in Handler : hand[g].pc # "idle" => hand[g].dec \in Decision
  BY DEF Shape
<1>1. req' = req
  BY DEF StartDecision, ProceedHandler, AcquireForDecision, RecheckTurn, Decide,
         ApplyDecision, FailDecision, CrashHandler
<1>2. ASSUME lease' = lease,
             \A g \in Handler : hand'[g].pc \in {"recheck", "decide", "apply"} =>
                                   Inside(g) /\ hand'[g].dec = hand[g].dec
      PROVE  RequestsHold' /\ HandlersHold'
  BY <1>1, <1>2 DEF LeaseInv, RequestsHold, HandlersHold
<1>3. ASSUME NEW e \in Decision, StartDecision(h, e) PROVE RequestsHold' /\ HandlersHold'
  <2> DEFINE x == [pc |-> "acquire", dec |-> e, stale |-> FALSE,
                   reuse |-> decision[e].recorded # NoProcess]
  <2>1. hand' = [hand EXCEPT ![h] = x] /\ x.pc = "acquire" /\ lease' = lease
    BY <1>3 DEF StartDecision, rows
  <2> HIDE DEF x
  <2>2. hand'[h].pc = "acquire" /\ \A g \in Handler \ {h} : hand'[g] = hand[g]
    BY <1>0, <2>1
  <2> QED BY <1>2, <2>1, <2>2
<1>4. ASSUME Leave(h), lease' = lease PROVE RequestsHold' /\ HandlersHold'
  BY <1>0, <1>2, <1>4, LeaveEffect
<1>5. ASSUME Inside(h), NEW p \in {"recheck", "decide", "apply"}, Advance(h, p), lease' = lease
      PROVE  RequestsHold' /\ HandlersHold'
  BY <1>0, <1>2, <1>5, AdvanceEffect
<1>6. ASSUME Inside(h), GiveBack(h) PROVE RequestsHold' /\ HandlersHold'
  <2>1. lease.grant = h
    BY <1>6 DEF LeaseInv, HandlersHold, HasLease
  <2>2. hand'[h].pc = "idle" /\ \A g \in Handler \ {h} : hand'[g] = hand[g]
    BY <1>0, <1>6, LeaveEffect DEF GiveBack
  <2> QED BY <1>1, <2>1, <2>2 DEF LeaseInv, RequestsHold, HandlersHold, HasLease
<1>7. ASSUME hand[h].pc = "acquire", Acquire(h, d), Advance(h, "recheck")
      PROVE  RequestsHold' /\ HandlersHold'
  <2>1. d \in Decision
    BY <1>0, <1>7
  <2>2. FreeFor(d) /\ HasLease(lease', d, h)
    BY <1>7, <2>1, AcquireEffect DEF Owner, Process, HasLease
  <2>3. hand'[h].dec = d /\ \A g \in Handler \ {h} : hand'[g] = hand[g]
    BY <1>0, <1>7, AdvanceEffect
  <2>4. /\ \A r \in Request : req[r].pc \notin {"preempt", "run"}
        /\ \A g \in Handler : ~Inside(g)
    BY <1>0, <1>7, <2>1, <2>2, AcquireMeansNobody
       DEF LeaseInv, HandlersApart, InFlight
  <2> QED BY <1>1, <2>2, <2>3, <2>4 DEF RequestsHold, HandlersHold
<1>8. CASE AcquireForDecision(h)
  BY <1>4, <1>7, <1>8 DEF AcquireForDecision
<1>9. CASE RecheckTurn(h) \/ Decide(h)
  BY <1>5, <1>6, <1>9 DEF RecheckTurn, Decide
<1>10. CASE ApplyDecision(h) \/ FailDecision(h)
  BY <1>6, <1>10 DEF ApplyDecision, FailDecision
<1>11. CASE CrashHandler(h)
  BY <1>4, <1>11 DEF CrashHandler, rows
<1> QED BY <1>3, <1>8, <1>9, <1>10, <1>11 DEF ProceedHandler

LEMMA LeaseInvStep ==
    ASSUME ~Overlap, Shape, LeaseInv, [Next]_turnVars, stalls' = 0
    PROVE  LeaseInv'
<1>1. HandlersApart' /\ OneRequestEach' /\ stalls = 0
  BY HandlersApartStep, OneRequestEachStep, NoStallYet DEF LeaseInv
<1>2. ASSUME NEW p, StallRequest(p) \/ StallHandler(p) PROVE FALSE
  BY <1>1, <1>2 DEF StallRequest, StallHandler
<1>3. ASSUME LeaseExpires PROVE RequestsHold' /\ HandlersHold'
  <2>1. ~Kept /\ req' = req /\ hand' = hand
    BY <1>3 DEF LeaseExpires
  <2> QED BY <2>1 DEF Kept, Holds, LeaseInv, RequestsHold, HandlersHold, HasLease
<1>4. ASSUME (\E t \in Turn : TurnExpires(t)) \/ UNCHANGED turnVars
      PROVE  RequestsHold' /\ HandlersHold'
  <2>1. lease' = lease /\ req' = req /\ hand' = hand
    BY <1>4 DEF TurnExpires, turnVars, rows
  <2> QED BY <2>1 DEF LeaseInv, RequestsHold, HandlersHold
<1>5. RequestsHold' /\ HandlersHold'
  <2>1. ASSUME NEW r \in Request,
               \/ \E t \in Turn : Resolve(r, t)
               \/ Proceed(r) \/ Heartbeat(r) \/ FailTurn(r) \/ CrashRequest(r)
        PROVE  RequestsHold' /\ HandlersHold'
    BY <2>1, RequestKeepsLease
  <2>2. ASSUME NEW h \in Handler,
               \/ \E d \in Decision : StartDecision(h, d)
               \/ ProceedHandler(h) \/ FailDecision(h) \/ CrashHandler(h)
        PROVE  RequestsHold' /\ HandlersHold'
    BY <2>2, HandlerKeepsLease
  <2> QED BY <1>2, <1>3, <1>4, <2>1, <2>2 DEF Next
<1> QED BY <1>1, <1>5 DEF LeaseInv

\* As long as no process misses its leases and no client resends a turn_id
\* whose request is still running, the lease does what it is for: at most one
\* turn or goal decision of a thread calls the model (runtime/thread_lease.py).
\* Without the second condition TLC finds two callers: README, section 4, item 4.
THEOREM OneCallerCorrect == ASSUME ~Overlap PROVE Spec => [](stalls = 0 => OneCaller)
<1> DEFINE I == Shape /\ (stalls = 0 => LeaseInv)
<1>1. Init => I
  <2>1. Init => LeaseInv
    BY DEF Init, LeaseInv, HandlersApart, AppliedOnce, OneRequestEach, InFlight,
           RequestsHold, HandlersHold
  <2> QED BY <2>1, InitShape
<1>2. I /\ [Next]_turnVars => I'
  BY StepShape, LeaseInvStep, NoStallYet
<1>3. I => (stalls = 0 => OneCaller)
  <2> SUFFICES ASSUME Shape, LeaseInv PROVE OneCaller
    OBVIOUS
  <2>1. Callers \in SUBSET {lease.grant}
    BY DEF Callers, LeaseInv, RequestsHold, HandlersHold, HasLease
  <2>2. IsFiniteSet({lease.grant}) /\ Cardinality({lease.grant}) = 1
    BY FS_Singleton
  <2>3. Cardinality(Callers) <= 1
    BY <2>1, <2>2, FS_Subset
  <2> QED BY <2>3, ShapeTypes DEF OneCaller
<1> QED BY <1>1, <1>2, <1>3, PTL DEF Spec
===============================================================================
