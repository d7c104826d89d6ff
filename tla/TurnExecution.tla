---------------------------- MODULE TurnExecution ----------------------------
(***************************************************************************)
(* One thread of conversation: foreground turns (runtime/turn_execution.py)*)
(* and background goal decisions (worker/handlers_goal_triggers.py) share  *)
(* one row of thread_execution_leases (runtime/thread_lease.py), so that   *)
(* only one of them calls the model at a time.                             *)
(*                                                                         *)
(* A Request is one execution of _resolve_and_preempt and what follows it; *)
(* clients retry, so several requests may carry the same turn_id.  A       *)
(* Handler is one execution of handle_goal_trigger_decision; the outbox    *)
(* runs a second one for the same decision only once the first lost its    *)
(* claim.                                                                  *)
(*                                                                         *)
(* A fencing token is only ever compared with the row's, and a process has *)
(* one grant at a time: the token stands as the process it was granted to. *)
(* A lease is live or it is not; the Expires actions are the passing time. *)
(***************************************************************************)
EXTENDS Naturals, FiniteSets

CONSTANTS Turn,         \* turn records, as their turn_sequence: numbers
          Request, Decision, Handler,
          NoOwner, NoProcess,
          Overlap,      \* may a client resend a turn_id whose request is running
          MaxCrashes,   \* bound: processes that die
          MaxStalls     \* bound: processes that miss their lease and go on

ASSUME TurnAssumption ==
    /\ Turn \subseteq Nat \ {0}
    /\ NoOwner \notin Turn \cup Decision
    /\ NoProcess \notin Request \cup Handler
    /\ Request \cap Handler = {} /\ Turn \cap Decision = {}
    /\ Overlap \in BOOLEAN
    /\ MaxCrashes \in Nat /\ MaxStalls \in Nat

VARIABLES lease,        \* the row of thread_execution_leases
          turn,         \* turn_records of the thread
          snapshot,     \* turn_sequence of its current and previous snapshots
          decision,     \* recorded and applied events of each goal decision
          req, hand,    \* the processes
          crashes, stalls

rows == <<lease, turn, snapshot, decision>>
turnVars == <<rows, req, hand, crashes, stalls>>

Owner == Turn \cup Decision
Process == Request \cup Handler

Init ==
    /\ lease = [owner |-> NoOwner, grant |-> NoProcess, live |-> FALSE]
    /\ turn = [t \in Turn |-> [status |-> "absent", exec |-> NoProcess, live |-> FALSE]]
    /\ snapshot = [current |-> 0, previous |-> 0]
    /\ decision = [d \in Decision |-> [recorded |-> NoProcess, applied |-> 0]]
    /\ req = [r \in Request |-> [pc |-> "idle", turn |-> 0, lost |-> FALSE]]
    /\ hand = [h \in Handler |-> [pc |-> "idle", dec |-> NoOwner, reuse |-> FALSE,
                                  stale |-> FALSE]]
    /\ crashes = 0 /\ stalls = 0
-------------------------------------------------------------------------------
(* thread_lease.py *)

\* Mutants: a holder's lease does not keep others out, or does so for ever.
FreeForAll(o) == TRUE
FreeForOwner(o) == lease.owner \in {NoOwner, o}

FreeFor(o) == lease.live => lease.owner = o

\* _try_acquire: the lease ran out or is my own; a new token either way.
Acquire(p, o) ==
    /\ FreeFor(o)
    /\ lease' = [owner |-> o, grant |-> p, live |-> TRUE]

Holds(p, o) == lease.owner = o /\ lease.grant = p

\* release_thread_lease, without and with a fencing token.
ReleasedBy(o) == IF lease.owner = o THEN [lease EXCEPT !.live = FALSE] ELSE lease
ReleasedWith(p, o) == IF Holds(p, o) THEN [lease EXCEPT !.live = FALSE] ELSE lease
-------------------------------------------------------------------------------
(* _resolve_and_preempt: three transactions *)

InFlight(r) == req[r].pc \in {"acquire", "preempt", "run"}

Goto(r, t, pc) == req' = [req EXCEPT ![r] = [pc |-> pc, turn |-> t, lost |-> FALSE]]

\* UPDATE ... WHERE id, execution_id, status = running; then the lease is given
\* back by owner.
MarkInterrupted(t, e) ==
    IF turn[t].status = "running" /\ turn[t].exec = e
    THEN /\ turn' = [turn EXCEPT ![t] = [@ EXCEPT !.status = "interrupted", !.live = FALSE]]
         /\ lease' = ReleasedBy(t)
    ELSE UNCHANGED <<turn, lease>>

\* A turn gets the next turn_sequence of the thread.
NextTurn(t) == turn[t].status = "absent" /\ \A s \in Turn : s < t => turn[s].status # "absent"

Resolve(r, t) ==
    /\ req[r].pc = "idle"
    /\ Overlap \/ \A q \in Request : InFlight(q) => req[q].turn # t
    /\ \/ /\ NextTurn(t)
          /\ turn' = [turn EXCEPT ![t].status = "not_started"]
          /\ Goto(r, t, "acquire")
          /\ UNCHANGED lease
       \/ /\ turn[t].status = "not_started"
          /\ Goto(r, t, "acquire")
          /\ UNCHANGED <<turn, lease>>
       \/ /\ turn[t].status = "running"        \* turn_in_progress, or interrupted
          /\ IF turn[t].live THEN UNCHANGED <<turn, lease>>
                             ELSE MarkInterrupted(t, turn[t].exec)
          /\ Goto(r, t, "done")
       \/ /\ turn[t].status \in {"completed", "interrupted"}
          /\ Goto(r, t, "done")
          /\ UNCHANGED <<turn, lease>>
    /\ UNCHANGED <<snapshot, decision, hand, crashes, stalls>>

AcquireForTurn(r) ==
    /\ req[r].pc = "acquire"
    /\ Acquire(r, req[r].turn)
    /\ Goto(r, req[r].turn, "preempt")
    /\ UNCHANGED <<turn, snapshot, decision, hand, crashes, stalls>>

\* FOREGROUND_WAIT_SECONDS are over: turn_in_progress.
GiveUp(r) ==
    /\ req[r].pc = "acquire"
    /\ ~FreeFor(req[r].turn)
    /\ Goto(r, req[r].turn, "done")
    /\ UNCHANGED <<rows, hand, crashes, stalls>>

\* Mutant: the turn is started whatever its status.
CanStartAlways(t) == TRUE

CanStart(t) == turn[t].status = "not_started"

\* Whoever loses the race for the turn returns, and keeps the lease it took.
Preempt(r) ==
    LET t == req[r].turn IN
    /\ req[r].pc = "preempt"
    /\ IF CanStart(t)
       THEN /\ turn' = [turn EXCEPT ![t] = [status |-> "running", exec |-> r, live |-> TRUE]]
            /\ Goto(r, t, "run")
       ELSE UNCHANGED turn /\ Goto(r, t, "done")
    /\ UNCHANGED <<lease, snapshot, decision, hand, crashes, stalls>>
-------------------------------------------------------------------------------
(* The running turn: TurnHeartbeat, the graph, _finalize_turn *)

Executes(r, t) == turn[t].status = "running" /\ turn[t].exec = r

Heartbeat(r) ==
    LET t == req[r].turn
        renewed == Executes(r, t) /\ Holds(r, t) IN
    /\ req[r].pc = "run"
    /\ turn' = IF Executes(r, t) THEN [turn EXCEPT ![t].live = TRUE] ELSE turn
    /\ lease' = IF renewed THEN [lease EXCEPT !.live = TRUE] ELSE lease
    /\ req' = [req EXCEPT ![r].lost = @ \/ ~renewed]
    /\ UNCHANGED <<snapshot, decision, hand, crashes, stalls>>

\* Mutant: the newest snapshot is the last one written.
RotatedAlways(s, t) == [current |-> t, previous |-> s.current]

\* _rotate_snapshot keeps what a turn that finishes out of order would replace.
Rotated(s, t) ==
    IF t > s.current THEN [current |-> t, previous |-> s.current] ELSE s

\* lease_lost: FencingViolationError.  The synchronous path then interrupts the
\* turn, the streaming path leaves it to whoever resolves it next.
FinalizeLost(r) ==
    /\ req[r].pc = "run" /\ req[r].lost
    /\ MarkInterrupted(req[r].turn, r) \/ UNCHANGED <<turn, lease>>
    /\ Goto(r, req[r].turn, "done")
    /\ UNCHANGED <<snapshot, decision, hand, crashes, stalls>>

FinalizeTurn(r) ==
    LET t == req[r].turn IN
    /\ req[r].pc = "run" /\ ~req[r].lost
    /\ IF Executes(r, t)
       THEN /\ turn' = [turn EXCEPT ![t] = [@ EXCEPT !.status = "completed", !.live = FALSE]]
            /\ snapshot' = Rotated(snapshot, t)
            /\ lease' = ReleasedBy(t)
       ELSE UNCHANGED <<turn, snapshot, lease>>          \* fencing violation
    /\ Goto(r, t, "done")
    /\ UNCHANGED <<decision, hand, crashes, stalls>>

\* The graph fails or the stream is cancelled.
FailTurn(r) ==
    /\ req[r].pc = "run"
    /\ MarkInterrupted(req[r].turn, r)
    /\ Goto(r, req[r].turn, "done")
    /\ UNCHANGED <<snapshot, decision, hand, crashes, stalls>>
-------------------------------------------------------------------------------
(* handle_goal_trigger_decision *)

Leave(h) == hand' = [hand EXCEPT ![h] = [@ EXCEPT !.pc = "idle", !.stale = FALSE]]
Advance(h, pc) == hand' = [hand EXCEPT ![h].pc = pc]

ActiveTurn == \E t \in Turn : turn[t].status = "running" /\ turn[t].live

\* Mutant: an applied decision is taken up again.
UnappliedAlways(d) == TRUE

Unapplied(d) == decision[d].applied = 0

\* The outbox hands the job to one handler at a time, or to another one once
\* the first missed its heartbeats.
StartDecision(h, d) ==
    /\ hand[h].pc = "idle"
    /\ \A g \in Handler : hand[g].pc # "idle" /\ hand[g].dec = d => hand[g].stale
    /\ Unapplied(d)
    /\ hand' = [hand EXCEPT ![h] = [pc |-> "acquire", dec |-> d, stale |-> FALSE,
                                    reuse |-> decision[d].recorded # NoProcess]]
    /\ UNCHANGED <<rows, req, crashes, stalls>>

\* Acquired without waiting, or RETRY_LATER.
AcquireForDecision(h) ==
    /\ hand[h].pc = "acquire"
    /\ \/ Acquire(h, hand[h].dec) /\ Advance(h, "recheck")
       \/ ~FreeFor(hand[h].dec) /\ Leave(h) /\ UNCHANGED lease
    /\ UNCHANGED <<turn, snapshot, decision, req, crashes, stalls>>

\* The finally clause: RETRY_LATER, an error or the end.
GiveBack(h) == lease' = ReleasedWith(h, hand[h].dec) /\ Leave(h)

RecheckTurn(h) ==
    /\ hand[h].pc = "recheck"
    /\ IF ActiveTurn THEN GiveBack(h)
       ELSE /\ Advance(h, IF hand[h].reuse THEN "apply" ELSE "decide")
            /\ UNCHANGED lease
    /\ UNCHANGED <<turn, snapshot, decision, req, crashes, stalls>>

\* The model decides; persist_decision keeps the first record of a decision.
Decide(h) ==
    LET d == hand[h].dec IN
    /\ hand[h].pc = "decide"
    /\ decision' = IF decision[d].recorded = NoProcess
                   THEN [decision EXCEPT ![d].recorded = h] ELSE decision
    /\ Advance(h, "apply")
    /\ UNCHANGED <<lease, turn, snapshot, req, crashes, stalls>>

\* Plan change, message and applied mark in one transaction.  A turn that runs
\* blocks the message and with it all; a decision without one is not held up.
ApplyDecision(h) ==
    LET d == hand[h].dec IN
    /\ hand[h].pc = "apply"
    /\ \/ decision' = [decision EXCEPT ![d].applied = @ + 1]
       \/ ActiveTurn /\ UNCHANGED decision
    /\ GiveBack(h)
    /\ UNCHANGED <<turn, snapshot, req, crashes, stalls>>

\* The model call, persist_decision or the apply transaction fails.
FailDecision(h) ==
    /\ hand[h].pc \in {"decide", "apply"}
    /\ GiveBack(h)
    /\ UNCHANGED <<turn, snapshot, decision, req, crashes, stalls>>
-------------------------------------------------------------------------------
(* Time and faults *)

\* Someone is there to renew the lease, or to release it well before it ends.
Kept ==
    \/ \E r \in Request : /\ Holds(r, req[r].turn)
                          /\ req[r].pc \in {"preempt", "run"}
    \/ \E h \in Handler : /\ Holds(h, hand[h].dec)
                          /\ hand[h].pc \in {"recheck", "decide", "apply"}

LeaseExpires ==
    /\ lease.live /\ ~Kept
    /\ lease' = [lease EXCEPT !.live = FALSE]
    /\ UNCHANGED <<turn, snapshot, decision, req, hand, crashes, stalls>>

TurnExpires(t) ==
    /\ turn[t].status = "running" /\ turn[t].live
    /\ \A r \in Request : Executes(r, t) => req[r].pc # "run"
    /\ turn' = [turn EXCEPT ![t].live = FALSE]
    /\ UNCHANGED <<lease, snapshot, decision, req, hand, crashes, stalls>>

CrashRequest(r) ==
    /\ InFlight(r)
    /\ crashes < MaxCrashes
    /\ Goto(r, req[r].turn, "done")
    /\ crashes' = crashes + 1
    /\ UNCHANGED <<rows, hand, stalls>>

CrashHandler(h) ==
    /\ hand[h].pc # "idle"
    /\ crashes < MaxCrashes
    /\ Leave(h)
    /\ crashes' = crashes + 1
    /\ UNCHANGED <<rows, req, stalls>>

\* The process is suspended, or cut off from the database, for so long that
\* every lease it keeps runs out; later it goes on where it was.
StallRequest(r) ==
    LET t == req[r].turn IN
    /\ req[r].pc = "run"
    /\ stalls < MaxStalls
    /\ turn' = IF Executes(r, t) THEN [turn EXCEPT ![t].live = FALSE] ELSE turn
    /\ lease' = ReleasedWith(r, t)
    /\ stalls' = stalls + 1
    /\ UNCHANGED <<snapshot, decision, req, hand, crashes>>

StallHandler(h) ==
    /\ hand[h].pc # "idle"
    /\ stalls < MaxStalls
    /\ lease' = ReleasedWith(h, hand[h].dec)
    /\ hand' = [hand EXCEPT ![h].stale = TRUE]
    /\ stalls' = stalls + 1
    /\ UNCHANGED <<turn, snapshot, decision, req, crashes>>
-------------------------------------------------------------------------------
\* A request or handler goes on, without errors.
Proceed(r) ==
    \/ AcquireForTurn(r) \/ GiveUp(r) \/ Preempt(r)
    \/ FinalizeLost(r) \/ FinalizeTurn(r)

ProceedHandler(h) ==
    \/ AcquireForDecision(h) \/ RecheckTurn(h) \/ Decide(h) \/ ApplyDecision(h)

Next ==
    \/ \E r \in Request :
          \/ \E t \in Turn : Resolve(r, t)
          \/ Proceed(r) \/ Heartbeat(r) \/ FailTurn(r)
          \/ CrashRequest(r) \/ StallRequest(r)
    \/ \E h \in Handler :
          \/ \E d \in Decision : StartDecision(h, d)
          \/ ProceedHandler(h) \/ FailDecision(h)
          \/ CrashHandler(h) \/ StallHandler(h)
    \/ LeaseExpires
    \/ \E t \in Turn : TurnExpires(t)

\* Processes go on and time passes.  The outbox starts the handler of a
\* decision again and again, and once the clients have what they want it finds
\* the lease free: a decision that is tried often enough is decided and applied.
Fairness ==
    /\ \A r \in Request : WF_turnVars(Proceed(r))
    /\ \A h \in Handler : WF_turnVars(ProceedHandler(h))
    /\ \A h \in Handler : SF_turnVars(ApplyDecision(h)) /\ SF_turnVars(Decide(h))
    /\ \A d \in Decision : WF_turnVars(\E h \in Handler : StartDecision(h, d))
    /\ WF_turnVars(LeaseExpires)
    /\ \A t \in Turn : WF_turnVars(TurnExpires(t))

Spec == Init /\ [][Next]_turnVars
FairSpec == Spec /\ Fairness
-------------------------------------------------------------------------------
TypeOK ==
    /\ lease \in [owner : Owner \cup {NoOwner}, grant : Process \cup {NoProcess},
                  live : BOOLEAN]
    /\ turn \in [Turn -> [status : {"absent", "not_started", "running", "completed",
                                    "interrupted"},
                          exec : Request \cup {NoProcess}, live : BOOLEAN]]
    /\ \A t \in Turn : turn[t].live => turn[t].status = "running"
    /\ snapshot \in [current : Turn \cup {0}, previous : Turn \cup {0}]
    /\ decision \in [Decision -> [recorded : Handler \cup {NoProcess}, applied : Nat]]
    /\ req \in [Request -> [pc : {"idle", "acquire", "preempt", "run", "done"},
                            turn : Turn \cup {0}, lost : BOOLEAN]]
    /\ hand \in [Handler -> [pc : {"idle", "acquire", "recheck", "decide", "apply"},
                             dec : Decision \cup {NoOwner}, reuse : BOOLEAN,
                             stale : BOOLEAN]]
    /\ crashes \in 0 .. MaxCrashes /\ stalls \in 0 .. MaxStalls

\* Who may be calling the model for this thread right now.
Callers ==
    {r \in Request : req[r].pc = "run"} \cup {h \in Handler : hand[h].pc = "decide"}

\* The point of the lease: a foreground turn and a goal decision, or two turns,
\* never call the model of one thread at the same time (and all keeps its type).
OneCaller == TypeOK /\ Cardinality(Callers) <= 1

\* A decision that is delivered again changes the plan once: the transaction that
\* applies a decision commits once for each.
AppliedOnce == \A d \in Decision : decision[d].applied <= 1

\* However requests for the same turn_id overlap, one of them executes it.
TurnRunsOnce ==
    \A q, r \in Request : req[q].pc = "run" /\ req[r].pc = "run" /\ q # r =>
        req[q].turn # req[r].turn

\* The current snapshot is the one of the last turn in the order of the
\* conversation, whatever order the turns complete in.
SnapshotIsLatest ==
    \A t \in Turn : turn[t].status = "completed" => t <= snapshot.current

\* Every goal decision is applied in the end: turns, crashes and leftover
\* leases only put it off.
DecisionsApplied == \A d \in Decision : <>(decision[d].applied > 0)
===============================================================================
