----------------------------- MODULE ForgetProofs -----------------------------
(***************************************************************************)
(* Proofs of the safety properties of Forget, for every number of          *)
(* operations at a time, every history of memories, and every number of    *)
(* workers, crashes and lost leases:                                       *)
(*   VerifiedIsGone   from  Gone, what a good verdict has read, which      *)
(*                          nothing takes back, and Staged, no purge and   *)
(*                          no verdict before the cascade is complete;     *)
(*   NotRelearned     from  Shielded and Reached, a source is hidden by    *)
(*                          a shield until tombstones hide it;             *)
(*   StaysHidden      from  the same, and Asked;                           *)
(*   NoEmptyShell     from  Shells, whatever has lost its text has a       *)
(*                          tombstone that hides it, and Unread.           *)
(* That only memories can be named in mode memory_only (Accepted) is       *)
(* needed for all but NotRelearned: such an operation leaves events alone. *)
(***************************************************************************)
EXTENDS Forget, TLAPS

Busy == {"start", "tombstones", "finish", "read", "summary", "objects", "pass", "fail"}
          \cup Outcomes
Running == [op : Op, stage : Stage, step : Busy, seen : SUBSET Event, fenced : BOOLEAN]

Shape == TypeOK /\ worker \in [Worker -> {IdleWorker} \cup Running]

\* A memory that is not there has no sources, and what was there stays there.
Present ==
    /\ \A m \in Memory : memory[m] = "none" => source[m] = {}
    /\ \A o \in Op : /\ cutoff[o] \subseteq Exists
                     /\ target[o] \subseteq Exists
                     /\ request[o].ids \subseteq cutoff[o]
    /\ \A m \in Memory : written[m] \subseteq Started

\* Nothing has happened for an operation before its Phase A.
Untouched ==
    \A o \in Op \ Started :
        /\ progress[o] = Fresh
        /\ \A s \in Stage : job[o][s].status = "none"
        /\ \A w \in Worker : worker[w] # IdleWorker => worker[w].op # o

\* What the cascade starts from, and what its first page leaves behind.
Named(o) == IF request[o].kind = "all_user_data" THEN cutoff[o] \cap Memory
            ELSE request[o].ids

Asked ==
    \A o \in Started :
        /\ request[o] \in Requests
        /\ request[o].ids \subseteq tomb[o]
        /\ request[o].ids \cap Memory \subseteq target[o]
        /\ progress[o].paged \subseteq target[o]

\* The cascade has found what there was to find, and buried it.
Reached(o) ==
    /\ Named(o) \subseteq target[o]
    /\ \A m \in Memory \cap cutoff[o] : source[m] \cap target[o] # {} => m \in target[o]
    /\ target[o] \subseteq tomb[o]
    /\ SourcesOf(target[o] \cap Memory) \subseteq tomb[o]

\* How far the cascade is, by its workers, its job and the jobs after it.
Staged ==
    /\ \A o \in Op : progress[o].cascaded => Reached(o)
    /\ \A o \in Op : job[o]["cascade"].status = "completed" => progress[o].cascaded
    /\ \A o \in Op, s \in Stage \ {"cascade"} :
          job[o][s].status # "none" => progress[o].cascaded
    /\ \A w \in Worker : worker[w] # IdleWorker =>
          LET o == worker[w].op IN
          /\ worker[w].stage # "cascade" \/ worker[w].step = "completed"
               => progress[o].cascaded
          /\ worker[w].step = "tombstones" => Named(o) \subseteq target[o]
          /\ worker[w].step = "finish" => Reached(o)

\* All text in the scope of the operation is gone.
Gone(o) == text \cap Forgotten(o) = {}

Judged ==
    /\ \A o \in Op : op[o] = "verified" => Gone(o)
    /\ \A w \in Worker :
          worker[w] # IdleWorker /\ worker[w].step = "pass" => Gone(worker[w].op)

\* The shields stand until what they cover is buried or gone.
Shielded(o) ==
    \/ request[o].kind # "all_user_data"
    \/ cutoff[o] \subseteq shield[o]
    \/ progress[o].cascaded /\ Gone(o)

Covered == \A o \in Started : Shielded(o)

\* Once everything is forgotten, nothing is drawn from what there was.
Unread ==
    \A o \in Started : request[o].kind = "all_user_data" =>
        /\ writer.step = "model" => writer.events \cap cutoff[o] = {}
        /\ \A m \in Memory : source[m] \cap cutoff[o] # {} => m \in cutoff[o]

\* What has lost its text is hidden by tombstones, with no shield needed.
Buried(m) ==
    \E o \in Started :
        \/ m \in tomb[o]
        \/ request[o].mode # "memory_only" /\ source[m] \cap tomb[o] # {}

Shells == \A m \in Memory : memory[m] # "none" /\ m \notin text => Buried(m)

Inv == /\ Shape /\ Present /\ Untouched /\ Asked /\ Staged
       /\ Judged /\ Covered /\ Unread /\ NotRelearned /\ Shells
-------------------------------------------------------------------------------
(* What an assignment does to a row, and to no other row *)

JobStatus == {"none", "pending", "running", "completed", "deadletter"}
Row == [status : JobStatus, retries : 0..(MaxRetries - 1)]
Jobs == [Op -> [Stage -> Row]]

\* The status of one job changes.
JobBecomes(o, s, status) ==
    /\ job' \in Jobs
    /\ job'[o][s].status = status
    /\ \A p \in Op, t \in Stage : p # o \/ t # s => job'[p][t] = job[p][t]

\* A worker goes on with what it does, and is at this step next.
Moves(w, step) ==
    /\ worker' \in [Worker -> {IdleWorker} \cup Running]
    /\ worker'[w] # IdleWorker
    /\ worker'[w].op = worker[w].op /\ worker'[w].stage = worker[w].stage
    /\ worker'[w].step = step
    /\ \A v \in Worker \ {w} : worker'[v] = worker[v]

Stops(w) ==
    /\ worker' \in [Worker -> {IdleWorker} \cup Running]
    /\ worker'[w] = IdleWorker
    /\ \A v \in Worker \ {w} : worker'[v] = worker[v]

LEMMA ShapeGives ==
    ASSUME Shape
    PROVE  /\ job \in Jobs
           /\ worker \in [Worker -> {IdleWorker} \cup Running]
           /\ cutoff \in [Op -> SUBSET Item] /\ shield \in [Op -> SUBSET Item]
           /\ tomb \in [Op -> SUBSET Item] /\ target \in [Op -> SUBSET Item]
BY DEF Shape, TypeOK, Jobs, Row, JobStatus

LEMMA RunningIsBusy ==
    ASSUME Shape, NEW w \in Worker
    PROVE  /\ worker[w] # IdleWorker <=> worker[w] \in Running
           /\ worker[w].step \in Busy => worker[w] \in Running
           /\ worker[w] \in Running => /\ worker[w].op \in Op /\ worker[w].stage \in Stage
                                       /\ worker[w].step \in Busy
<1>1. worker[w] \in {IdleWorker} \cup Running
  BY DEF Shape
<1>2. IdleWorker.step \notin Busy
  BY DEF IdleWorker, Busy, Outcomes
<1>3. \A r \in Running : r.op \in Op /\ r.stage \in Stage /\ r.step \in Busy
  BY DEF Running
<1>. QED
  BY <1>1, <1>2, <1>3

LEMMA StatusSet ==
    ASSUME job \in Jobs, NEW o \in Op, NEW s \in Stage, NEW status \in JobStatus,
           job' = [job EXCEPT ![o][s].status = status]
    PROVE  JobBecomes(o, s, status)
<1> DEFINE r == [job[o][s] EXCEPT !.status = status]
           row == [job[o] EXCEPT ![s] = r]
<1>1. job[o] \in [Stage -> Row] /\ job[o][s] \in Row
  BY DEF Jobs
<1>2. r \in Row /\ r.status = status
  BY <1>1 DEF Row
<1>3. job' = [job EXCEPT ![o] = row]
  OBVIOUS
<1> HIDE DEF r
<1>4. row \in [Stage -> Row] /\ row[s] = r /\ \A t \in Stage \ {s} : row[t] = job[o][t]
  BY <1>1, <1>2
<1> HIDE DEF row
<1>. QED
  BY <1>2, <1>3, <1>4 DEF JobBecomes, Jobs

LEMMA RowSet ==
    ASSUME job \in Jobs, NEW o \in Op, NEW s \in Stage, NEW r \in Row,
           job' = [job EXCEPT ![o][s] = r]
    PROVE  JobBecomes(o, s, r.status)
<1> DEFINE row == [job[o] EXCEPT ![s] = r]
<1>1. job[o] \in [Stage -> Row]
  BY DEF Jobs
<1>2. job' = [job EXCEPT ![o] = row]
  OBVIOUS
<1>3. row \in [Stage -> Row] /\ row[s] = r /\ \A t \in Stage \ {s} : row[t] = job[o][t]
  BY <1>1
<1> HIDE DEF row
<1>. QED
  BY <1>2, <1>3 DEF JobBecomes, Jobs

LEMMA EnqueueSets ==
    ASSUME job \in Jobs, NEW o \in Op, NEW s \in Stage, Enqueue(o, s)
    PROVE  /\ job' \in Jobs
           /\ \A p \in Op, t \in Stage : p # o \/ t # s => job'[p][t] = job[p][t]
           /\ job'[o][s].status # "none"
           /\ job'[o][s].status = "completed" => job[o][s].status = "completed"
<1>1. CASE job[o][s].status = "none"
  <2>1. JobBecomes(o, s, "pending")
    BY <1>1, StatusSet DEF Enqueue, JobStatus
  <2>. QED
    BY <2>1 DEF JobBecomes
<1>2. CASE job[o][s].status # "none"
  BY <1>2 DEF Enqueue
<1>. QED
  BY <1>1, <1>2

LEMMA GotoMoves ==
    ASSUME Shape, NEW w \in Worker, worker[w] \in Running, NEW step \in Busy, Goto(w, step)
    PROVE  Moves(w, step)
<1> DEFINE r == [worker[w] EXCEPT !.step = step]
<1>1. r \in Running /\ r.op = worker[w].op /\ r.stage = worker[w].stage /\ r.step = step
  BY DEF Running
<1>2. worker' = [worker EXCEPT ![w] = r]
  BY DEF Goto
<1>3. r # IdleWorker
  BY <1>1 DEF IdleWorker, Busy, Outcomes
<1> HIDE DEF r
<1>. QED
  BY <1>1, <1>2, <1>3 DEF Moves, Shape

LEMMA SeenMoves ==
    ASSUME Shape, NEW w \in Worker, worker[w] \in Running, NEW step \in Busy,
           NEW seen \in SUBSET Event,
           worker' = [worker EXCEPT ![w].step = step, ![w].seen = seen]
    PROVE  Moves(w, step)
<1> DEFINE q == [worker[w] EXCEPT !.step = step]
           r == [q EXCEPT !.seen = seen]
<1>1. q \in Running /\ q.op = worker[w].op /\ q.stage = worker[w].stage /\ q.step = step
  BY DEF Running
<1>2. worker' = [worker EXCEPT ![w] = r]
  BY DEF Shape
<1> HIDE DEF q
<1>3. r \in Running /\ r.op = worker[w].op /\ r.stage = worker[w].stage /\ r.step = step
  BY <1>1 DEF Running
<1>4. r # IdleWorker
  BY <1>3 DEF IdleWorker, Busy, Outcomes
<1> HIDE DEF r
<1>. QED
  BY <1>2, <1>3, <1>4 DEF Moves, Shape

LEMMA IdleStops ==
    ASSUME Shape, NEW w \in Worker, worker' = [worker EXCEPT ![w] = IdleWorker]
    PROVE  Stops(w)
BY DEF Stops, Shape

LEMMA ReleaseSets ==
    ASSUME Shape, NEW w \in Worker, worker[w] \in Running, Release(w)
    PROVE  JobBecomes(worker[w].op, worker[w].stage, "pending")
BY ShapeGives, RunningIsBusy, StatusSet DEF Release, JobStatus

\* The reconciler goes back to the cascade unless it is complete.
LEMMA FirstUndoneIs ==
    ASSUME NEW o \in Op
    PROVE  /\ FirstUndone(o) \in Stage
           /\ FirstUndone(o) # "cascade" => job[o]["cascade"].status = "completed"
<1> DEFINE undone == {i \in 1 .. 4 : job[o][StageOrder[i]].status # "completed"}
<1>1. /\ StageOrder[1] = "cascade" /\ StageOrder[2] = "rebuild_dependencies"
      /\ StageOrder[3] = "purge" /\ StageOrder[4] = "verify"
  BY DEF StageOrder
<1>2. CASE undone = {}
  <2>1. FirstUndone(o) = "verify"
    BY <1>2 DEF FirstUndone
  <2>2. job[o][StageOrder[1]].status = "completed"
    BY <1>2
  <2>. QED
    BY <1>1, <2>1, <2>2 DEF Stage
<1>3. CASE undone # {}
  <2> DEFINE i == CHOOSE i \in undone : \A j \in undone : i <= j
  <2>1. \E k \in undone : \A j \in undone : k <= j
    <3>1. undone \subseteq {1, 2, 3, 4}
      OBVIOUS
    <3> HIDE DEF undone
    <3>2. CASE 1 \in undone
      BY <3>1, <3>2
    <3>3. CASE 1 \notin undone /\ 2 \in undone
      BY <3>1, <3>3
    <3>4. CASE 1 \notin undone /\ 2 \notin undone /\ 3 \in undone
      BY <3>1, <3>4
    <3>5. CASE 1 \notin undone /\ 2 \notin undone /\ 3 \notin undone
      <4>1. undone = {4}
        BY <1>3, <3>1, <3>5
      <4>. QED
        BY <4>1
    <3>. QED
      BY <3>2, <3>3, <3>4, <3>5
  <2>2. i \in undone /\ \A j \in undone : i <= j
    <3> HIDE DEF undone
    <3>. QED
      BY <2>1
  <2>3. FirstUndone(o) = StageOrder[i]
    BY <1>3 DEF FirstUndone
  <2>4. i \in {1, 2, 3, 4} /\ (i = 1 \/ 1 \notin undone)
    <3>1. undone \subseteq 1..4
      OBVIOUS
    <3> HIDE DEF undone, i
    <3>. QED
      BY <2>2, <3>1
  <2>5. i # 1 => job[o][StageOrder[1]].status = "completed"
    <3> HIDE DEF i
    <3>. QED
      BY <2>4
  <2> HIDE DEF i, undone
  <2>. QED
    BY <1>1, <2>3, <2>4, <2>5 DEF Stage
<1>. QED
  BY <1>2, <1>3
-------------------------------------------------------------------------------
(* Everything keeps its shape *)

LEMMA WriteShape ==
    ASSUME Shape, Write
    PROVE  Shape'
<1> USE ForgetAssumption
<1>1. ASSUME NEW E \in SUBSET Event, BeginWrite(E) PROVE Shape'
  BY <1>1 DEF BeginWrite, content, saga, cover, Shape, TypeOK
<1>2. ASSUME NEW m \in Memory, WriteMemory(m) PROVE Shape'
  <2>1. CASE UNCHANGED content
    BY <1>2, <2>1 DEF WriteMemory, IdleWriter, content, saga, cover, Shape, TypeOK
  <2>2. CASE ~(UNCHANGED content)
    <3>1. /\ memory' = [memory EXCEPT ![m] = "active"]
          /\ source' = [source EXCEPT ![m] = writer.events]
          /\ text' = text \cup {m}
          /\ written' = [written EXCEPT ![m] = Started]
          /\ versions' = versions
      BY <1>2, <2>2 DEF WriteMemory
    <3>2. writer.events \in SUBSET Event
      BY DEF Shape, TypeOK
    <3>3. /\ memory' \in [Memory -> {"none", "active", "forgotten"}]
          /\ source' \in [Memory -> SUBSET Event]
          /\ text' \subseteq Item
          /\ written' \in [Memory -> SUBSET Op]
      BY <3>1, <3>2 DEF Shape, TypeOK, Started, Item
    <3>. QED
      BY <1>2, <3>1, <3>3 DEF WriteMemory, IdleWriter, saga, cover, Shape, TypeOK
  <2>. QED
    BY <2>1, <2>2
<1>3. CASE DropWrite
  BY <1>3 DEF DropWrite, IdleWriter, content, saga, cover, Shape, TypeOK
<1>. QED
  BY <1>1, <1>2, <1>3 DEF Write

LEMMA ExistsType == ASSUME Shape PROVE Exists \in SUBSET Item
BY DEF Exists, Item

LEMMA SourcesType ==
    ASSUME Shape, NEW M \in SUBSET Memory
    PROVE  SourcesOf(M) \in SUBSET Event
BY DEF Shape, TypeOK, SourcesOf

LEMMA PhaseAShape ==
    ASSUME Shape, NEW o \in Op, NEW r \in Requests, PhaseA(o, r)
    PROVE  Shape'
<1> USE ForgetAssumption
<1>1. r.ids \in SUBSET Item
  BY ForgetAssumption
<1>2. Exists \in SUBSET Item /\ SourcesOf(r.ids \cap Memory) \in SUBSET Event
  BY ExistsType, SourcesType
<1>3. /\ op' \in [Op -> OpStatus]
      /\ request' \in [Op -> Requests \cup {NoRequest}]
      /\ memory' \in [Memory -> {"none", "active", "forgotten"}]
  BY DEF PhaseA, Shape, TypeOK, OpStatus
<1>4. /\ cutoff' \in [Op -> SUBSET Item] /\ tomb' \in [Op -> SUBSET Item]
      /\ target' \in [Op -> SUBSET Item]
  BY <1>1, <1>2, ShapeGives DEF PhaseA
<1>5. shield' \in [Op -> SUBSET Item]
  BY <1>1, <1>2, ShapeGives DEF PhaseA, Item
<1>6. job' \in Jobs
  BY ShapeGives, StatusSet DEF PhaseA, JobBecomes, JobStatus, Stage
<1>7. UNCHANGED <<text, source, versions, written, writer, progress, worker, faults>>
  BY DEF PhaseA
<1>. QED
  BY <1>3, <1>4, <1>5, <1>6, <1>7 DEF Shape, TypeOK, Jobs, Row, JobStatus

LEMMA ClaimShape ==
    ASSUME Shape, NEW w \in Worker, NEW o \in Op, NEW s \in Stage, Claim(w, o, s)
    PROVE  /\ Shape'
           /\ JobBecomes(o, s, "running")
           /\ worker'[w] # IdleWorker /\ worker'[w].op = o
           /\ worker'[w].stage = s /\ worker'[w].step = "start"
           /\ \A v \in Worker \ {w} : worker'[v] = worker[v]
<1> DEFINE r == [op |-> o, stage |-> s, step |-> "start", seen |-> {}, fenced |-> FALSE]
<1>1. r \in Running /\ r # IdleWorker
  BY DEF Running, Busy, IdleWorker
<1>2. JobBecomes(o, s, "running")
  BY ShapeGives, StatusSet DEF Claim, JobStatus
<1>3. worker' = [worker EXCEPT ![w] = r]
  BY DEF Claim
<1>4. worker'[w] # IdleWorker /\ worker'[w].op = o
        /\ worker'[w].stage = s /\ worker'[w].step = "start"
        /\ \A v \in Worker \ {w} : worker'[v] = worker[v]
  BY <1>1, <1>3 DEF Shape
<1> HIDE DEF r
<1>5. worker' \in [Worker -> {IdleWorker} \cup Running]
  BY <1>1, <1>3 DEF Shape
<1>. QED
  BY <1>2, <1>4, <1>5
  DEF Claim, content, saga, cover, Shape, TypeOK, JobBecomes, Jobs, Row, JobStatus

\* A fault leaves the worker where it was, without its lease, or takes it off.
LEMMA FaultMoves ==
    ASSUME Shape, NEW w \in Worker, Fault(w)
    PROVE  /\ worker[w] \in Running
           /\ job' = job \/ JobBecomes(worker[w].op, worker[w].stage, "pending")
           /\ \/ Stops(w)
              \/ Moves(w, worker[w].step)
              \/ worker[w].step \notin Outcomes /\ Moves(w, "retryable_error")
<1>1. CASE Crash(w)
  <2>1. worker[w] \in Running
    BY <1>1, RunningIsBusy DEF Crash
  <2>2. Release(w) \/ job' = job
    BY <1>1 DEF Crash
  <2>. QED
    BY <1>1, <2>1, <2>2, ReleaseSets, IdleStops DEF Crash
<1>2. CASE LeaseExpires(w)
  <2>1. worker[w] \in Running
    BY <1>2, RunningIsBusy DEF LeaseExpires, Owns
  <2>2. Release(w)
    BY <1>2 DEF LeaseExpires
  <2> DEFINE r == [worker[w] EXCEPT !.fenced = TRUE]
  <2>3. r \in Running /\ r.op = worker[w].op /\ r.stage = worker[w].stage
          /\ r.step = worker[w].step
    BY <2>1 DEF Running
  <2>4. r # IdleWorker
    BY <2>1, <2>3, RunningIsBusy DEF IdleWorker, Busy, Outcomes
  <2>5. worker' = [worker EXCEPT ![w] = r]
    BY <1>2 DEF LeaseExpires
  <2> HIDE DEF r
  <2>6. Moves(w, worker[w].step)
    BY <2>3, <2>4, <2>5 DEF Moves, Shape
  <2>. QED
    BY <2>1, <2>2, <2>6, ReleaseSets
<1>3. CASE Raises(w)
  <2>1. worker[w] \in Running
    BY <1>3, RunningIsBusy DEF Raises
  <2>2. Goto(w, "retryable_error")
    BY <1>3 DEF Raises, Goto
  <2>. QED
    BY <1>3, <2>1, <2>2, GotoMoves DEF Raises, Busy, Outcomes
<1>. QED
  BY <1>1, <1>2, <1>3 DEF Fault

LEMMA FaultShape ==
    ASSUME Shape, NEW w \in Worker, Fault(w)
    PROVE  Shape'
<1>1. job' \in Jobs /\ worker' \in [Worker -> {IdleWorker} \cup Running]
  BY FaultMoves, ShapeGives DEF JobBecomes, Stops, Moves
<1>2. faults' \in 0..MaxFaults
  BY ForgetAssumption DEF Fault, Crash, LeaseExpires, Raises, Shape, TypeOK
<1>3. UNCHANGED <<content, writer, saga, cover, progress>>
  BY DEF Fault, Crash, LeaseExpires, Raises
<1>. QED
  BY <1>1, <1>2, <1>3 DEF content, saga, cover, Shape, TypeOK, Jobs, Row, JobStatus

\* What the outcome of a handler does to its job and its operation.
LEMMA SettleMoves ==
    ASSUME Shape, NEW w \in Worker, Settle(w)
    PROVE  /\ worker[w] \in Running /\ worker[w].step \in Outcomes /\ Stops(w)
           /\ \/ job' = job
              \/ worker[w].step = "completed"
                   /\ JobBecomes(worker[w].op, worker[w].stage, "completed")
              \/ JobBecomes(worker[w].op, worker[w].stage, "pending")
              \/ JobBecomes(worker[w].op, worker[w].stage, "deadletter")
           /\ \/ op' = op
              \/ op' = [op EXCEPT ![worker[w].op] = "shielded_deadletter"]
<1> DEFINE o == worker[w].op
           s == worker[w].stage
           dead == job[o][s].retries + 1 >= MaxRetries
<1>1. worker[w].step \in Outcomes /\ worker' = [worker EXCEPT ![w] = IdleWorker]
  BY DEF Settle
<1>2. worker[w] \in Running /\ Stops(w) /\ o \in Op /\ s \in Stage
  BY <1>1, RunningIsBusy, IdleStops DEF Busy
<1>3. CASE worker[w].fenced
  BY <1>1, <1>2, <1>3 DEF Settle
<1>4. CASE ~worker[w].fenced /\ worker[w].step = "completed"
  <2>1. job' = [job EXCEPT ![o][s].status = "completed"] /\ op' = op
    BY <1>4 DEF Settle
  <2>. QED
    BY <1>1, <1>2, <1>4, <2>1, ShapeGives, StatusSet DEF JobStatus
<1>5. CASE ~worker[w].fenced /\ worker[w].step = "continue"
  <2>1. Release(w) /\ op' = op
    BY <1>5 DEF Settle
  <2>. QED
    BY <1>1, <1>2, <2>1, ReleaseSets
<1>6. CASE ~worker[w].fenced /\ worker[w].step = "retryable_error" /\ ~dead
  <2> DEFINE r == [status |-> "pending", retries |-> job[o][s].retries + 1]
  <2>1. job' = [job EXCEPT ![o][s] = r] /\ op' = op
    BY <1>6, ShapeGives, <1>2 DEF Settle, Jobs
  <2>2. job[o][s] \in Row
    BY <1>2, ShapeGives DEF Jobs
  <2>3. r \in Row /\ r.status = "pending"
    BY <1>6, <2>2, ForgetAssumption DEF Row, JobStatus
  <2> HIDE DEF r
  <2>4. JobBecomes(o, s, "pending")
    BY <1>2, <2>1, <2>3, ShapeGives, RowSet
  <2>. QED
    BY <1>1, <1>2, <2>1, <2>4
<1>7. CASE ~worker[w].fenced /\ worker[w].step = "retryable_error" /\ dead
  <2>1. job' = [job EXCEPT ![o][s].status = "deadletter"]
          /\ op' = [op EXCEPT ![o] = "shielded_deadletter"]
    BY <1>7 DEF Settle
  <2>. QED
    BY <1>1, <1>2, <2>1, ShapeGives, StatusSet DEF JobStatus
<1>. QED
  BY <1>1, <1>3, <1>4, <1>5, <1>6, <1>7 DEF Outcomes

LEMMA SettleShape ==
    ASSUME Shape, NEW w \in Worker, Settle(w)
    PROVE  Shape'
<1>1. job' \in Jobs /\ worker' \in [Worker -> {IdleWorker} \cup Running]
  BY SettleMoves, ShapeGives DEF JobBecomes, Stops
<1>2. op' \in [Op -> OpStatus]
  BY SettleMoves DEF Shape, TypeOK, OpStatus
<1>3. UNCHANGED <<content, writer, request, cutoff, cover, progress, faults>>
  BY DEF Settle
<1>. QED
  BY <1>1, <1>2, <1>3 DEF content, cover, Shape, TypeOK, Jobs, Row, JobStatus

LEMMA AtRunning ==
    ASSUME Shape, NEW w \in Worker, Handler(w)
    PROVE  worker[w] \in Running
<1>1. worker[w].step \in Busy
  BY DEF Handler, Cascade, Rebuild, Purge, Verify, MaterializePage, Discover, FinishCascade,
         RecomputeEvidence, ReadRemaining, WriteSummary, FinishRebuild, ScrubPage, ScrubScope,
         FinishPurge, ReadAgain, Judge, Settle, At, Busy, Outcomes
<1>. QED
  BY <1>1, RunningIsBusy

LEMMA ProgressRow ==
    ASSUME Shape, NEW o \in Op
    PROVE  progress[o] \in Progress /\ request[o].ids \in SUBSET Item
<1>1. progress[o] \in Progress /\ request[o] \in Requests \cup {NoRequest}
  BY DEF Shape, TypeOK
<1>. QED
  BY <1>1, ForgetAssumption DEF NoRequest

LEMMA UnpagedType ==
    ASSUME Shape, NEW o \in Op
    PROVE  Unpaged(o) \in SUBSET Item
<1>1. cutoff[o] \in SUBSET Item /\ request[o].ids \in SUBSET Item
  BY ShapeGives, ProgressRow
<1>. QED
  BY <1>1 DEF Unpaged

\* One more id that the selector stands for becomes a target.
LEMMA PageMoves ==
    ASSUME Shape, NEW w \in Worker, MaterializePage(w)
    PROVE  LET o == worker[w].op IN
           /\ worker[w] \in Running /\ At(w, "cascade", "start")
           /\ ~progress[o].cascaded
           /\ \E x \in Unpaged(o) :
                /\ target' = [target EXCEPT ![o] = @ \cup {x}]
                /\ progress' \in [Op -> Progress]
                /\ progress'[o].paged = progress[o].paged \cup {x}
                /\ progress'[o].cascaded = progress[o].cascaded
                /\ \A p \in Op \ {o} : progress'[p] = progress[p]
                /\ \/ Unpaged(o) = {x} /\ Moves(w, "tombstones")
                   \/ Moves(w, "continue")
<1> DEFINE o == worker[w].op
<1>1. worker[w] \in Running /\ o \in Op
  BY AtRunning, RunningIsBusy DEF Handler, Cascade
<1>2. PICK x \in Unpaged(o) :
         /\ target' = [target EXCEPT ![o] = @ \cup {x}]
         /\ progress' = [progress EXCEPT ![o].paged = @ \cup {x}]
         /\ Goto(w, IF Unpaged(o) = {x} THEN "tombstones" ELSE "continue")
  BY DEF MaterializePage
<1> DEFINE q == [progress[o] EXCEPT !.paged = @ \cup {x}]
<1>3. x \in Item /\ progress[o] \in Progress
  BY <1>1, UnpagedType, ProgressRow
<1>4. q \in Progress /\ q.paged = progress[o].paged \cup {x}
        /\ q.cascaded = progress[o].cascaded
  BY <1>3 DEF Progress
<1>5. progress' = [progress EXCEPT ![o] = q]
  BY <1>2
<1> HIDE DEF q
<1>6. progress' \in [Op -> Progress] /\ progress'[o] = q
        /\ \A p \in Op \ {o} : progress'[p] = progress[p]
  BY <1>1, <1>4, <1>5 DEF Shape, TypeOK
<1>7. \/ Unpaged(o) = {x} /\ Moves(w, "tombstones")
      \/ Moves(w, "continue")
  <2>1. Goto(w, "tombstones") => Moves(w, "tombstones")
    BY <1>1, GotoMoves DEF Busy
  <2>2. Goto(w, "continue") => Moves(w, "continue")
    BY <1>1, GotoMoves DEF Busy, Outcomes
  <2>. QED
    BY <1>2, <2>1, <2>2
<1>8. At(w, "cascade", "start") /\ ~progress[o].cascaded
  BY DEF MaterializePage
<1>. QED
  BY <1>1, <1>2, <1>4, <1>6, <1>7, <1>8

LEMMA WithDerivedType ==
    ASSUME Shape, NEW o \in Op
    PROVE  /\ WithDerived(o) \in SUBSET Item /\ target[o] \subseteq WithDerived(o)
           /\ TombstonesFor(o) \in SUBSET Item
           /\ WithDerived(o) \cup SourcesOf(WithDerived(o) \cap Memory)
                \subseteq TombstonesFor(o)
<1>1. WithDerived(o) \in SUBSET Item /\ target[o] \subseteq WithDerived(o)
  BY ShapeGives DEF WithDerived, Derived, Item
<1>2. SourcesOf(WithDerived(o) \cap Memory) \in SUBSET Event
  BY SourcesType
<1>. QED
  BY <1>1, <1>2 DEF TombstonesFor, Item

\* Targets, tombstones and states of memories; then a dependency, or the end.
LEMMA DiscoverMoves ==
    ASSUME Shape, NEW w \in Worker, Discover(w)
    PROVE  LET o == worker[w].op IN
           /\ worker[w] \in Running /\ worker[w].stage = "cascade"
           /\ \/ worker[w].step = "tombstones"
              \/ worker[w].step = "start" /\ Unpaged(o) = {}
           /\ ~progress[o].cascaded
           /\ progress' \in [Op -> Progress]
           /\ \A p \in Op \ {o} : progress'[p] = progress[p]
           /\ \/ /\ progress'[o].cascaded /\ progress'[o].paged = progress[o].paged
                 /\ Enqueue(o, "rebuild_dependencies") /\ Moves(w, "completed")
              \/ /\ ~progress'[o].cascaded /\ progress'[o].paged = {} /\ job' = job
                 /\ Moves(w, "finish") \/ Moves(w, "continue")
<1> DEFINE o == worker[w].op
           open == WithDerived(o) \ progress[o].resolved
<1>1. worker[w] \in Running /\ o \in Op
  BY AtRunning, RunningIsBusy DEF Handler, Cascade
<1>2. /\ worker[w].stage = "cascade"
      /\ \/ worker[w].step = "tombstones"
         \/ worker[w].step = "start" /\ Unpaged(o) = {}
      /\ ~progress[o].cascaded
  BY DEF Discover, At
<1>3. progress[o] \in Progress /\ WithDerived(o) \in SUBSET Item
  BY <1>1, ProgressRow, WithDerivedType
<1>4. CASE open = {}
  <2> DEFINE q == [progress[o] EXCEPT !.cascaded = TRUE]
  <2>1. progress' = [progress EXCEPT ![o] = q]
          /\ Enqueue(o, "rebuild_dependencies") /\ Goto(w, "completed")
    BY <1>4 DEF Discover
  <2>2. q \in Progress /\ q.cascaded /\ q.paged = progress[o].paged
    BY <1>3 DEF Progress
  <2> HIDE DEF q
  <2>3. progress' \in [Op -> Progress] /\ progress'[o] = q
          /\ \A p \in Op \ {o} : progress'[p] = progress[p]
    BY <1>1, <2>1, <2>2 DEF Shape, TypeOK
  <2>4. Moves(w, "completed")
    BY <1>1, <2>1, GotoMoves DEF Busy, Outcomes
  <2>. QED
    BY <1>1, <1>2, <2>1, <2>2, <2>3, <2>4
<1>5. CASE open # {}
  <2>1. PICK x \in open :
                /\ progress' = [progress EXCEPT
                       ![o].resolved = @ \cup {x},
                       ![o].paged = {},
                       ![o].summary =
                           IF @ = "no" /\ \E i \in DOMAIN versions : Cites(x, versions[i])
                           THEN "affected" ELSE @]
                /\ Goto(w, IF open = {x} THEN "finish" ELSE "continue")
                /\ UNCHANGED job
    BY <1>5 DEF Discover
  <2> DEFINE summary == IF progress[o].summary = "no"
                             /\ \E i \in DOMAIN versions : Cites(x, versions[i])
                        THEN "affected" ELSE progress[o].summary
             q == [progress[o] EXCEPT !.resolved = @ \cup {x}, !.paged = {},
                                      !.summary = summary]
  <2>2. summary \in {"no", "affected", "rebuilt"}
    BY <1>3 DEF Progress
  <2>3. progress' = [progress EXCEPT ![o] = q]
    <3>1. progress \in [Op -> Progress]
      BY DEF Shape, TypeOK
    <3>. QED
      BY <1>1, <1>3, <2>1, <3>1 DEF Progress
  <2> HIDE DEF summary
  <2>4. q \in Progress /\ q.cascaded = progress[o].cascaded /\ q.paged = {}
    <3>1. x \in Item
      BY <1>3, <2>1
    <3>. QED
      BY <1>3, <2>2, <3>1 DEF Progress
  <2> HIDE DEF q
  <2>5. progress' \in [Op -> Progress] /\ progress'[o] = q
          /\ \A p \in Op \ {o} : progress'[p] = progress[p]
    BY <1>1, <2>3, <2>4 DEF Shape, TypeOK
  <2>6. Moves(w, "finish") \/ Moves(w, "continue")
    <3>1. Goto(w, "finish") => Moves(w, "finish")
      BY <1>1, GotoMoves DEF Busy
    <3>2. Goto(w, "continue") => Moves(w, "continue")
      BY <1>1, GotoMoves DEF Busy, Outcomes
    <3>. QED
      BY <2>1, <3>1, <3>2
  <2>. QED
    BY <1>1, <1>2, <2>1, <2>4, <2>5, <2>6
<1>. QED
  BY <1>4, <1>5

LEMMA FinishCascadeMoves ==
    ASSUME Shape, NEW w \in Worker, FinishCascade(w)
    PROVE  LET o == worker[w].op IN
           /\ worker[w] \in Running /\ worker[w].stage = "cascade"
           /\ worker[w].step = "finish" \/ progress[o].cascaded
           /\ progress' \in [Op -> Progress]
           /\ progress'[o].cascaded /\ progress'[o].paged = progress[o].paged
           /\ \A p \in Op \ {o} : progress'[p] = progress[p]
           /\ Enqueue(o, "rebuild_dependencies") /\ Moves(w, "completed")
<1> DEFINE o == worker[w].op
           q == [progress[o] EXCEPT !.cascaded = TRUE]
<1>1. worker[w] \in Running /\ o \in Op
  BY AtRunning, RunningIsBusy DEF Handler, Cascade
<1>2. /\ worker[w].stage = "cascade"
      /\ worker[w].step = "finish" \/ progress[o].cascaded
      /\ progress' = [progress EXCEPT ![o] = q]
      /\ Enqueue(o, "rebuild_dependencies") /\ Goto(w, "completed")
  BY DEF FinishCascade, At
<1>3. q \in Progress /\ q.cascaded /\ q.paged = progress[o].paged
  BY <1>1, ProgressRow DEF Progress
<1> HIDE DEF q
<1>4. progress' \in [Op -> Progress] /\ progress'[o] = q
        /\ \A p \in Op \ {o} : progress'[p] = progress[p]
  BY <1>1, <1>2, <1>3 DEF Shape, TypeOK
<1>5. Moves(w, "completed")
  BY <1>1, <1>2, GotoMoves DEF Busy, Outcomes
<1>. QED
  BY <1>1, <1>2, <1>3, <1>4, <1>5

\* What the stages after the cascade have in common.
Later(w) ==
    LET o == worker[w].op IN
    /\ worker[w] \in Running /\ worker[w].stage # "cascade"
    /\ \E step \in Busy \ {"tombstones"} :
          Moves(w, step) /\ (step = "pass" => Passes(o) /\ UNCHANGED <<text, op, shield>>)
    /\ progress' \in [Op -> Progress]
    /\ \A p \in Op : /\ progress'[p].cascaded = progress[p].cascaded
                     /\ progress'[p].paged = progress[p].paged
    /\ job' = job \/ Enqueue(o, "purge") \/ Enqueue(o, "verify")
    /\ text' \subseteq text
    /\ memory' \in [Memory -> {"none", "active", "forgotten"}]
    /\ \A m \in Memory : memory'[m] = "none" <=> memory[m] = "none"
    /\ \/ UNCHANGED <<op, shield>>
       \/ worker[w].step = "pass" /\ shield' = [shield EXCEPT ![o] = {}]
            /\ op' = [op EXCEPT ![o] = "verified"] /\ text' = text
       \/ shield' = shield /\ op' = [op EXCEPT ![o] = "failed_retryable"]
    /\ UNCHANGED <<source, written, writer, request, cutoff, tomb, target>>

LEMMA ProgressSame ==
    ASSUME Shape, NEW o \in Op, NEW q \in Progress,
           q.cascaded = progress[o].cascaded, q.paged = progress[o].paged,
           progress' = [progress EXCEPT ![o] = q]
    PROVE  /\ progress' \in [Op -> Progress]
           /\ \A p \in Op : /\ progress'[p].cascaded = progress[p].cascaded
                            /\ progress'[p].paged = progress[p].paged
BY DEF Shape, TypeOK

LEMMA RebuildLater ==
    ASSUME Shape, Present, NEW w \in Worker, Rebuild(w)
    PROVE  Later(w) /\ Shape'
<1> USE ForgetAssumption
<1> DEFINE o == worker[w].op
<1>0. worker[w] \in Running /\ o \in Op /\ worker[w].stage = "rebuild_dependencies"
  BY AtRunning, RunningIsBusy
  DEF Handler, Rebuild, RecomputeEvidence, ReadRemaining, WriteSummary, FinishRebuild, At
<1>1. CASE RecomputeEvidence(w)
  <2>1. Moves(w, "read") \/ Moves(w, "finish")
    <3>1. Goto(w, "read") => Moves(w, "read")
      BY <1>0, GotoMoves DEF Busy
    <3>2. Goto(w, "finish") => Moves(w, "finish")
      BY <1>0, GotoMoves DEF Busy
    <3>. QED
      BY <1>1, <3>1, <3>2 DEF RecomputeEvidence
  <2>2. /\ memory' \in [Memory -> {"none", "active", "forgotten"}]
        /\ \A m \in Memory : m \notin target[o] => memory'[m] = memory[m]
        /\ \A m \in Memory : memory'[m] \in {"forgotten", memory[m]}
    BY <1>1 DEF RecomputeEvidence, Shape, TypeOK
  <2>3. \A m \in Memory : memory'[m] = "none" <=> memory[m] = "none"
    <3>1. \A m \in Memory : m \in target[o] => memory[m] # "none"
      BY <1>0, ForgetAssumption DEF Present, Exists, Item
    <3>. QED
      BY <2>2, <3>1
  <2>4. UNCHANGED <<text, source, versions, written, writer, saga, cover, progress, job, faults>>
    BY <1>1 DEF RecomputeEvidence
  <2>. QED
    BY <1>0, <2>1, <2>2, <2>3, <2>4 DEF Later, Busy, Moves, saga, cover, Shape, TypeOK
<1>2. CASE ReadRemaining(w)
  <2>1. Moves(w, "summary")
    <3>1. PICK seen \in {{}, {e \in Event : ~HiddenEvent(e)}} :
              worker' = [worker EXCEPT ![w].step = "summary", ![w].seen = seen]
      BY <1>2 DEF ReadRemaining
    <3>2. seen \in SUBSET Event
      BY <3>1
    <3>. QED
      BY <1>0, <3>1, <3>2, SeenMoves DEF Busy
  <2>2. UNCHANGED <<content, writer, saga, cover, progress, job, faults>>
    BY <1>2 DEF ReadRemaining
  <2>. QED
    BY <1>0, <2>1, <2>2 DEF Later, Busy, Moves, content, saga, cover, Shape, TypeOK
<1>3. CASE WriteSummary(w)
  <2> DEFINE seen == worker[w].seen
             q == [progress[o] EXCEPT !.summary = "rebuilt"]
  <2>0. seen \in SUBSET Event
    BY <1>0 DEF Running
  <2>1. Moves(w, "finish")
    <3>1. worker' = [worker EXCEPT ![w].step = "finish", ![w].seen = {}] /\ {} \in SUBSET Event
      BY <1>3 DEF WriteSummary
    <3>. QED
      BY <1>0, <3>1, SeenMoves DEF Busy
  <2>2. versions' \in Seq([cites : SUBSET Event, text : BOOLEAN])
    <3>1. versions' = Append(versions, [cites |-> seen, text |-> seen # {}])
      BY <1>3 DEF WriteSummary
    <3>2. [cites |-> seen, text |-> seen # {}] \in [cites : SUBSET Event, text : BOOLEAN]
      BY <2>0
    <3> HIDE DEF seen
    <3>. QED
      BY <3>1, <3>2 DEF Shape, TypeOK
  <2>3. progress' = [progress EXCEPT ![o] = q]
    BY <1>3 DEF WriteSummary
  <2>4. q \in Progress /\ q.cascaded = progress[o].cascaded /\ q.paged = progress[o].paged
    BY <1>0, ProgressRow DEF Progress
  <2> HIDE DEF q
  <2>5. /\ progress' \in [Op -> Progress]
        /\ \A p \in Op : /\ progress'[p].cascaded = progress[p].cascaded
                         /\ progress'[p].paged = progress[p].paged
    BY <1>0, <2>3, <2>4, ProgressSame
  <2>6. UNCHANGED <<text, memory, source, written, writer, saga, cover, job, faults>>
    BY <1>3 DEF WriteSummary
  <2>. QED
    BY <1>0, <2>1, <2>2, <2>5, <2>6 DEF Later, Busy, Moves, saga, cover, Shape, TypeOK
<1>4. CASE FinishRebuild(w)
  <2>1. Enqueue(o, "purge") /\ job' \in Jobs
    BY <1>0, <1>4, ShapeGives, EnqueueSets DEF FinishRebuild, Stage
  <2>2. Moves(w, "completed")
    BY <1>0, <1>4, GotoMoves DEF FinishRebuild, Busy, Outcomes
  <2>3. UNCHANGED <<content, writer, saga, cover, progress, faults>>
    BY <1>4 DEF FinishRebuild
  <2>. QED
    BY <1>0, <2>1, <2>2, <2>3
    DEF Later, Busy, Outcomes, Moves, content, saga, cover, Shape, TypeOK, Jobs, Row, JobStatus
<1>. QED
  BY <1>1, <1>2, <1>3, <1>4 DEF Rebuild

LEMMA PurgeLater ==
    ASSUME Shape, NEW w \in Worker, Purge(w)
    PROVE  Later(w) /\ Shape'
<1> USE ForgetAssumption
<1> DEFINE o == worker[w].op
<1>0. worker[w] \in Running /\ o \in Op /\ worker[w].stage = "purge"
  BY AtRunning, RunningIsBusy
  DEF Handler, Purge, ScrubPage, ScrubScope, FinishPurge, At
<1>1. CASE ScrubPage(w)
  <2>1. Moves(w, "continue")
    BY <1>0, <1>1, GotoMoves DEF ScrubPage, Busy, Outcomes
  <2>2. PICK m \in (target[o] \cap Memory) \ progress[o].scrubbed :
             /\ text' = text \ {m}
             /\ progress' = [progress EXCEPT ![o].scrubbed = @ \cup {m}]
    BY <1>1 DEF ScrubPage
  <2> DEFINE q == [progress[o] EXCEPT !.scrubbed = @ \cup {m}]
  <2>3. progress' = [progress EXCEPT ![o] = q]
    BY <2>2
  <2>4. q \in Progress /\ q.cascaded = progress[o].cascaded /\ q.paged = progress[o].paged
    BY <1>0, ProgressRow DEF Progress
  <2> HIDE DEF q
  <2>5. /\ progress' \in [Op -> Progress]
        /\ \A p \in Op : /\ progress'[p].cascaded = progress[p].cascaded
                         /\ progress'[p].paged = progress[p].paged
    BY <1>0, <2>3, <2>4, ProgressSame
  <2>6. UNCHANGED <<memory, source, versions, written, writer, saga, cover, job, faults>>
    BY <1>1 DEF ScrubPage
  <2>. QED
    BY <1>0, <2>1, <2>2, <2>5, <2>6
    DEF Later, Busy, Outcomes, Moves, saga, cover, Shape, TypeOK
<1>2. CASE ScrubScope(w)
  <2>1. Moves(w, "objects")
    BY <1>0, <1>2, GotoMoves DEF ScrubScope, Busy
  <2>2. text' \subseteq text
    BY <1>2 DEF ScrubScope
  <2>3. versions' \in Seq([cites : SUBSET Event, text : BOOLEAN])
    <3> DEFINE S == [cites : SUBSET Event, text : BOOLEAN]
               v == [i \in DOMAIN versions |-> [versions[i] EXCEPT !.text = FALSE]]
    <3>1. versions \in Seq(S)
      BY DEF Shape, TypeOK
    <3>2. \A i \in DOMAIN versions : [versions[i] EXCEPT !.text = FALSE] \in S
      <4>1. \A i \in DOMAIN versions : versions[i] \in S
        <5> HIDE DEF S
        <5>. QED
          BY <3>1
      <4>2. \A x \in S : [x EXCEPT !.text = FALSE] \in S
        OBVIOUS
      <4> HIDE DEF S
      <4>. QED
        BY <4>1, <4>2
    <3>3. Len(versions) \in Nat /\ DOMAIN versions = 1..Len(versions)
      BY <3>1
    <3>4. v \in [1..Len(versions) -> S]
      BY <3>2, <3>3
    <3>5. v \in Seq(S)
      <4> HIDE DEF v, S
      <4>. QED
        BY <3>3, <3>4
    <3>6. versions' \in {v, versions}
      BY <1>2 DEF ScrubScope
    <3>. QED
      BY <3>1, <3>5, <3>6
  <2>4. UNCHANGED <<memory, source, written, writer, saga, cover, progress, job, faults>>
    BY <1>2 DEF ScrubScope
  <2>. QED
    BY <1>0, <2>1, <2>2, <2>3, <2>4 DEF Later, Busy, Moves, saga, cover, Shape, TypeOK
<1>3. CASE FinishPurge(w)
  <2>1. Enqueue(o, "verify") /\ job' \in Jobs
    BY <1>0, <1>3, ShapeGives, EnqueueSets DEF FinishPurge, Stage
  <2>2. Moves(w, "completed")
    BY <1>0, <1>3, GotoMoves DEF FinishPurge, Busy, Outcomes
  <2>3. UNCHANGED <<content, writer, saga, cover, progress, faults>>
    BY <1>3 DEF FinishPurge
  <2>. QED
    BY <1>0, <2>1, <2>2, <2>3
    DEF Later, Busy, Outcomes, Moves, content, saga, cover, Shape, TypeOK, Jobs, Row, JobStatus
<1>. QED
  BY <1>1, <1>2, <1>3 DEF Purge

LEMMA VerifyLater ==
    ASSUME Shape, NEW w \in Worker, Verify(w)
    PROVE  Later(w) /\ Shape'
<1> USE ForgetAssumption
<1> DEFINE o == worker[w].op
<1>0. worker[w] \in Running /\ o \in Op /\ worker[w].stage = "verify"
  BY AtRunning, RunningIsBusy DEF Handler, Verify, ReadAgain, Judge, At
<1>1. CASE ReadAgain(w)
  <2>1. (Passes(o) /\ Moves(w, "pass")) \/ Moves(w, "fail")
    <3>1. Goto(w, "pass") => Moves(w, "pass")
      BY <1>0, GotoMoves DEF Busy
    <3>2. Goto(w, "fail") => Moves(w, "fail")
      BY <1>0, GotoMoves DEF Busy
    <3>. QED
      BY <1>1, <3>1, <3>2 DEF ReadAgain
  <2>2. UNCHANGED <<content, writer, saga, cover, progress, job, faults>>
    BY <1>1 DEF ReadAgain
  <2>. QED
    BY <1>0, <2>1, <2>2 DEF Later, Busy, Moves, content, saga, cover, Shape, TypeOK
<1>2. CASE Judge(w)
  <2>1. Moves(w, "completed")
    BY <1>0, <1>2, GotoMoves DEF Judge, Busy, Outcomes
  <2>2. UNCHANGED <<content, writer, request, cutoff, tomb, target, progress, job, faults>>
    BY <1>2 DEF Judge
  <2>3. \/ /\ worker[w].step = "pass" /\ op' = [op EXCEPT ![o] = "verified"]
           /\ shield' = [shield EXCEPT ![o] = {}]
        \/ op' = [op EXCEPT ![o] = "failed_retryable"] /\ shield' = shield
    BY <1>2 DEF Judge
  <2>4. op' \in [Op -> OpStatus] /\ shield' \in [Op -> SUBSET Item]
    <3>1. op \in [Op -> OpStatus] /\ shield \in [Op -> SUBSET Item]
      BY DEF Shape, TypeOK
    <3>2. "verified" \in OpStatus /\ "failed_retryable" \in OpStatus
      BY DEF OpStatus, Terminal
    <3>. QED
      BY <2>3, <3>1, <3>2
  <2>. QED
    BY <1>0, <2>1, <2>2, <2>3, <2>4
    DEF Later, Busy, Outcomes, Moves, content, saga, cover, Shape, TypeOK
<1>. QED
  BY <1>1, <1>2 DEF Verify

LEMMA CascadeShape ==
    ASSUME Shape, NEW w \in Worker, Cascade(w)
    PROVE  Shape'
<1> DEFINE o == worker[w].op
<1>0. worker[w] \in Running /\ o \in Op
  BY AtRunning, RunningIsBusy DEF Handler
<1>1. CASE MaterializePage(w)
  <2>1. UNCHANGED <<content, writer, saga, shield, tomb, job, faults>>
    BY <1>1 DEF MaterializePage
  <2>2. target' \in [Op -> SUBSET Item]
    <3>1. PICK x \in Unpaged(o) : target' = [target EXCEPT ![o] = @ \cup {x}]
      BY <1>1 DEF MaterializePage
    <3>2. x \in Item
      BY <1>0, <3>1, UnpagedType
    <3>. QED
      BY <1>0, <3>1, <3>2, ShapeGives
  <2>3. progress' \in [Op -> Progress] /\ worker' \in [Worker -> {IdleWorker} \cup Running]
    BY <1>1, PageMoves DEF Moves
  <2>. QED
    BY <2>1, <2>2, <2>3 DEF content, saga, Shape, TypeOK
<1>2. CASE Discover(w)
  <2>1. UNCHANGED <<text, source, versions, written, writer, saga, shield, faults>>
    BY <1>2 DEF Discover
  <2>2. target' \in [Op -> SUBSET Item] /\ tomb' \in [Op -> SUBSET Item]
    BY <1>0, <1>2, ShapeGives, WithDerivedType DEF Discover
  <2>3. memory' \in [Memory -> {"none", "active", "forgotten"}]
    BY <1>2 DEF Discover, Shape, TypeOK
  <2>4. progress' \in [Op -> Progress] /\ worker' \in [Worker -> {IdleWorker} \cup Running]
    BY <1>2, DiscoverMoves DEF Moves
  <2>5. job' \in Jobs
    BY <1>0, <1>2, DiscoverMoves, ShapeGives, EnqueueSets DEF Stage
  <2>. QED
    BY <2>1, <2>2, <2>3, <2>4, <2>5 DEF saga, Shape, TypeOK, Jobs, Row, JobStatus
<1>3. CASE FinishCascade(w)
  <2>1. UNCHANGED <<content, writer, saga, cover, faults>>
    BY <1>3 DEF FinishCascade
  <2>2. progress' \in [Op -> Progress] /\ worker' \in [Worker -> {IdleWorker} \cup Running]
    BY <1>3, FinishCascadeMoves DEF Moves
  <2>3. job' \in Jobs
    BY <1>0, <1>3, FinishCascadeMoves, ShapeGives, EnqueueSets DEF Stage
  <2>. QED
    BY <2>1, <2>2, <2>3 DEF content, saga, cover, Shape, TypeOK, Jobs, Row, JobStatus
<1>. QED
  BY <1>1, <1>2, <1>3 DEF Cascade

LEMMA ReconcileMoves ==
    ASSUME Shape, NEW o \in Op, Reconcile(o)
    PROVE  /\ Shape'
           /\ o \in Started
           /\ JobBecomes(o, FirstUndone(o), "pending")
           /\ \E status \in OpStatus \ ({"none"} \cup Terminal) : op' = [op EXCEPT ![o] = status]
<1> DEFINE s == FirstUndone(o)
           r == [status |-> "pending", retries |-> 0]
<1>1. s \in Stage
  BY FirstUndoneIs
<1>2. r \in Row /\ r.status = "pending"
  BY ForgetAssumption DEF Row, JobStatus
<1>3. job' = [job EXCEPT ![o][s] = r]
  BY DEF Reconcile
<1> HIDE DEF r
<1>4. JobBecomes(o, s, "pending")
  BY <1>1, <1>2, <1>3, ShapeGives, RowSet
<1>5. StageStatus[s] \in OpStatus \ ({"none"} \cup Terminal)
  BY <1>1 DEF StageStatus, Stage, OpStatus, Terminal
<1>6. op' = [op EXCEPT ![o] = StageStatus[s]] /\ o \in Started
  BY DEF Reconcile, Started
<1> HIDE DEF s
<1>7. op' \in [Op -> OpStatus]
  BY <1>5, <1>6 DEF Shape, TypeOK
<1>8. UNCHANGED <<content, writer, request, cutoff, cover, progress, worker, faults>>
  BY DEF Reconcile
<1>9. Shape'
  BY <1>4, <1>7, <1>8
  DEF content, cover, Shape, TypeOK, JobBecomes, Jobs, Row, JobStatus
<1>. QED
  BY <1>4, <1>5, <1>6, <1>9 DEF s

LEMMA LaterShape ==
    ASSUME Shape, Present, NEW w \in Worker, Rebuild(w) \/ Purge(w) \/ Verify(w)
    PROVE  Later(w) /\ Shape'
BY RebuildLater, PurgeLater, VerifyLater

LEMMA ShapeStep ==
    ASSUME Shape, Present, Next
    PROVE  Shape'
<1>1. ASSUME NEW w \in Worker, Handler(w) PROVE Shape'
  BY <1>1, CascadeShape, LaterShape, SettleShape DEF Handler
<1>2. ASSUME NEW w \in Worker, NEW o \in Op, NEW s \in Stage, Claim(w, o, s) PROVE Shape'
  BY <1>2, ClaimShape
<1>. QED
  BY <1>1, <1>2, WriteShape, PhaseAShape, ReconcileMoves, FaultShape DEF Next
-------------------------------------------------------------------------------
(* What no step takes back *)

\* A step of the outbox, of the reconciler or of a fault: jobs and workers.
Scheduling ==
    /\ UNCHANGED <<content, writer, request, cutoff, cover, progress>>
    /\ \A o \in Op : op'[o] = op[o] \/ (o \in Started /\ op'[o] \notin {"none", "verified"})

LEMMA BusyIsStarted ==
    ASSUME Shape, Untouched, NEW w \in Worker, worker[w] \in Running
    PROVE  worker[w].op \in Started
BY RunningIsBusy DEF Untouched

LEMMA SchedulingIs ==
    ASSUME Shape, Untouched
    PROVE  /\ \A o \in Op : Reconcile(o) => Scheduling
           /\ \A w \in Worker : Settle(w) \/ Fault(w) => Scheduling
           /\ \A w \in Worker, o \in Op, s \in Stage : Claim(w, o, s) => Scheduling
<1>0. op \in [Op -> OpStatus]
  BY DEF Shape, TypeOK
<1>1. ASSUME NEW o \in Op, Reconcile(o) PROVE Scheduling
  <2>1. PICK status \in OpStatus \ ({"none"} \cup Terminal) : op' = [op EXCEPT ![o] = status]
    BY <1>1, ReconcileMoves
  <2>2. o \in Started
    BY <1>1, ReconcileMoves
  <2>. QED
    BY <1>0, <1>1, <2>1, <2>2 DEF Reconcile, Scheduling, Terminal
<1>2. ASSUME NEW w \in Worker, Fault(w) PROVE Scheduling
  BY <1>2 DEF Fault, Crash, LeaseExpires, Raises, Scheduling, saga
<1>3. ASSUME NEW w \in Worker, NEW o \in Op, NEW s \in Stage, Claim(w, o, s) PROVE Scheduling
  BY <1>3 DEF Claim, Scheduling, saga
<1>4. ASSUME NEW w \in Worker, Settle(w) PROVE Scheduling
  <2>1. worker[w].op \in Started
    BY <1>4, SettleMoves, BusyIsStarted
  <2>2. \/ op' = op
        \/ op' = [op EXCEPT ![worker[w].op] = "shielded_deadletter"]
    BY <1>4, SettleMoves
  <2>3. UNCHANGED <<content, writer, request, cutoff, cover, progress>>
    BY <1>4 DEF Settle
  <2>. QED
    BY <1>0, <2>1, <2>2, <2>3 DEF Scheduling, Started
<1>. QED
  BY <1>1, <1>2, <1>3, <1>4


\* What an operation is about stays; what it has found and buried grows; what is
\* there stays there, with its sources; only what is new gets a text.
Onward ==
    /\ \A o \in Started :
          /\ op'[o] # "none" /\ request'[o] = request[o] /\ cutoff'[o] = cutoff[o]
          /\ tomb[o] \subseteq tomb'[o] /\ target[o] \subseteq target'[o]
          /\ progress[o].cascaded => progress'[o].cascaded
    /\ \A m \in Memory : memory[m] # "none" => memory'[m] # "none" /\ source'[m] = source[m]
    /\ text' \subseteq text \cup {m \in Memory : memory[m] = "none"}

LEMMA WriteOnward ==
    ASSUME Shape, Write
    PROVE  /\ Onward
           /\ UNCHANGED <<op, request, cutoff, shield, tomb, target, progress, job, worker>>
<1>1. UNCHANGED <<op, request, cutoff, shield, tomb, target, progress, job, worker>>
  BY DEF Write, BeginWrite, WriteMemory, DropWrite, saga, cover
<1>2. ASSUME NEW m \in Memory, WriteMemory(m) PROVE Onward
  BY <1>1, <1>2 DEF WriteMemory, Onward, content, Started, Shape, TypeOK
<1>3. CASE DropWrite \/ \E E \in SUBSET Event : BeginWrite(E)
  BY <1>1, <1>3 DEF DropWrite, BeginWrite, Onward, content, Started
<1>. QED
  BY <1>1, <1>2, <1>3 DEF Write

LEMMA PhaseAOnward ==
    ASSUME Shape, NEW o \in Op, NEW r \in Requests, PhaseA(o, r)
    PROVE  /\ Onward /\ o \notin Started
           /\ \A p \in Op \ {o} :
                /\ op'[p] = op[p] /\ request'[p] = request[p] /\ cutoff'[p] = cutoff[p]
                /\ shield'[p] = shield[p] /\ tomb'[p] = tomb[p] /\ target'[p] = target[p]
           /\ \A m \in Memory : memory'[m] = "none" => memory[m] = "none"
           /\ op'[o] = "shielded" /\ request'[o] = r /\ cutoff'[o] = Exists
           /\ tomb'[o] = r.ids /\ target'[o] = r.ids \cap Memory
           /\ r.kind = "all_user_data" => shield'[o] = Exists
           /\ r.ids \subseteq Exists /\ writer.step = "idle"
           /\ UNCHANGED <<text, source, written, writer, progress, worker>>
<1>1. o \notin Started
  BY DEF PhaseA, Started
<1>2. \A p \in Op \ {o} :
         /\ op'[p] = op[p] /\ request'[p] = request[p] /\ cutoff'[p] = cutoff[p]
         /\ shield'[p] = shield[p] /\ tomb'[p] = tomb[p] /\ target'[p] = target[p]
  BY DEF PhaseA, Shape, TypeOK
<1>3. \A m \in Memory : memory'[m] \in {"forgotten", memory[m]}
  BY DEF PhaseA
<1>4. /\ op'[o] = "shielded" /\ request'[o] = r /\ cutoff'[o] = Exists
      /\ tomb'[o] = r.ids /\ target'[o] = r.ids \cap Memory
      /\ r.kind = "all_user_data" => shield'[o] = Exists
      /\ r.ids \subseteq Exists /\ writer.step = "idle"
  BY DEF PhaseA, Shape, TypeOK
<1>5. UNCHANGED <<text, source, written, writer, progress, worker>>
  BY DEF PhaseA
<1>6. Onward
  BY <1>1, <1>2, <1>3, <1>5 DEF Onward, Started
<1>. QED
  BY <1>1, <1>2, <1>3, <1>4, <1>5, <1>6

LEMMA SchedulingOnward ==
    ASSUME Scheduling
    PROVE  Onward
BY DEF Scheduling, Onward, Started, content, cover

\* The steps of the cascade: one operation gets further, no other one is touched.
Further(w) ==
    LET o == worker[w].op IN
    /\ \A p \in Op \ {o} : target'[p] = target[p] /\ tomb'[p] = tomb[p]
                             /\ progress'[p] = progress[p]
    /\ tomb[o] \subseteq tomb'[o] /\ target[o] \subseteq target'[o]
    /\ progress[o].cascaded => progress'[o].cascaded
    /\ \A m \in Memory : memory'[m] = "none" <=> memory[m] = "none"
    /\ UNCHANGED <<text, source, written, writer, op, request, cutoff, shield>>

LEMMA CascadeFurther ==
    ASSUME Shape, Present, NEW w \in Worker, Cascade(w)
    PROVE  Further(w)
<1> DEFINE o == worker[w].op
<1>0. worker[w] \in Running /\ o \in Op
  BY AtRunning, RunningIsBusy DEF Handler
<1>1. CASE MaterializePage(w)
  <2>1. UNCHANGED <<content, writer, saga, shield, tomb, job, faults>>
    BY <1>1 DEF MaterializePage
  <2>2. PICK x \in Unpaged(o) :
            /\ target' = [target EXCEPT ![o] = @ \cup {x}]
            /\ progress'[o].cascaded = progress[o].cascaded
            /\ \A p \in Op \ {o} : progress'[p] = progress[p]
    BY <1>1, PageMoves
  <2>. QED
    BY <1>0, <2>1, <2>2, ShapeGives DEF Further, content, saga
<1>2. CASE Discover(w)
  <2>1. UNCHANGED <<text, source, versions, written, writer, saga, shield, faults>>
    BY <1>2 DEF Discover
  <2>2. /\ target' = [target EXCEPT ![o] = WithDerived(o)]
        /\ tomb' = [tomb EXCEPT ![o] = @ \cup TombstonesFor(o)]
        /\ memory' = [m \in Memory |->
               IF m \in WithDerived(o) THEN "forgotten" ELSE memory[m]]
    BY <1>2 DEF Discover
  <2>3. ~progress[o].cascaded /\ \A p \in Op \ {o} : progress'[p] = progress[p]
    BY <1>2, DiscoverMoves
  <2>4. target[o] \subseteq WithDerived(o)
    BY <1>0, WithDerivedType
  <2>5. \A m \in Memory : m \in WithDerived(o) => memory[m] # "none"
    <3>1. \A m \in Memory : m \in target[o] => memory[m] # "none"
      BY <1>0, ForgetAssumption DEF Present, Exists
    <3>2. \A m \in Memory : source[m] # {} => memory[m] # "none"
      BY DEF Present
    <3>. QED
      BY <3>1, <3>2 DEF WithDerived, Derived
  <2>6. \A m \in Memory : memory'[m] = "none" <=> memory[m] = "none"
    BY <2>2, <2>5
  <2>. QED
    BY <1>0, <2>1, <2>2, <2>3, <2>4, <2>6, ShapeGives DEF Further, saga
<1>3. CASE FinishCascade(w)
  <2>1. UNCHANGED <<content, writer, saga, cover, faults>>
    BY <1>3 DEF FinishCascade
  <2>. QED
    BY <1>3, <2>1, FinishCascadeMoves DEF Further, content, saga, cover
<1>. QED
  BY <1>1, <1>2, <1>3 DEF Cascade

LEMMA FurtherOnward ==
    ASSUME NEW w \in Worker, Further(w)
    PROVE  Onward
BY DEF Further, Onward, Started

LEMMA LaterOnward ==
    ASSUME Shape, NEW w \in Worker, Later(w)
    PROVE  Onward
<1>1. op \in [Op -> OpStatus]
  BY DEF Shape, TypeOK
<1>2. \A p \in Op : op'[p] = op[p] \/ op'[p] # "none"
  BY <1>1 DEF Later
<1>. QED
  BY <1>2 DEF Later, Onward, Started

\* Every step is of one of five kinds.
LEMMA Kinds ==
    ASSUME Shape, Present, Untouched, Next
    PROVE  \/ Write
           \/ \E o \in Op, r \in Requests : PhaseA(o, r)
           \/ Scheduling
           \/ \E w \in Worker : Cascade(w)
           \/ \E w \in Worker : (Rebuild(w) \/ Purge(w) \/ Verify(w)) /\ Later(w)
BY SchedulingIs, LaterShape DEF Next, Handler

LEMMA OnwardStep ==
    ASSUME Shape, Present, Untouched, Next
    PROVE  Onward
BY Kinds, WriteOnward, PhaseAOnward, SchedulingOnward, CascadeFurther, FurtherOnward,
   LaterOnward

-------------------------------------------------------------------------------
(* Each part of the invariant in every step *)

LEMMA ExistsGrows == ASSUME Onward PROVE Exists \subseteq Exists'
BY DEF Onward, Exists

LEMMA PresentStep ==
    ASSUME Shape, Present, Untouched, Asked, Next
    PROVE  Present'
<1>0. Exists \subseteq Exists' /\ Onward
  BY OnwardStep, ExistsGrows
<1>0a. Started \subseteq Started'
  BY <1>0 DEF Onward, Started
<1>1. CASE Write
  <2>1. UNCHANGED <<op, request, cutoff, target>>
    BY <1>1, WriteOnward
  <2>2. ASSUME NEW m \in Memory, WriteMemory(m), ~(UNCHANGED content) PROVE Present'
    <3>1. /\ memory' = [memory EXCEPT ![m] = "active"]
          /\ source' = [source EXCEPT ![m] = writer.events]
          /\ written' = [written EXCEPT ![m] = Started]
      BY <2>2 DEF WriteMemory
    <3>. QED
      BY <1>0, <1>0a, <2>1, <3>1 DEF Present, Shape, TypeOK
  <2>3. CASE UNCHANGED content
    BY <1>0, <1>0a, <2>1, <2>3 DEF Present, content
  <2>. QED
    BY <1>1, <2>2, <2>3 DEF Write, BeginWrite, DropWrite
<1>2. ASSUME NEW o \in Op, NEW r \in Requests, PhaseA(o, r) PROVE Present'
  <2>1. /\ \A p \in Op \ {o} : request'[p] = request[p] /\ cutoff'[p] = cutoff[p]
                                  /\ target'[p] = target[p]
        /\ \A m \in Memory : memory'[m] = "none" => memory[m] = "none"
        /\ request'[o] = r /\ cutoff'[o] = Exists
        /\ target'[o] = r.ids \cap Memory /\ r.ids \subseteq Exists
        /\ UNCHANGED <<source, written>>
    BY <1>2, PhaseAOnward
  <2>. QED
    BY <1>0, <1>0a, <2>1 DEF Present
<1>3. CASE Scheduling
  BY <1>0, <1>0a, <1>3 DEF Scheduling, Present, content, cover
<1>4. ASSUME NEW w \in Worker, Cascade(w) PROVE Present'
  <2> DEFINE o == worker[w].op
  <2>1. Further(w) /\ o \in Started
    BY <1>4, CascadeFurther, BusyIsStarted, AtRunning DEF Handler
  <2>2. target'[o] \subseteq Exists
    <3>1. CASE MaterializePage(w)
      <4>1. PICK x \in Unpaged(o) : target' = [target EXCEPT ![o] = @ \cup {x}]
        BY <3>1, PageMoves
      <4>2. Unpaged(o) \subseteq cutoff[o] \cup request[o].ids
        BY DEF Unpaged
      <4>. QED
        BY <2>1, <4>1, <4>2, ShapeGives DEF Present, Started
    <3>2. CASE Discover(w)
      <4>1. target' = [target EXCEPT ![o] = WithDerived(o)]
        BY <3>2 DEF Discover
      <4>2. Derived(o) \subseteq Exists
        BY DEF Derived, Exists, Present
      <4>. QED
        BY <2>1, <4>1, <4>2, ShapeGives DEF Present, Started, WithDerived
    <3>3. CASE FinishCascade(w)
      BY <2>1, <3>3 DEF FinishCascade, cover, Present, Started
    <3>. QED
      BY <1>4, <3>1, <3>2, <3>3 DEF Cascade
  <2>3. Exists' = Exists
    BY <2>1 DEF Further, Exists
  <2>. QED
    BY <1>0a, <2>1, <2>2, <2>3 DEF Further, Present
<1>5. ASSUME NEW w \in Worker, Later(w) PROVE Present'
  BY <1>0, <1>0a, <1>5 DEF Later, Present
<1>. QED
  BY <1>1, <1>2, <1>3, <1>4, <1>5, Kinds

LEMMA MovesIs ==
    ASSUME NEW w \in Worker, NEW step, Moves(w, step), worker[w] # IdleWorker
    PROVE  \A v \in Worker : worker'[v] # IdleWorker =>
              worker[v] # IdleWorker /\ worker'[v].op = worker[v].op
BY DEF Moves

LEMMA UntouchedStep ==
    ASSUME Shape, Present, Untouched, Next
    PROVE  Untouched'
<1>0. Op \ Started' \subseteq Op \ Started
  BY OnwardStep DEF Onward, Started
<1>1. CASE Write
  BY <1>1, WriteOnward DEF Untouched, Started
<1>2. ASSUME NEW o \in Op, NEW r \in Requests, PhaseA(o, r) PROVE Untouched'
  <2>1. JobBecomes(o, "cascade", "pending")
    BY <1>2, ShapeGives, StatusSet DEF PhaseA, Stage, JobStatus
  <2>2. o \in Started' /\ progress' = progress /\ worker' = worker
    BY <1>2, PhaseAOnward DEF Started
  <2>. QED
    BY <1>0, <2>1, <2>2 DEF Untouched, JobBecomes
<1>3. ASSUME NEW o \in Op, Reconcile(o) PROVE Untouched'
  <2>1. o \in Started /\ JobBecomes(o, FirstUndone(o), "pending")
    BY <1>3, ReconcileMoves
  <2>2. progress' = progress /\ worker' = worker
    BY <1>3 DEF Reconcile
  <2>3. o \in Started'
    BY <2>1, OnwardStep DEF Onward, Started
  <2>. QED
    BY <1>0, <2>1, <2>2, <2>3 DEF Untouched, JobBecomes
<1>4. ASSUME NEW w \in Worker, NEW o \in Op, NEW s \in Stage, Claim(w, o, s) PROVE Untouched'
  <2>1. job[o][s].status = "pending" /\ progress' = progress
    BY <1>4 DEF Claim
  <2>2. o \in Started
    BY <2>1 DEF Untouched
  <2>3. o \in Started'
    BY <2>2, OnwardStep DEF Onward, Started
  <2>. QED
    BY <1>0, <1>4, <2>1, <2>3, ClaimShape DEF Untouched, JobBecomes
<1>5. ASSUME NEW w \in Worker, Handler(w) \/ Fault(w) PROVE Untouched'
  <2> DEFINE o == worker[w].op
  <2>1. worker[w] \in Running /\ worker[w] # IdleWorker
    BY <1>5, AtRunning, FaultMoves, RunningIsBusy
  <2>2. o \in Started /\ o \in Op
    BY <2>1, BusyIsStarted DEF Started
  <2>3. o \in Started'
    BY <2>2, OnwardStep DEF Onward, Started
  <2>4. \A p \in Op \ {o} : progress'[p] = progress[p] \/ p \in Started
    <3>1. CASE Settle(w) \/ Fault(w)
      BY <3>1, SchedulingIs DEF Scheduling
    <3>2. CASE Cascade(w)
      BY <3>2, CascadeFurther DEF Further
    <3>3. CASE Rebuild(w) \/ Purge(w) \/ Verify(w)
      <4>1. progress' = progress \/ \E q : progress' = [progress EXCEPT ![o] = q]
        BY <3>3 DEF Rebuild, RecomputeEvidence, ReadRemaining, WriteSummary, FinishRebuild,
                    Purge, ScrubPage, ScrubScope, FinishPurge, Verify, ReadAgain, Judge
      <4>. QED
        BY <4>1 DEF Shape, TypeOK
    <3>. QED
      BY <1>5, <3>1, <3>2, <3>3 DEF Handler
  <2>5. \A p \in Op \ {o}, s \in Stage : job'[p][s] = job[p][s]
    <3>1. CASE Settle(w)
      BY <3>1, SettleMoves DEF JobBecomes
    <3>2. CASE Fault(w)
      BY <3>2, FaultMoves DEF JobBecomes
    <3>3. CASE Cascade(w)
      <4>1. job' = job \/ Enqueue(o, "rebuild_dependencies")
        BY <3>3 DEF Cascade, MaterializePage, Discover, FinishCascade
      <4>. QED
        BY <2>2, <4>1, ShapeGives, EnqueueSets DEF Stage
    <3>4. CASE Rebuild(w) \/ Purge(w) \/ Verify(w)
      <4>1. job' = job \/ Enqueue(o, "purge") \/ Enqueue(o, "verify")
        BY <3>4, LaterShape DEF Later
      <4>. QED
        BY <2>2, <4>1, ShapeGives, EnqueueSets DEF Stage
    <3>. QED
      BY <1>5, <3>1, <3>2, <3>3, <3>4 DEF Handler
  <2>6. \A v \in Worker : worker'[v] # IdleWorker =>
            worker[v] # IdleWorker /\ worker'[v].op = worker[v].op
    <3>1. Stops(w) \/ \E step : Moves(w, step)
      <4>1. CASE Settle(w)
        BY <4>1, SettleMoves
      <4>2. CASE Fault(w)
        BY <4>2, FaultMoves
      <4>3. CASE Cascade(w)
        BY <4>3, PageMoves, DiscoverMoves, FinishCascadeMoves DEF Cascade
      <4>4. CASE Rebuild(w) \/ Purge(w) \/ Verify(w)
        BY <4>4, LaterShape DEF Later
      <4>. QED
        BY <1>5, <4>1, <4>2, <4>3, <4>4 DEF Handler
    <3>. QED
      BY <2>1, <3>1, MovesIs DEF Stops
  <2>. QED
    BY <1>0, <2>2, <2>3, <2>4, <2>5, <2>6 DEF Untouched
<1>. QED
  BY <1>1, <1>2, <1>3, <1>4, <1>5 DEF Next

LEMMA AskedStep ==
    ASSUME Shape, Present, Untouched, Asked, Next
    PROVE  Asked'
<1>0. Onward
  BY OnwardStep
<1>1. CASE Write
  BY <1>1, WriteOnward DEF Asked, Started
<1>2. ASSUME NEW o \in Op, NEW r \in Requests, PhaseA(o, r) PROVE Asked'
  <2>1. /\ \A p \in Op \ {o} : op'[p] = op[p] /\ request'[p] = request[p]
                                /\ tomb'[p] = tomb[p] /\ target'[p] = target[p]
        /\ request'[o] = r /\ tomb'[o] = r.ids /\ target'[o] = r.ids \cap Memory
        /\ progress' = progress /\ o \notin Started
    BY <1>2, PhaseAOnward
  <2>2. progress[o].paged = {}
    BY <2>1 DEF Untouched, Fresh
  <2>. QED
    BY <2>1, <2>2 DEF Asked, Started
<1>3. CASE Scheduling
  BY <1>3 DEF Scheduling, Asked, Started, cover
<1>4. ASSUME NEW w \in Worker, Cascade(w) PROVE Asked'
  <2> DEFINE o == worker[w].op
  <2>1. Further(w) /\ o \in Started
    BY <1>4, CascadeFurther, BusyIsStarted, AtRunning DEF Handler
  <2>2. progress'[o].paged \subseteq target'[o]
    <3>1. CASE MaterializePage(w)
      <4>1. PICK x \in Unpaged(o) :
                /\ target' = [target EXCEPT ![o] = @ \cup {x}]
                /\ progress'[o].paged = progress[o].paged \cup {x}
        BY <3>1, PageMoves
      <4>. QED
        BY <2>1, <4>1, ShapeGives DEF Asked, Started
    <3>2. CASE Discover(w)
      <4>1. progress'[o].paged \subseteq progress[o].paged
        BY <3>2, DiscoverMoves
      <4>. QED
        BY <2>1, <4>1 DEF Asked, Further
    <3>3. CASE FinishCascade(w)
      <4>1. progress'[o].paged \subseteq progress[o].paged
        BY <3>3, FinishCascadeMoves
      <4>. QED
        BY <2>1, <4>1 DEF Asked, Further
    <3>. QED
      BY <1>4, <3>1, <3>2, <3>3 DEF Cascade
  <2>. QED
    BY <2>1, <2>2 DEF Further, Asked, Started
<1>5. ASSUME NEW w \in Worker, Later(w) PROVE Asked'
  <2>1. Started' \subseteq Started
    BY <1>5, RunningIsBusy, BusyIsStarted DEF Later, Started, Shape, TypeOK
  <2>. QED
    BY <1>5, <2>1 DEF Later, Asked, Started
<1>. QED
  BY <1>1, <1>2, <1>3, <1>4, <1>5, Kinds
-------------------------------------------------------------------------------
(* The cascade *)

LEMMA KindIs ==
    ASSUME Shape, NEW o \in Op
    PROVE  request[o].kind \in Kind /\ request[o].ids \in SUBSET Item /\ Accepted(request[o])
<1>1. request[o] \in Requests \cup {NoRequest}
  BY DEF Shape, TypeOK
<1>. QED
  BY <1>1, ForgetAssumption DEF NoRequest, Kind, Accepted

\* What is to be forgotten was there at the cutoff, so its sources stay.
LEMMA ForgottenIsOld ==
    ASSUME Shape, Present, NEW o \in Op
    PROVE  /\ Forgotten(o) \subseteq cutoff[o]
           /\ cutoff[o] \subseteq Exists /\ target[o] \subseteq Exists
           /\ \A m \in Memory \cap Exists : memory[m] # "none"
<1>1. request[o].ids \subseteq cutoff[o]
  BY DEF Present
<1>2. Forgotten(o) \subseteq cutoff[o]
  <2>1. CASE request[o].kind = "memory_ids"
    BY <1>1, <2>1 DEF Forgotten
  <2>2. CASE request[o].kind = "event_ids"
    BY <1>1, <2>2 DEF Forgotten
  <2>3. CASE request[o].kind = "all_user_data"
    BY <2>3 DEF Forgotten
  <2>. QED
    BY <2>1, <2>2, <2>3, KindIs DEF Kind
<1>. QED
  BY <1>2, ForgetAssumption DEF Present, Exists

LEMMA AboutStays ==
    ASSUME Shape, Present, Onward, NEW o \in Started
    PROVE  /\ Named(o)' = Named(o)
           /\ Forgotten(o)' = Forgotten(o)
           /\ Unlearnable(o)' = Unlearnable(o)
           /\ \A m \in Memory \cap (cutoff[o] \cup target[o]) : source'[m] = source[m]
<1>0. o \in Op /\ request'[o] = request[o] /\ cutoff'[o] = cutoff[o]
  BY DEF Started, Onward
<1>1. \A m \in Memory \cap (cutoff[o] \cup target[o]) : source'[m] = source[m]
  BY <1>0, ForgottenIsOld DEF Onward
<1>2. Named(o)' = Named(o)
  BY <1>0 DEF Named
<1>3. Forgotten(o)' = Forgotten(o)
  <2>1. {m \in Memory \cap cutoff[o] : source'[m] \cap request[o].ids # {}}
          = {m \in Memory \cap cutoff[o] : source[m] \cap request[o].ids # {}}
    BY <1>1
  <2>. QED
    BY <1>0, <2>1 DEF Forgotten
<1>4. \A M \in SUBSET (Memory \cap cutoff[o]) :
         UNION {source'[m] : m \in M} = UNION {source[m] : m \in M}
  BY <1>1
<1>5. request[o].ids \subseteq cutoff[o]
  BY <1>0 DEF Present
<1>6. Unlearnable(o)' = Unlearnable(o)
  <2>1. SourcesOf(cutoff[o] \cap Memory)' = SourcesOf(cutoff[o] \cap Memory)
    BY <1>0, <1>4 DEF SourcesOf
  <2>2. SourcesOf(request[o].ids \cap Memory)' = SourcesOf(request[o].ids \cap Memory)
    BY <1>0, <1>4, <1>5 DEF SourcesOf
  <2>. QED
    BY <1>0, <2>1, <2>2 DEF Unlearnable
<1>. QED
  BY <1>1, <1>2, <1>3, <1>6

LEMMA ReachedStays ==
    ASSUME Shape, Present, Onward, NEW o \in Started, Reached(o), target'[o] = target[o]
    PROVE  Reached(o)'
<1>0. o \in Op /\ cutoff'[o] = cutoff[o] /\ tomb[o] \subseteq tomb'[o]
  BY DEF Started, Onward
<1>1. /\ Named(o)' = Named(o)
      /\ \A m \in Memory \cap (cutoff[o] \cup target[o]) : source'[m] = source[m]
  BY AboutStays
<1>2. SourcesOf(target[o] \cap Memory)' = SourcesOf(target[o] \cap Memory)
  BY <1>1 DEF SourcesOf
<1>. QED
  BY <1>0, <1>1, <1>2 DEF Reached

\* After a round over the dependencies nothing is left out.
LEMMA DiscoverReaches ==
    ASSUME Shape, Present, Untouched, Asked, Staged, NEW w \in Worker, Discover(w),
           NEW o, o = worker[w].op
    PROVE  Reached(o)'
<1>0. worker[w] \in Running /\ o \in Op /\ o \in Started /\ worker[w] # IdleWorker
  BY DiscoverMoves, RunningIsBusy, BusyIsStarted
<1>1. Named(o) \subseteq target[o]
  <2>1. CASE worker[w].step = "tombstones"
    BY <1>0, <2>1 DEF Staged
  <2>2. CASE Unpaged(o) = {}
    BY <1>0, <2>2 DEF Asked, Unpaged, Named
  <2>. QED
    BY <2>1, <2>2, DiscoverMoves
<1>2. /\ target' = [target EXCEPT ![o] = WithDerived(o)]
      /\ tomb' = [tomb EXCEPT ![o] = @ \cup TombstonesFor(o)]
  BY DEF Discover
<1>3. /\ target'[o] = WithDerived(o) /\ tomb'[o] = tomb[o] \cup TombstonesFor(o)
  BY <1>0, <1>2, ShapeGives
<1>4. UNCHANGED <<source, cutoff, request>>
  BY DEF Discover, saga
<1>5. WithDerived(o) \cup SourcesOf(WithDerived(o) \cap Memory) \subseteq TombstonesFor(o)
        /\ target[o] \subseteq WithDerived(o)
  BY <1>0, WithDerivedType
<1>6. \A m \in Memory : source[m] \cap WithDerived(o) # {} => m \in WithDerived(o)
  <2>1. \A m \in Memory : source[m] \subseteq Event
    BY DEF Shape, TypeOK
  <2>. QED
    BY <2>1, ForgetAssumption DEF WithDerived, Derived
<1>7. Named(o)' = Named(o)
  BY <1>4 DEF Named
<1>8. SourcesOf(target[o] \cap Memory)' = SourcesOf(WithDerived(o) \cap Memory)
  BY <1>3, <1>4 DEF SourcesOf
<1>. QED
  BY <1>1, <1>3, <1>4, <1>5, <1>6, <1>7, <1>8 DEF Reached

\* No page adds to what the cascade has reached.
LEMMA ReachedStep ==
    ASSUME Shape, Present, Untouched, Asked, Staged, Next
    PROVE  \A o \in Started : Reached(o) => Reached(o)'
<1>0. Onward
  BY OnwardStep
<1> SUFFICES ASSUME NEW o \in Started, Reached(o) PROVE Reached(o)'
  OBVIOUS
<1>1. o \in Op
  BY DEF Started
<1>2. CASE target'[o] = target[o]
  BY <1>0, <1>2, ReachedStays
<1>3. CASE target'[o] # target[o]
  <2>1. CASE Write
    BY <1>3, <2>1, WriteOnward
  <2>2. ASSUME NEW p \in Op, NEW r \in Requests, PhaseA(p, r) PROVE FALSE
    <3>1. p # o
      BY <2>2, PhaseAOnward
    <3>. QED
      BY <1>1, <1>3, <2>2, <3>1, PhaseAOnward
  <2>3. CASE Scheduling
    BY <1>3, <2>3 DEF Scheduling, cover
  <2>4. ASSUME NEW w \in Worker, Cascade(w) PROVE Reached(o)'
    <3>1. worker[w].op = o
      BY <1>1, <1>3, <2>4, CascadeFurther DEF Further
    <3>2. CASE MaterializePage(w)
      <4>1. PICK x \in Unpaged(o) : target' = [target EXCEPT ![o] = @ \cup {x}]
        BY <3>1, <3>2, PageMoves
      <4>2. Unpaged(o) \subseteq target[o]
        BY DEF Unpaged, Named, Reached
      <4>. QED
        BY <1>1, <1>3, <4>1, <4>2, ShapeGives
    <3>3. CASE Discover(w)
      BY <3>1, <3>3, DiscoverReaches
    <3>4. CASE FinishCascade(w)
      BY <1>3, <3>4 DEF FinishCascade, cover
    <3>. QED
      BY <2>4, <3>2, <3>3, <3>4 DEF Cascade
  <2>5. ASSUME NEW w \in Worker, Later(w) PROVE FALSE
    BY <1>3, <2>5 DEF Later
  <2>. QED
    BY <2>1, <2>2, <2>3, <2>4, <2>5, Kinds
<1>. QED
  BY <1>2, <1>3

\* The cascade is complete where it was, or where all is reached.
LEMMA CascadedStep ==
    ASSUME Shape, Present, Untouched, Asked, Staged, Next
    PROVE  /\ \A o \in Op : progress[o].cascaded => o \in Started /\ progress'[o].cascaded
           /\ \A o \in Op : progress'[o].cascaded => Reached(o)'
<1>1. \A o \in Op : progress[o].cascaded => o \in Started /\ Reached(o)
  BY DEF Untouched, Fresh, Staged
<1>2. \A o \in Op : progress[o].cascaded => progress'[o].cascaded /\ Reached(o)'
  BY <1>1, OnwardStep, ReachedStep DEF Onward
<1>3. ASSUME NEW o \in Op, progress'[o].cascaded, ~progress[o].cascaded PROVE Reached(o)'
  <2>1. CASE Write
    BY <1>3, <2>1, WriteOnward
  <2>2. CASE \E p \in Op, r \in Requests : PhaseA(p, r)
    BY <1>3, <2>2, PhaseAOnward
  <2>3. CASE Scheduling
    BY <1>3, <2>3 DEF Scheduling
  <2>4. ASSUME NEW w \in Worker, Cascade(w) PROVE Reached(o)'
    <3>1. worker[w].op = o
      BY <1>3, <2>4, CascadeFurther DEF Further
    <3>2. CASE MaterializePage(w)
      BY <1>3, <3>1, <3>2, PageMoves
    <3>3. CASE Discover(w)
      BY <3>1, <3>3, DiscoverReaches
    <3>4. CASE FinishCascade(w)
      <4>1. worker[w] \in Running /\ worker[w] # IdleWorker /\ worker[w].step = "finish"
        BY <1>3, <3>1, <3>4, FinishCascadeMoves, RunningIsBusy
      <4>2. Reached(o) /\ o \in Started
        BY <3>1, <4>1, BusyIsStarted DEF Staged
      <4>. QED
        BY <4>2, ReachedStep
    <3>. QED
      BY <2>4, <3>2, <3>3, <3>4 DEF Cascade
  <2>5. ASSUME NEW w \in Worker, Later(w) PROVE FALSE
    BY <1>3, <2>5 DEF Later
  <2>. QED
    BY <2>1, <2>2, <2>3, <2>4, <2>5, Kinds
<1>. QED
  BY <1>1, <1>2, <1>3

\* A later job is made, and the first one completed, when the cascade is complete.
LEMMA JobsStep ==
    ASSUME Shape, Present, Untouched, Asked, Staged, Next
    PROVE  \A o \in Op, s \in Stage :
              \/ job'[o][s].status = job[o][s].status
              \/ progress'[o].cascaded
              \/ s = "cascade" /\ job'[o][s].status # "completed"
<1> DEFINE Good == \A o \in Op, s \in Stage :
              \/ job'[o][s].status = job[o][s].status
              \/ progress'[o].cascaded
              \/ s = "cascade" /\ job'[o][s].status # "completed"
<1>0. \A o \in Op : progress[o].cascaded => progress'[o].cascaded
  BY CascadedStep
<1>1. CASE Write
  BY <1>1, WriteOnward
<1>2. ASSUME NEW o \in Op, NEW r \in Requests, PhaseA(o, r) PROVE Good
  <2>1. JobBecomes(o, "cascade", "pending")
    BY <1>2, ShapeGives, StatusSet DEF PhaseA, Stage, JobStatus
  <2>. QED
    BY <2>1 DEF JobBecomes
<1>3. ASSUME NEW o \in Op, Reconcile(o) PROVE Good
  <2>1. JobBecomes(o, FirstUndone(o), "pending")
    BY <1>3, ReconcileMoves
  <2>2. FirstUndone(o) = "cascade" \/ progress[o].cascaded
    BY FirstUndoneIs DEF Staged
  <2>. QED
    BY <1>0, <2>1, <2>2 DEF JobBecomes
<1>4. ASSUME NEW w \in Worker, NEW o \in Op, NEW s \in Stage, Claim(w, o, s) PROVE Good
  <2>1. JobBecomes(o, s, "running")
    BY <1>4, ClaimShape
  <2>2. s = "cascade" \/ progress[o].cascaded
    BY <1>4 DEF Claim, Staged
  <2>. QED
    BY <1>0, <2>1, <2>2 DEF JobBecomes
<1>5. ASSUME NEW w \in Worker, Handler(w) \/ Fault(w) PROVE Good
  <2> DEFINE o == worker[w].op
             s == worker[w].stage
  <2>1. worker[w] \in Running /\ worker[w] # IdleWorker /\ o \in Op /\ s \in Stage
    BY <1>5, AtRunning, FaultMoves, RunningIsBusy
  <2>2. s # "cascade" \/ worker[w].step = "completed" => progress'[o].cascaded
    BY <1>0, <2>1 DEF Staged
  <2>3. CASE Settle(w)
    BY <2>1, <2>2, <2>3, SettleMoves DEF JobBecomes
  <2>4. CASE Fault(w)
    BY <2>1, <2>2, <2>4, FaultMoves DEF JobBecomes
  <2>5. CASE Cascade(w)
    <3>1. job' = job \/ (Enqueue(o, "rebuild_dependencies") /\ progress'[o].cascaded)
      BY <2>5, DiscoverMoves, FinishCascadeMoves DEF Cascade, MaterializePage
    <3>. QED
      BY <2>1, <3>1, ShapeGives, EnqueueSets DEF Stage
  <2>6. CASE Rebuild(w) \/ Purge(w) \/ Verify(w)
    <3>1. s # "cascade" /\ (job' = job \/ Enqueue(o, "purge") \/ Enqueue(o, "verify"))
      BY <2>6, LaterShape DEF Later
    <3>. QED
      BY <2>1, <2>2, <3>1, ShapeGives, EnqueueSets DEF Stage
  <2>. QED
    BY <1>5, <2>3, <2>4, <2>5, <2>6 DEF Handler
<1>. QED
  BY <1>1, <1>2, <1>3, <1>4, <1>5 DEF Next

\* What a worker that is under way has to know of its cascade.
Knows(r) ==
    /\ r.stage # "cascade" \/ r.step = "completed" => progress[r.op].cascaded
    /\ r.step = "tombstones" => Named(r.op) \subseteq target[r.op]
    /\ r.step = "finish" => Reached(r.op)

\* It keeps what it knows, and knows what its next step needs.
LEMMA KnowsStep ==
    ASSUME Shape, Present, Untouched, Asked, Staged, Next
    PROVE  \A v \in Worker : worker'[v] # IdleWorker => Knows(worker[v])'
<1> DEFINE Good(v) == worker'[v] # IdleWorker => Knows(worker[v])'
           All == \A v \in Worker : Good(v)
<1> SUFFICES All
  OBVIOUS
<1>0. /\ \A o \in Op : progress[o].cascaded => progress'[o].cascaded
      /\ \A o \in Op : progress'[o].cascaded => Reached(o)'
      /\ \A o \in Started : Reached(o) => Reached(o)'
      /\ Onward
  BY CascadedStep, ReachedStep, OnwardStep
<1>1. ASSUME NEW v \in Worker, worker[v] # IdleWorker,
             worker'[v] # IdleWorker, worker'[v].op = worker[v].op,
             worker'[v].stage = worker[v].stage,
             \/ worker'[v].step = worker[v].step
             \/ worker'[v].step \notin {"completed", "tombstones", "finish"}
             \/ worker[v].stage # "cascade" /\ worker'[v].step # "tombstones"
      PROVE  Good(v)
  <2>1. PICK o \in Op : o = worker[v].op /\ o \in Started
    BY <1>1, RunningIsBusy, BusyIsStarted
  <2>2. Knows(worker[v])
    BY <1>1 DEF Staged, Knows
  <2>2a. worker'[v].op = o
    BY <1>1, <2>1
  <2>3. Named(o) \subseteq target[o] => Named(o)' \subseteq target'[o]
    BY <1>0, <2>1, AboutStays DEF Onward
  <2>4. \/ worker[v].stage # "cascade" /\ progress[o].cascaded /\ worker'[v].step # "tombstones"
        \/ worker'[v].step = worker[v].step
        \/ worker[v].stage = "cascade" /\ worker'[v].step \notin {"completed", "tombstones", "finish"}
    BY <1>1, <2>1, <2>2 DEF Knows
  <2>5. CASE worker[v].stage # "cascade" /\ progress[o].cascaded /\ worker'[v].step # "tombstones"
    BY <1>0, <1>1, <2>1, <2>2a, <2>5 DEF Knows
  <2>6. CASE worker'[v].step = worker[v].step
    BY <1>0, <1>1, <2>1, <2>2, <2>2a, <2>3, <2>6 DEF Knows
  <2>7. CASE worker[v].stage = "cascade"
                /\ worker'[v].step \notin {"completed", "tombstones", "finish"}
    BY <1>1, <2>7 DEF Knows
  <2>. QED
    BY <2>4, <2>5, <2>6, <2>7
<1>2. ASSUME NEW v \in Worker, worker'[v] = worker[v] PROVE Good(v)
  BY <1>1, <1>2
<1>3. CASE worker' = worker
  BY <1>2, <1>3
<1>4. ASSUME NEW w \in Worker, \A v \in Worker \ {w} : worker'[v] = worker[v], Good(w)
      PROVE  All
  BY <1>2, <1>4
<1> HIDE DEF Good
<1>5. CASE Write
  BY <1>3, <1>5, WriteOnward
<1>6. CASE \E o \in Op, r \in Requests : PhaseA(o, r)
  BY <1>3, <1>6, PhaseAOnward
<1>7. CASE \E o \in Op : Reconcile(o)
  BY <1>3, <1>7 DEF Reconcile
<1>8. ASSUME NEW w \in Worker, NEW o \in Op, NEW s \in Stage, Claim(w, o, s) PROVE All
  <2>1. /\ worker'[w].op = o /\ worker'[w].stage = s /\ worker'[w].step = "start"
        /\ \A v \in Worker \ {w} : worker'[v] = worker[v]
    BY <1>8, ClaimShape
  <2>2. s = "cascade" \/ progress'[o].cascaded
    BY <1>0, <1>8 DEF Claim, Staged
  <2>3. Good(w)
    BY <2>1, <2>2 DEF Good, Knows
  <2>. QED
    BY <1>4, <2>1, <2>3
<1>9. ASSUME NEW w \in Worker, Handler(w) \/ Fault(w) PROVE All
  <2>0. PICK o : o = worker[w].op
    OBVIOUS
  <2>1. worker[w] \in Running /\ worker[w] # IdleWorker /\ o \in Op /\ o \in Started
    BY <1>9, <2>0, AtRunning, FaultMoves, RunningIsBusy, BusyIsStarted
  <2>2. ASSUME Stops(w) PROVE All
    <3>1. Good(w)
      BY <2>2 DEF Stops, Good
    <3>. QED
      BY <1>4, <2>2, <3>1 DEF Stops
  <2>3. ASSUME NEW step, Moves(w, step),
               \/ step = worker[w].step
               \/ step \notin {"completed", "tombstones", "finish"}
               \/ worker[w].stage # "cascade" /\ step # "tombstones"
        PROVE  All
    <3>1. Good(w)
      BY <1>1, <2>1, <2>3 DEF Moves
    <3>. QED
      BY <1>4, <2>3, <3>1 DEF Moves
  <2>4. ASSUME NEW step, Moves(w, step), worker[w].stage = "cascade",
               step = "completed" => progress'[o].cascaded,
               step = "tombstones" => Named(o)' \subseteq target'[o],
               step = "finish" => Reached(o)'
        PROVE  All
    <3>1. Good(w)
      BY <2>0, <2>4 DEF Moves, Good, Knows
    <3>. QED
      BY <1>4, <2>4, <3>1 DEF Moves
  <2>5. CASE Settle(w)
    BY <2>2, <2>5, SettleMoves
  <2>6. CASE Fault(w)
    BY <2>2, <2>3, <2>6, FaultMoves
  <2>7. CASE MaterializePage(w)
    <3>1. worker[w].stage = "cascade"
      BY <2>7, PageMoves DEF At
    <3>2. PICK x \in Unpaged(o) :
             /\ target' = [target EXCEPT ![o] = @ \cup {x}]
             /\ \/ Unpaged(o) = {x} /\ Moves(w, "tombstones")
                \/ Moves(w, "continue")
      BY <2>0, <2>7, PageMoves
    <3>3. CASE Moves(w, "continue")
      BY <2>3, <3>3
    <3>4. CASE Unpaged(o) = {x} /\ Moves(w, "tombstones")
      <4>1. Named(o) \subseteq progress[o].paged \cup {x}
        BY <3>4 DEF Unpaged, Named
      <4>2. progress[o].paged \subseteq target[o] /\ target'[o] = target[o] \cup {x}
        BY <2>1, <3>2, ShapeGives DEF Asked
      <4>3. Named(o)' = Named(o)
        BY <1>0, <2>1, AboutStays
      <4>4. Named(o)' \subseteq target'[o]
        BY <4>1, <4>2, <4>3
      <4>. QED
        BY <2>4, <3>1, <3>4, <4>4
    <3>. QED
      BY <3>2, <3>3, <3>4
  <2>8. CASE Discover(w)
    <3>1. worker[w].stage = "cascade" /\ Reached(o)'
      BY <2>0, <2>8, DiscoverMoves, DiscoverReaches
    <3>2. \/ progress'[o].cascaded /\ Moves(w, "completed")
          \/ Moves(w, "finish") \/ Moves(w, "continue")
      BY <2>0, <2>8, DiscoverMoves
    <3>. QED
      BY <2>4, <3>1, <3>2
  <2>9. CASE FinishCascade(w)
    BY <2>0, <2>4, <2>9, FinishCascadeMoves
  <2>10. CASE Rebuild(w) \/ Purge(w) \/ Verify(w)
    <3>1. PICK step \in Busy \ {"tombstones"} : Moves(w, step)
      BY <2>10, LaterShape DEF Later
    <3>2. worker[w].stage # "cascade"
      BY <2>10, LaterShape DEF Later
    <3>. QED
      BY <2>3, <3>1, <3>2
  <2>. QED
    BY <1>9, <2>5, <2>6, <2>7, <2>8, <2>9, <2>10 DEF Handler, Cascade
<1>. QED
  BY <1>5, <1>6, <1>7, <1>8, <1>9 DEF Next

LEMMA StagedStep ==
    ASSUME Shape, Present, Untouched, Asked, Staged, Next
    PROVE  Staged'
<1>1. \A o \in Op : progress'[o].cascaded => Reached(o)'
  BY CascadedStep
<1>2. \A o \in Op : progress[o].cascaded => progress'[o].cascaded
  BY CascadedStep
<1>3. \A o \in Op : job'[o]["cascade"].status = "completed" => progress'[o].cascaded
  BY <1>2, JobsStep DEF Staged, Stage
<1>4. \A o \in Op, s \in Stage \ {"cascade"} :
         job'[o][s].status # "none" => progress'[o].cascaded
  BY <1>2, JobsStep DEF Staged
<1>5. \A v \in Worker : worker'[v] # IdleWorker => Knows(worker[v])'
  BY KnowsStep
<1>. QED
  BY <1>1, <1>3, <1>4, <1>5 DEF Staged, Knows
-------------------------------------------------------------------------------
(* What is gone, and what is hidden until then *)

LEMMA GoneStays ==
    ASSUME Shape, Present, Onward
    PROVE  \A o \in Started : Gone(o) => Gone(o)'
<1> SUFFICES ASSUME NEW o \in Started, Gone(o) PROVE Gone(o)'
  OBVIOUS
<1>1. o \in Op /\ request'[o] = request[o] /\ Forgotten(o)' = Forgotten(o)
  BY AboutStays DEF Started, Onward
<1>2. \A x \in Forgotten(o) : x \in text' => x \in text
  BY <1>1, ForgottenIsOld DEF Onward
<1>. QED
  BY <1>1, <1>2 DEF Gone

\* A good verdict over what the cascade has reached leaves nothing out.
LEMMA PassesIsGone ==
    ASSUME Shape, Present, NEW o \in Op, Reached(o), Passes(o)
    PROVE  Gone(o)
<1>1. /\ text \cap ScopeMemories(o) = {}
      /\ request[o].mode = "memory_only" \/ text \cap RawEvents(o) = {}
  BY DEF Passes, NothingIsLeft
<1>2. Forgotten(o) \subseteq Item
  BY ForgottenIsOld, ShapeGives
<1>3. /\ Forgotten(o) \cap Memory \subseteq ScopeMemories(o)
      /\ Forgotten(o) \cap Event \subseteq RawEvents(o)
      /\ request[o].mode = "memory_only" => Forgotten(o) \cap Event = {}
  <2>1. CASE request[o].kind = "memory_ids"
    BY <2>1, KindIs, ForgetAssumption
    DEF Accepted, Reached, Named, Forgotten, ScopeMemories, RawEvents
  <2>2. CASE request[o].kind = "event_ids"
    <3>1. request[o].ids \subseteq target[o]
      BY <2>2 DEF Reached, Named
    <3>2. \A m \in Memory \cap cutoff[o] : source[m] \cap request[o].ids # {} => m \in target[o]
      BY <3>1 DEF Reached
    <3>. QED
      BY <2>2, <3>1, <3>2, KindIs, ForgetAssumption
      DEF Accepted, Forgotten, ScopeMemories, RawEvents
  <2>3. CASE request[o].kind = "all_user_data"
    BY <2>3, KindIs DEF Accepted, Forgotten, ScopeMemories, RawEvents
  <2>. QED
    BY <2>1, <2>2, <2>3, KindIs DEF Kind
<1>. QED
  BY <1>1, <1>2, <1>3 DEF Gone, Item

\* A step of one worker that leads to a good verdict has read that all is gone.
LEMMA PassStep ==
    ASSUME Shape, Present, Untouched, Asked, Staged, Judged, Next
    PROVE  \A v \in Worker :
              worker'[v] # IdleWorker /\ worker'[v].step = "pass" => Gone(worker[v].op)'
<1> DEFINE Good(v) == worker'[v] # IdleWorker /\ worker'[v].step = "pass"
                        => Gone(worker[v].op)'
           All == \A v \in Worker : Good(v)
<1> SUFFICES All
  OBVIOUS
<1>0. \A o \in Started : Gone(o) => Gone(o)'
  BY OnwardStep, GoneStays
<1>1. ASSUME NEW v \in Worker, worker[v] # IdleWorker,
             worker'[v].op = worker[v].op, worker'[v].step \in {worker[v].step} \cup (Busy \ {"pass"})
      PROVE  Good(v)
  <2>1. PICK o : o = worker[v].op
    OBVIOUS
  <2>2. worker[v].step = "pass" => Gone(o) /\ o \in Started
    BY <1>1, <2>1, RunningIsBusy, BusyIsStarted DEF Judged
  <2>3. worker'[v].step = "pass" => Gone(o)'
    BY <1>0, <1>1, <2>2
  <2>. QED
    BY <1>1, <2>1, <2>3
<1>2. ASSUME NEW v \in Worker, worker'[v] = worker[v] PROVE Good(v)
  BY <1>1, <1>2
<1> HIDE DEF Good
<1>3. CASE worker' = worker
  BY <1>2, <1>3
<1>4. ASSUME NEW w \in Worker, \A v \in Worker \ {w} : worker'[v] = worker[v], Good(w)
      PROVE  All
  BY <1>2, <1>4
<1>5. CASE Write
  BY <1>3, <1>5, WriteOnward
<1>6. CASE \E o \in Op, r \in Requests : PhaseA(o, r)
  BY <1>3, <1>6, PhaseAOnward
<1>7. CASE \E o \in Op : Reconcile(o)
  BY <1>3, <1>7 DEF Reconcile
<1>8. ASSUME NEW w \in Worker, NEW o \in Op, NEW s \in Stage, Claim(w, o, s) PROVE All
  <2>1. worker'[w].step = "start" /\ \A v \in Worker \ {w} : worker'[v] = worker[v]
    BY <1>8, ClaimShape
  <2>. QED
    BY <1>4, <2>1 DEF Good
<1>9. ASSUME NEW w \in Worker, Handler(w) \/ Fault(w) PROVE All
  <2>0. PICK o : o = worker[w].op
    OBVIOUS
  <2>1. worker[w] \in Running /\ worker[w] # IdleWorker /\ o \in Op /\ o \in Started
    BY <1>9, <2>0, AtRunning, FaultMoves, RunningIsBusy, BusyIsStarted
  <2>2. ASSUME Stops(w) PROVE All
    <3>1. Good(w)
      BY <2>2 DEF Stops, Good
    <3>. QED
      BY <1>4, <2>2, <3>1 DEF Stops
  <2>3. ASSUME NEW step \in {worker[w].step} \cup (Busy \ {"pass"}), Moves(w, step) PROVE All
    <3>1. Good(w)
      BY <1>1, <2>1, <2>3 DEF Moves
    <3>. QED
      BY <1>4, <2>3, <3>1 DEF Moves
  <2>4. CASE Settle(w)
    BY <2>2, <2>4, SettleMoves
  <2>5. CASE Fault(w)
    BY <2>2, <2>3, <2>5, FaultMoves DEF Busy, Outcomes
  <2>6. CASE Cascade(w)
    <3>1. \/ Moves(w, "tombstones") \/ Moves(w, "continue")
          \/ Moves(w, "finish") \/ Moves(w, "completed")
      BY <2>6, PageMoves, DiscoverMoves, FinishCascadeMoves DEF Cascade
    <3>. QED
      BY <2>3, <3>1 DEF Busy, Outcomes
  <2>7. CASE Rebuild(w) \/ Purge(w) \/ Verify(w)
    <3>1. Later(w)
      BY <2>7, LaterShape
    <3>2. PICK step \in Busy : Moves(w, step) /\ (step = "pass" => Passes(o))
      BY <2>0, <3>1 DEF Later
    <3>3. CASE step # "pass"
      BY <2>3, <3>2, <3>3
    <3>4. CASE step = "pass"
      <4>1. Reached(o)
        BY <2>0, <2>1, <3>1 DEF Later, Staged
      <4>2. Gone(o)'
        BY <1>0, <2>1, <3>2, <3>4, <4>1, PassesIsGone
      <4>3. Good(w)
        BY <2>0, <3>2, <4>2 DEF Good, Moves
      <4>. QED
        BY <1>4, <3>2, <4>3 DEF Moves
    <3>. QED
      BY <3>3, <3>4
  <2>. QED
    BY <1>9, <2>4, <2>5, <2>6, <2>7 DEF Handler
<1>. QED
  BY <1>5, <1>6, <1>7, <1>8, <1>9 DEF Next

\* Shields retire, and an operation is verified, where all is gone.
LEMMA RetireStep ==
    ASSUME Shape, Present, Untouched, Asked, Staged, Judged, Next
    PROVE  \A o \in Op :
              \/ /\ shield'[o] = shield[o] \/ o \notin Started
                 /\ op'[o] = op[o] \/ op'[o] # "verified"
              \/ progress[o].cascaded /\ Gone(o) /\ o \in Started
<1> DEFINE Good == \A o \in Op :
              \/ /\ shield'[o] = shield[o] \/ o \notin Started
                 /\ op'[o] = op[o] \/ op'[o] # "verified"
              \/ progress[o].cascaded /\ Gone(o) /\ o \in Started
<1>1. CASE Write
  BY <1>1, WriteOnward
<1>2. ASSUME NEW p \in Op, NEW r \in Requests, PhaseA(p, r) PROVE Good
  BY <1>2, PhaseAOnward
<1>3. CASE Scheduling
  BY <1>3 DEF Scheduling, cover
<1>4. CASE \E w \in Worker : Cascade(w)
  BY <1>4, CascadeFurther DEF Further
<1>5. ASSUME NEW w \in Worker, Later(w) PROVE Good
  <2> DEFINE o == worker[w].op
  <2>1. worker[w] \in Running /\ worker[w] # IdleWorker /\ o \in Op /\ o \in Started
    BY <1>5, RunningIsBusy, BusyIsStarted DEF Later
  <2>2. CASE UNCHANGED <<op, shield>>
    BY <2>2
  <2>3. CASE worker[w].step = "pass" /\ shield' = [shield EXCEPT ![o] = {}]
               /\ op' = [op EXCEPT ![o] = "verified"]
    <3>1. progress[o].cascaded /\ Gone(o)
      BY <1>5, <2>1, <2>3 DEF Later, Staged, Judged
    <3>2. \A p \in Op \ {o} : shield'[p] = shield[p] /\ op'[p] = op[p]
      BY <2>3 DEF Shape, TypeOK
    <3>. QED
      BY <2>1, <3>1, <3>2
  <2>4. CASE shield' = shield /\ op' = [op EXCEPT ![o] = "failed_retryable"]
    BY <2>1, <2>4 DEF Shape, TypeOK
  <2>. QED
    BY <1>5, <2>2, <2>3, <2>4 DEF Later
<1>. QED
  BY <1>1, <1>2, <1>3, <1>4, <1>5, Kinds

LEMMA JudgedStep ==
    ASSUME Shape, Present, Untouched, Asked, Staged, Judged, Next
    PROVE  Judged'
<1>1. \A o \in Started : Gone(o) => Gone(o)'
  BY OnwardStep, GoneStays
<1>2. ASSUME NEW o \in Op, op'[o] = "verified" PROVE Gone(o)'
  <2>1. op[o] = "verified" \/ (Gone(o) /\ o \in Started)
    BY <1>2, RetireStep
  <2>2. Gone(o) /\ o \in Started
    BY <2>1 DEF Judged, Started
  <2>. QED
    BY <1>1, <2>2
<1>. QED
  BY <1>2, PassStep DEF Judged

LEMMA CoveredStep ==
    ASSUME Shape, Present, Untouched, Asked, Staged, Judged, Covered, Next
    PROVE  Covered'
<1> SUFFICES ASSUME NEW o \in Op, op'[o] # "none" PROVE Shielded(o)'
  BY DEF Covered, Started
<1>1. CASE o \in Started
  <2>1. request'[o] = request[o] /\ cutoff'[o] = cutoff[o]
          /\ (progress[o].cascaded => progress'[o].cascaded) /\ (Gone(o) => Gone(o)')
    BY <1>1, OnwardStep, GoneStays DEF Onward
  <2>2. shield'[o] = shield[o] \/ (progress[o].cascaded /\ Gone(o))
    BY <1>1, RetireStep
  <2>3. Shielded(o)
    BY <1>1 DEF Covered
  <2>. QED
    BY <2>1, <2>2, <2>3 DEF Shielded
<1>2. CASE o \notin Started
  <2>1. ASSUME NEW p \in Op, NEW r \in Requests, PhaseA(p, r) PROVE Shielded(o)'
    <3>1. p = o
      BY <1>2, <2>1, PhaseAOnward DEF Started
    <3>. QED
      BY <2>1, <3>1, PhaseAOnward DEF Shielded
  <2>2. CASE Write
    BY <1>2, <2>2, WriteOnward DEF Started
  <2>3. CASE Scheduling
    BY <1>2, <2>3 DEF Scheduling, Started
  <2>4. CASE \E w \in Worker : Cascade(w)
    BY <1>2, <2>4, CascadeFurther DEF Further, Started
  <2>5. ASSUME NEW w \in Worker, Later(w) PROVE FALSE
    <3>1. worker[w].op \in Started
      BY <2>5, BusyIsStarted DEF Later
    <3>. QED
      BY <1>2, <2>5, <3>1 DEF Later, Started, Shape, TypeOK
  <2>. QED
    BY <2>1, <2>2, <2>3, <2>4, <2>5, Kinds
<1>. QED
  BY <1>1, <1>2

\* The writer reads nothing that an operation forgets everywhere.
LEMMA ReadsNothing ==
    ASSUME Shape, Present, Covered, NEW E \in SUBSET Event, BeginWrite(E),
           NEW o \in Started, request[o].kind = "all_user_data"
    PROVE  E \cap cutoff[o] = {}
<1>1. o \in Op /\ E \subseteq text /\ \A e \in E : ~HiddenEvent(e)
  BY DEF BeginWrite, Started
<1>2. CASE cutoff[o] \subseteq shield[o]
  BY <1>1, <1>2 DEF HiddenEvent, Direct
<1>3. CASE Gone(o)
  BY <1>1, <1>3 DEF Gone, Forgotten
<1>. QED
  BY <1>2, <1>3 DEF Covered, Shielded

LEMMA UnreadStep ==
    ASSUME Shape, Present, Untouched, Asked, Covered, Unread, Next
    PROVE  Unread'
<1>0. \A o \in Started : request'[o] = request[o] /\ cutoff'[o] = cutoff[o]
  BY OnwardStep DEF Onward
<1>1. ASSUME Started' \subseteq Started, source' = source, writer' \in {writer, IdleWriter}
      PROVE  Unread'
  BY <1>0, <1>1 DEF Unread, IdleWriter
<1>2. ASSUME NEW E \in SUBSET Event, BeginWrite(E) PROVE Unread'
  <2>1. Started' = Started /\ source' = source /\ writer'.events = E
    BY <1>2 DEF BeginWrite, saga, content, Started
  <2>. QED
    BY <1>0, <1>2, <2>1, ReadsNothing DEF Unread
<1>3. ASSUME NEW m \in Memory, WriteMemory(m) PROVE Unread'
  <2>1. Started' = Started /\ writer' = IdleWriter
    BY <1>3 DEF WriteMemory, saga, Started
  <2>2. CASE UNCHANGED content
    BY <1>1, <2>1, <2>2 DEF content
  <2>3. CASE ~(UNCHANGED content)
    <3>1. source' = [source EXCEPT ![m] = writer.events] /\ writer.step = "model"
      BY <1>3, <2>3 DEF WriteMemory
    <3>2. source'[m] = writer.events /\ \A n \in Memory \ {m} : source'[n] = source[n]
      BY <3>1 DEF Shape, TypeOK
    <3>. QED
      BY <1>0, <2>1, <3>1, <3>2 DEF Unread, IdleWriter
  <2>. QED
    BY <2>2, <2>3
<1>4. CASE DropWrite
  BY <1>1, <1>4 DEF DropWrite, content, saga, Started
<1>5. ASSUME NEW p \in Op, NEW r \in Requests, PhaseA(p, r) PROVE Unread'
  <2>1. /\ writer' = writer /\ writer.step = "idle" /\ source' = source /\ cutoff'[p] = Exists
        /\ \A q \in Op \ {p} : op'[q] = op[q]
    BY <1>5, PhaseAOnward
  <2>2. \A m \in Memory : source[m] # {} => m \in Exists
    BY DEF Present, Exists
  <2>3. Started' \subseteq Started \cup {p}
    BY <2>1 DEF Started
  <2>. QED
    BY <1>0, <2>1, <2>2, <2>3 DEF Unread
<1>6. CASE Scheduling
  BY <1>1, <1>6 DEF Scheduling, Started, content
<1>7. CASE \E w \in Worker : Cascade(w)
  BY <1>1, <1>7, CascadeFurther DEF Further, Started
<1>8. ASSUME NEW w \in Worker, Later(w) PROVE Unread'
  <2>1. Started' \subseteq Started
    BY <1>8, BusyIsStarted DEF Later, Started, Shape, TypeOK
  <2>. QED
    BY <1>1, <1>8, <2>1 DEF Later
<1>. QED
  BY <1>2, <1>3, <1>4, <1>5, <1>6, <1>7, <1>8, Kinds DEF Write

\* What must not be learned again is hidden from Phase A on, by the shield
\* until the cascade has made its tombstones.
LEMMA UnlearnableIsHidden ==
    ASSUME Shape, Present, Asked, Staged, Covered, NEW o \in Started, NEW e \in Unlearnable(o)
    PROVE  HiddenEvent(e)
<1>0. o \in Op /\ request[o].ids \subseteq tomb[o]
  BY DEF Started, Asked
<1>1. CASE request[o].kind # "all_user_data"
  <2>1. CASE e \in request[o].ids
    BY <1>0, <2>1 DEF HiddenEvent, Direct
  <2>2. CASE e \in SourcesOf(request[o].ids \cap Memory)
    BY <1>0, <2>2 DEF HiddenEvent, Direct, SourcesOf
  <2>. QED
    BY <1>1, <2>1, <2>2 DEF Unlearnable
<1>2. CASE request[o].kind = "all_user_data"
  <2>1. PICK m \in cutoff[o] \cap Memory : e \in source[m]
    BY <1>2 DEF Unlearnable, SourcesOf
  <2>2. cutoff[o] \subseteq shield[o] \/ progress[o].cascaded
    BY <1>2 DEF Covered, Shielded
  <2>3. CASE cutoff[o] \subseteq shield[o]
    BY <1>0, <2>1, <2>3 DEF HiddenEvent, Direct
  <2>4. CASE progress[o].cascaded
    <3>1. cutoff[o] \cap Memory \subseteq tomb[o]
      BY <1>0, <1>2, <2>4 DEF Staged, Reached, Named
    <3>. QED
      BY <1>0, <2>1, <3>1 DEF HiddenEvent, Direct
  <2>. QED
    BY <2>2, <2>3, <2>4
<1>. QED
  BY <1>1, <1>2

LEMMA NotRelearnedStep ==
    ASSUME Shape, Present, Untouched, Asked, Staged, Covered, NotRelearned, Next
    PROVE  NotRelearned'
<1>0. \A o \in Started : Unlearnable(o)' = Unlearnable(o)
  BY OnwardStep, AboutStays
<1>1. \A m \in Memory : written[m] \subseteq Started
  BY DEF Present
<1>2. CASE UNCHANGED <<source, written>>
  BY <1>0, <1>1, <1>2 DEF NotRelearned
<1>3. ASSUME NEW m \in Memory, WriteMemory(m), ~(UNCHANGED content) PROVE NotRelearned'
  <2>1. /\ \A e \in writer.events : ~HiddenEvent(e)
        /\ source' = [source EXCEPT ![m] = writer.events]
        /\ written' = [written EXCEPT ![m] = Started]
    BY <1>3 DEF WriteMemory
  <2>2. /\ source'[m] = writer.events /\ written'[m] = Started
        /\ \A n \in Memory \ {m} : source'[n] = source[n] /\ written'[n] = written[n]
    BY <2>1 DEF Shape, TypeOK
  <2>3. \A o \in Started : writer.events \cap Unlearnable(o) = {}
    BY <2>1, UnlearnableIsHidden
  <2>. QED
    BY <1>0, <1>1, <2>2, <2>3 DEF NotRelearned
<1>4. CASE Write
  BY <1>2, <1>3, <1>4 DEF Write, BeginWrite, DropWrite, WriteMemory, content
<1>5. CASE \E o \in Op, r \in Requests : PhaseA(o, r)
  BY <1>2, <1>5, PhaseAOnward
<1>6. CASE Scheduling
  BY <1>2, <1>6 DEF Scheduling, content
<1>7. CASE \E w \in Worker : Cascade(w)
  BY <1>2, <1>7, CascadeFurther DEF Further
<1>8. CASE \E w \in Worker : Later(w)
  BY <1>2, <1>8 DEF Later
<1>. QED
  BY <1>4, <1>5, <1>6, <1>7, <1>8, Kinds
-------------------------------------------------------------------------------
(* What has lost its text is buried *)

\* The scope of an operation that has cascaded holds what tombstones hide.
LEMMA ScopeIsBuried ==
    ASSUME Shape, Present, Asked, Unread, NEW o \in Started, Reached(o),
           NEW m \in Memory, m \in ScrubbedItems(o)
    PROVE  Buried(m)
<1>0. o \in Op /\ Accepted(request[o]) /\ request[o].kind \in Kind
  BY KindIs DEF Started
<1>1. ScopeMemories(o) \subseteq target[o] /\ target[o] \subseteq tomb[o]
  BY DEF ScopeMemories, Reached, Named
<1>2. CASE m \in ScopeMemories(o)
  BY <1>1, <1>2 DEF Buried
<1>3. CASE request[o].kind # "memory_ids" /\ source[m] \cap ScopeEvents(o) # {}
  <2>1. request[o].mode # "memory_only"
    BY <1>0, <1>3 DEF Accepted
  <2>2. SourcesOf(ScopeMemories(o)) \subseteq tomb[o]
    <3>1. SourcesOf(ScopeMemories(o)) \subseteq SourcesOf(target[o] \cap Memory)
      BY <1>1 DEF SourcesOf, ScopeMemories
    <3>. QED
      BY <3>1 DEF Reached
  <2>3. CASE source[m] \cap tomb[o] # {}
    BY <2>1, <2>3 DEF Buried
  <2>4. CASE source[m] \cap RawEvents(o) # {} /\ request[o].kind = "all_user_data"
    <3>1. m \in cutoff[o]
      BY <2>4 DEF RawEvents, Unread
    <3>. QED
      BY <1>1, <2>4, <3>1 DEF Buried, Reached, Named
  <2>5. CASE source[m] \cap RawEvents(o) # {} /\ request[o].kind = "event_ids"
    <3>1. RawEvents(o) \subseteq tomb[o]
      BY <1>1, <2>5 DEF RawEvents, Reached, Named
    <3>. QED
      BY <2>1, <2>5, <3>1 DEF Buried
  <2>. QED
    BY <1>0, <1>3, <2>2, <2>3, <2>4, <2>5 DEF ScopeEvents, Kind
<1>4. m \notin RawEvents(o) \cup (tomb[o] \cap Event)
  BY ForgetAssumption DEF RawEvents
<1>. QED
  BY <1>2, <1>3, <1>4 DEF ScrubbedItems

LEMMA ShellsStep ==
    ASSUME Shape, Present, Untouched, Asked, Staged, Unread, Shells, Next
    PROVE  Shells'
<1>0. Onward
  BY OnwardStep
<1>1. \A m \in Memory : memory[m] # "none" /\ Buried(m) => Buried(m)'
  BY <1>0 DEF Onward, Buried, Started
<1>2. ASSUME \A m \in Memory : memory'[m] # "none" => memory[m] # "none",
             \A m \in Memory : memory[m] # "none" /\ m \in text /\ m \notin text' => Buried(m)
      PROVE  Shells'
  BY <1>1, <1>2 DEF Shells
<1>3. ASSUME NEW m \in Memory, WriteMemory(m), ~(UNCHANGED content) PROVE Shells'
  <2>1. text' = text \cup {m} /\ memory' = [memory EXCEPT ![m] = "active"]
    BY <1>3 DEF WriteMemory
  <2>2. \A n \in Memory \ {m} : memory'[n] = memory[n]
    BY <2>1 DEF Shape, TypeOK
  <2>. QED
    BY <1>1, <2>1, <2>2 DEF Shells
<1>4. CASE Write
  <2>1. CASE UNCHANGED content
    BY <1>2, <2>1 DEF content
  <2>. QED
    BY <1>3, <1>4, <2>1 DEF Write, BeginWrite, DropWrite
<1>5. ASSUME NEW p \in Op, NEW r \in Requests, PhaseA(p, r) PROVE Shells'
  <2>1. /\ memory' = [m \in Memory |-> IF m \in r.ids THEN "forgotten" ELSE memory[m]]
        /\ r.ids \subseteq Exists /\ text' = text
    BY <1>5 DEF PhaseA
  <2>2. \A m \in Memory : m \in r.ids => memory[m] # "none"
    BY <2>1, ForgottenIsOld, <1>5
  <2>. QED
    BY <1>2, <2>1, <2>2
<1>6. CASE Scheduling
  BY <1>2, <1>6 DEF Scheduling, content
<1>7. CASE \E w \in Worker : Cascade(w)
  BY <1>2, <1>7, CascadeFurther DEF Further
<1>8. ASSUME NEW w \in Worker, Rebuild(w) \/ Purge(w) \/ Verify(w), Later(w) PROVE Shells'
  <2> DEFINE o == worker[w].op
  <2>1. worker[w] \in Running /\ worker[w] # IdleWorker /\ o \in Op /\ o \in Started
    BY <1>8, RunningIsBusy, BusyIsStarted DEF Later
  <2>2. Reached(o)
    BY <1>8, <2>1 DEF Later, Staged
  <2>3. \A m \in Memory : memory'[m] # "none" => memory[m] # "none"
    BY <1>8 DEF Later
  <2>4. ASSUME NEW m \in Memory, m \in text, m \notin text' PROVE Buried(m)
    <3>1. CASE ScrubPage(w)
      <4>1. m \in target[o]
        BY <2>4, <3>1 DEF ScrubPage
      <4>. QED
        BY <2>1, <2>2, <4>1 DEF Buried, Reached
    <3>2. CASE ScrubScope(w)
      <4>1. m \in ScrubbedItems(o)
        BY <2>4, <3>2 DEF ScrubScope
      <4>. QED
        BY <2>1, <2>2, <4>1, ScopeIsBuried
    <3>3. CASE text' = text
      BY <2>4, <3>3
    <3>. QED
      BY <1>8, <3>1, <3>2, <3>3
      DEF Rebuild, RecomputeEvidence, ReadRemaining, WriteSummary, FinishRebuild,
          Purge, FinishPurge, Verify, ReadAgain, Judge, content
  <2>. QED
    BY <1>2, <2>3, <2>4
<1>. QED
  BY <1>4, <1>5, <1>6, <1>7, <1>8, Kinds
-------------------------------------------------------------------------------
(* The invariant *)

LEMMA InitInv == ASSUME Init PROVE Inv
<1> USE ForgetAssumption
<1>1. source \in [Memory -> SUBSET Event]
  BY DEF Init
<1>2. /\ \A m \in Memory : memory[m] = (IF source[m] = {} THEN "none" ELSE "active")
      /\ memory \in [Memory -> {"none", "active", "forgotten"}]
      /\ text \subseteq Item
      /\ written = [m \in Memory |-> {}] /\ writer = IdleWriter
  BY <1>1 DEF Init, Item
<1>3. /\ op = [o \in Op |-> "none"] /\ request = [o \in Op |-> NoRequest]
      /\ cutoff = [o \in Op |-> {}] /\ shield = [o \in Op |-> {}] /\ tomb = [o \in Op |-> {}]
      /\ target = [o \in Op |-> {}] /\ progress = [o \in Op |-> Fresh]
      /\ job = [o \in Op |-> [s \in Stage |-> Nothing]]
      /\ worker = [w \in Worker |-> IdleWorker] /\ faults = 0
  BY DEF Init
<1>4. versions \in Seq([cites : SUBSET Event, text : BOOLEAN])
  BY DEF Init
<1>5. Fresh \in Progress /\ Nothing \in Row
  BY DEF Fresh, Progress, Nothing, Row, JobStatus
<1>6. Started = {}
  BY <1>3 DEF Started
<1>7. Shape
  <2>1. job \in Jobs
    BY <1>3, <1>5 DEF Jobs
  <2>2. /\ op \in [Op -> OpStatus] /\ request \in [Op -> Requests \cup {NoRequest}]
        /\ \A f \in {cutoff, shield, tomb, target} : f \in [Op -> SUBSET Item]
        /\ progress \in [Op -> Progress] /\ faults \in 0..MaxFaults
    BY <1>3, <1>5 DEF OpStatus
  <2>3. /\ writer \in [step : {"idle", "model"}, events : SUBSET Event]
        /\ written \in [Memory -> SUBSET Op]
        /\ worker \in [Worker -> {IdleWorker} \cup Running]
    BY <1>2, <1>3 DEF IdleWriter
  <2>. QED
    BY <1>1, <1>2, <1>4, <2>1, <2>2, <2>3 DEF Shape, TypeOK, Jobs, Row, JobStatus
<1>8. Present
  BY <1>2, <1>3 DEF Present, NoRequest
<1>9. Untouched
  BY <1>3 DEF Untouched, Nothing
<1>10. Asked /\ Covered /\ Unread
  BY <1>6 DEF Asked, Covered, Unread
<1>11. Staged
  BY <1>3 DEF Staged, Fresh, Nothing, Stage
<1>12. Judged /\ NotRelearned
  BY <1>2, <1>3 DEF Judged, NotRelearned
<1>13. Shells
  BY <1>2 DEF Init, Shells
<1>. QED
  BY <1>7, <1>8, <1>9, <1>10, <1>11, <1>12, <1>13 DEF Inv

LEMMA StepInv == ASSUME Inv, [Next]_fVars PROVE Inv'
<1>1. CASE Next
  BY <1>1, ShapeStep, PresentStep, UntouchedStep, AskedStep, StagedStep, JudgedStep,
     CoveredStep, UnreadStep, NotRelearnedStep, ShellsStep DEF Inv
<1>2. CASE UNCHANGED fVars
  <2>1. UNCHANGED <<text, memory, source, versions, written, writer, op, request, cutoff,
                    shield, tomb, target, progress, job, worker, faults>>
    BY <1>2 DEF fVars, content, saga, cover
  <2>2. Shape' /\ Present' /\ Untouched' /\ Asked'
    BY <2>1 DEF Inv, Shape, TypeOK, Present, Exists, Untouched, Asked, Started
  <2>3. Staged'
    <3>1. \A o \in Op : (Reached(o)' <=> Reached(o)) /\ Named(o)' = Named(o)
      BY <2>1 DEF Reached, Named, SourcesOf
    <3>2. Staged
      BY DEF Inv
    <3>3. \A w \in Worker : worker[w] # IdleWorker => worker[w].op \in Op
      BY RunningIsBusy DEF Inv
    <3>. QED
      BY <2>1, <3>1, <3>2, <3>3 DEF Staged
  <2>4. Judged' /\ Covered'
    BY <2>1 DEF Inv, Judged, Covered, Started, Shielded, Gone, Forgotten
  <2>5. Unread' /\ NotRelearned'
    BY <2>1 DEF Inv, Unread, Started, NotRelearned, Unlearnable, SourcesOf
  <2>6. Shells'
    BY <2>1 DEF Inv, Shells, Buried, Started
  <2>. QED
    BY <2>2, <2>3, <2>4, <2>5, <2>6 DEF Inv
<1>. QED
  BY <1>1, <1>2

LEMMA SpecInv == Spec => []Inv
BY InitInv, StepInv, PTL DEF Spec
\* Once an operation is verified, nothing in its scope has a text, ever again,
\* for every number of operations, workers and faults.
THEOREM VerifiedIsGoneCorrect == Spec => []VerifiedIsGone
<1>1. Inv => VerifiedIsGone
  BY DEF Inv, Shape, Judged, Gone, VerifiedIsGone
<1>. QED
  BY <1>1, SpecInv, PTL

\* No memory is written from what an operation forgets once its Phase A is
\* through, whenever the model was asked.
THEOREM NotRelearnedCorrect == Spec => []NotRelearned
<1>1. Inv => NotRelearned
  BY DEF Inv
<1>. QED
  BY <1>1, SpecInv, PTL

\* What is forgotten is hidden from Phase A on, by shields, by tombstones or
\* because its text is gone, also between the stages.
THEOREM StaysHiddenCorrect == Spec => []StaysHidden
<1>1. ASSUME Inv, NEW o \in Started, NEW x \in Forgotten(o)
      PROVE  \/ x \in Memory /\ ~Recalled(x)
             \/ x \in Event /\ (HiddenEvent(x) \/ x \notin text)
  <2>1. o \in Op /\ Accepted(request[o]) /\ request[o].kind \in Kind
          /\ request[o].ids \subseteq tomb[o]
    BY <1>1, KindIs DEF Inv, Started, Asked
  <2>2. x \in Item
    BY <1>1, <2>1, ForgottenIsOld, ShapeGives DEF Inv
  <2>3. CASE Direct(x)
    BY <2>2, <2>3 DEF Item, HiddenEvent, HiddenMemory, Recalled
  <2>4. CASE x \in request[o].ids
    BY <2>1, <2>3, <2>4 DEF Direct
  <2>5. CASE request[o].kind = "event_ids" /\ x \in Memory /\ source[x] \cap request[o].ids # {}
    <3>1. request[o].mode # "memory_only"
      BY <2>1, <2>5 DEF Accepted
    <3>. QED
      BY <2>1, <2>5, <3>1 DEF HiddenMemory, Recalled
  <2>6. CASE request[o].kind = "all_user_data"
    <3>1. x \in cutoff[o]
      BY <2>6 DEF Forgotten
    <3>2. cutoff[o] \subseteq shield[o] \/ (progress[o].cascaded /\ Gone(o))
      BY <1>1, <2>6 DEF Inv, Covered, Shielded
    <3>3. CASE cutoff[o] \subseteq shield[o]
      BY <2>1, <2>3, <3>1, <3>3 DEF Direct
    <3>4. CASE progress[o].cascaded /\ Gone(o)
      <4>1. x \notin text
        BY <3>4 DEF Gone
      <4>2. x \in Memory => x \in tomb[o]
        BY <1>1, <2>1, <2>6, <3>1, <3>4 DEF Inv, Staged, Reached, Named
      <4>. QED
        BY <2>1, <2>2, <2>3, <4>1, <4>2 DEF Direct, Item
    <3>. QED
      BY <3>2, <3>3, <3>4
  <2>. QED
    BY <2>1, <2>4, <2>5, <2>6 DEF Forgotten, Kind
<1>2. Inv => StaysHidden
  BY <1>1 DEF StaysHidden
<1>. QED
  BY <1>2, SpecInv, PTL

\* No memory that an operation found is recalled without its text.
THEOREM NoEmptyShellCorrect == Spec => []NoEmptyShell
<1>1. ASSUME Inv, NEW o \in Op, NEW m \in cutoff[o] \cap Memory, m \notin text
      PROVE  ~Recalled(m)
  <2>1. memory[m] # "none"
    BY <1>1, ForgottenIsOld DEF Inv
  <2>2. Buried(m)
    BY <1>1, <2>1 DEF Inv, Shells
  <2>. QED
    BY <2>2 DEF Buried, Started, Recalled, HiddenMemory, Direct
<1>2. Inv => NoEmptyShell
  BY <1>1 DEF NoEmptyShell
<1>. QED
  BY <1>2, SpecInv, PTL
===============================================================================
