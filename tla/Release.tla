-------------------------------- MODULE Release --------------------------------
(***************************************************************************)
(* The A/B releases (supervisor/daemon.py, process_control.py, control.py, *)
(* release_manager.py): a daemon owns the application process and carries  *)
(* out promotions, rollbacks and restarts that the application asks for    *)
(* through files; it watches the process and goes back by itself.          *)
(*                                                                         *)
(* Every step of the daemon that leaves something durable (a file, a       *)
(* process started or stopped) is an action, so the daemon may be killed   *)
(* between any two; the processes it started live on.  A health probe asks *)
(* a port, not a process.                                                  *)
(***************************************************************************)
EXTENDS Naturals, FiniteSets, Sequences

CONSTANTS Pid,
          Null,
          RequestId,    \* ids of the requests the application may submit
          MaxRestarts,  \* supervisor_max_restarts
          MaxBreaks,    \* bound: how often the daemon is killed or terminated
          MaxFaults     \* bound: processes that die or fall ill, failed starts

ASSUME ReleaseAssumption ==
    /\ IsFiniteSet(Pid) /\ Null \notin Pid
    /\ Null \notin RequestId /\ Null \notin {"A", "B"}
    /\ Null \notin [pid : Pid, slot : {"A", "B"}]
    /\ MaxRestarts \in Nat \ {0} /\ MaxBreaks \in Nat /\ MaxFaults \in Nat

VARIABLES proc,      \* the application processes
          pointer,   \* active_slot
          st,        \* state.json
          release,   \* release_state.json; of its status only "monitoring" is read
          queue,     \* requests/
          result,    \* results/
          daemon,    \* what the daemon does
          restarts,  \* entries of _restart_history
          gaps,      \* history: "orphan" once the daemon was stopped with a process
                     \* it had not recorded, "stale" once a failed start left the
                     \* record of a process of the other slot
          breaks, faults

files == <<pointer, st, release>>
asked == <<queue, result>>
bounds == <<gaps, breaks, faults>>
releaseVars == <<proc, files, asked, daemon, restarts, bounds>>

Slot == {"A", "B"}
Other(s) == IF s = "A" THEN "B" ELSE "A"
Port == {"primary", "staging"}
Down == [pc |-> "down", req |-> Null, slot |-> "A", back |-> "A",
         proc |-> Null, then |-> "ensure", ok |-> FALSE]

Alive(p) == p # Null /\ proc[p].life # "dead"
Binds(p, port) == proc[p].port = port /\ proc[p].life \in {"serving", "sick"}
Answers(port) == \E p \in Pid : proc[p].port = port /\ proc[p].life = "serving"
Dead == [slot |-> "A", port |-> "primary", life |-> "dead"]
Killed(P) == [p \in Pid |-> IF p \in P THEN Dead ELSE proc[p]]

\* The process state.json names; a number is not used again while it is named.
Managed == IF st.process = Null THEN Null ELSE st.process.pid
Free == {p \in Pid : ~Alive(p) /\ p \notin {Managed, st.candidate, daemon.proc}}

ReleaseInit ==
    /\ proc = [p \in Pid |-> Dead]
    /\ pointer = "A"
    /\ st = [phase |-> "new", active |-> Null, previous |-> Null, process |-> Null,
             candidate |-> Null, window |-> "none"]
    /\ release = [monitoring |-> FALSE, previous |-> Null, active |-> "A"]
    /\ queue = <<>>
    /\ result = [r \in RequestId |-> "none"]
    /\ daemon = Down
    /\ restarts = 0
    /\ gaps = {} /\ breaks = 0 /\ faults = 0

At(pc) == daemon.pc = pc
Fault == faults < MaxFaults /\ faults' = faults + 1
Goto(pc) == daemon' = [daemon EXCEPT !.pc = pc]

\* The handler returns: to the request it serves, or to the loop.
Done(d, ok) == [Down EXCEPT !.pc = IF d.req = Null THEN "idle" ELSE "answer",
                            !.req = d.req, !.ok = ok /\ d.req # Null]

\* Stop what runs, start the slot on the primary port, wait until it is healthy.
Launch(d, slot, then) ==
    [d EXCEPT !.pc = "stop", !.slot = slot, !.then = then, !.proc = Null]

Spawned(slot, port) ==
    LET p == CHOOSE q \in Free : TRUE
    IN  /\ Free # {}
        /\ proc' = [proc EXCEPT ![p] = [slot |-> slot, port |-> port, life |-> "starting"]]
        /\ daemon' = [daemon EXCEPT !.pc = IF port = "primary" THEN "wait" ELSE "staged",
                                    !.proc = p]

-----------------------------------------------------------------------------
\* The processes.

Becomes(p, life) == proc' = [proc EXCEPT ![p].life = life]

\* A server that finds its port taken exits.
Boot(p) ==
    /\ proc[p].life = "starting"
    /\ IF \E q \in Pid : Binds(q, proc[p].port)
       THEN proc' = Killed({p}) /\ UNCHANGED faults
       ELSE \/ Becomes(p, "serving") /\ UNCHANGED faults
            \/ Fault /\ (Becomes(p, "sick") \/ proc' = Killed({p}))
    /\ UNCHANGED <<files, asked, daemon, restarts, gaps, breaks>>

Fails(p) ==
    /\ proc[p].life = "serving" /\ Fault
    /\ Becomes(p, "sick") \/ proc' = Killed({p})
    /\ UNCHANGED <<files, asked, daemon, restarts, gaps, breaks>>

-----------------------------------------------------------------------------
\* The daemon: what stops it, how it comes back.

Stopped(phase) ==
    /\ ~At("down") /\ breaks < MaxBreaks /\ breaks' = breaks + 1
    /\ st' = [st EXCEPT !.phase = phase]
    /\ gaps' = IF daemon.pc \in {"wait", "point", "record"} THEN gaps \cup {"orphan"} ELSE gaps
    /\ daemon' = Down
    /\ UNCHANGED <<proc, pointer, release, asked, restarts, faults>>

Kill == Stopped(st.phase)

\* SIGTERM raises SystemExit wherever the daemon is; run_forever's finally runs.
Terminate == Stopped("stopped")

StartDaemon ==
    /\ At("down")
    /\ Goto("recover") /\ restarts' = 0
    /\ UNCHANGED <<proc, files, asked, bounds>>

Interrupted ==
    /\ st.phase = "switching"
    /\ proc' = Killed({st.candidate, Managed})
    /\ daemon' = Launch(daemon, IF st.previous # Null THEN st.previous ELSE Other(pointer),
                        "restore")
    /\ UNCHANGED files

\* Mutant: what runs is adopted, the pointer is left alone.
AdoptOnly ==
    /\ st.phase # "switching" /\ Alive(Managed) /\ Answers("primary")
    /\ st' = [st EXCEPT !.phase = "running", !.active = st.process.slot]
    /\ daemon' = Done(daemon, TRUE)
    /\ UNCHANGED <<proc, pointer, release>>

Adopt ==
    /\ st.phase # "switching" /\ Alive(Managed) /\ Answers("primary")
    /\ pointer' = st.process.slot
    /\ st' = [st EXCEPT !.phase = "running", !.active = pointer']
    /\ daemon' = Done(daemon, TRUE)
    /\ UNCHANGED <<proc, release>>

StartAnew ==
    /\ st.phase # "switching" /\ ~(Alive(Managed) /\ Answers("primary"))
    /\ proc' = Killed({Managed})
    /\ daemon' = Launch(daemon, pointer, "ensure")
    /\ UNCHANGED files

Recover ==
    /\ At("recover")
    /\ Interrupted \/ Adopt \/ StartAnew
    /\ UNCHANGED <<asked, restarts, bounds>>

-----------------------------------------------------------------------------
\* Requests.

\* Every request of the application has an idempotency key of its own: one that
\* was answered is not carried out again.  A restart, sent by hand, has none.
Answered(r) == r.kind # "restart" /\ result[r.id] # "none"

Switching == [st EXCEPT !.phase = "switching", !.previous = pointer]

PromoteAsked(r, d) ==
    /\ r.kind = "promote"
    /\ \/ ~r.gate /\ daemon' = Done(d, FALSE) /\ UNCHANGED <<st, faults>>
       \/ /\ r.gate /\ r.target = pointer
          /\ daemon' = Launch(d, pointer, "ensure") /\ UNCHANGED <<st, faults>>
       \/ /\ r.gate /\ r.target # pointer \* candidate_static_health_failed
          /\ Fault /\ daemon' = Done(d, FALSE) /\ UNCHANGED st
       \/ /\ r.gate /\ r.target # pointer
          /\ st' = Switching
          /\ daemon' = [d EXCEPT !.pc = "stage", !.slot = r.target, !.back = pointer]
          /\ UNCHANGED faults

RollbackAsked(r, d) ==
    /\ r.kind = "rollback"
    /\ \/ r.target = pointer /\ daemon' = Done(d, TRUE) /\ UNCHANGED st
       \/ /\ r.target # pointer
          /\ st' = Switching
          /\ daemon' = Launch(d, r.target, "restore")
    /\ UNCHANGED faults

RestartAsked(r, d) ==
    /\ r.kind = "restart"
    /\ daemon' = Launch(d, pointer, "restart")
    /\ UNCHANGED <<st, faults>>

\* Mutant: a degraded daemon waits for a person before it takes requests.
DispatchUnlessDegraded ==
    /\ At("idle") /\ queue # <<>> /\ st.phase # "degraded"
    /\ LET r == Head(queue)
           d == [daemon EXCEPT !.req = r.id]
       IN  \/ /\ Answered(r)
              /\ daemon' = [d EXCEPT !.pc = "unlink"]
              /\ UNCHANGED <<st, faults>>
           \/ /\ ~Answered(r)
              /\ PromoteAsked(r, d) \/ RollbackAsked(r, d) \/ RestartAsked(r, d)
    /\ UNCHANGED <<proc, pointer, release, asked, restarts, gaps, breaks>>

Dispatch ==
    /\ At("idle") /\ queue # <<>>
    /\ LET r == Head(queue)
           d == [daemon EXCEPT !.req = r.id]
       IN  \/ /\ Answered(r)
              /\ daemon' = [d EXCEPT !.pc = "unlink"]
              /\ UNCHANGED <<st, faults>>
           \/ /\ ~Answered(r)
              /\ PromoteAsked(r, d) \/ RollbackAsked(r, d) \/ RestartAsked(r, d)
    /\ UNCHANGED <<proc, pointer, release, asked, restarts, gaps, breaks>>

\* finish_request writes the result first, then removes the request.
Answer ==
    /\ At("answer")
    /\ result' = [result EXCEPT ![daemon.req] = IF daemon.ok THEN "ok" ELSE "failed"]
    /\ Goto("unlink")
    /\ UNCHANGED <<proc, files, queue, restarts, bounds>>

Unlink ==
    /\ At("unlink")
    /\ queue' = Tail(queue)
    /\ daemon' = Done([daemon EXCEPT !.req = Null], TRUE)
    /\ UNCHANGED <<proc, files, result, restarts, bounds>>

-----------------------------------------------------------------------------
\* A promotion, first on the staging port.

FailSwitch ==
    /\ st' = [st EXCEPT !.phase = "running", !.active = daemon.back, !.candidate = Null]
    /\ daemon' = [daemon EXCEPT !.pc = "publish", !.then = "fail", !.proc = Null, !.ok = FALSE]

Stage ==
    /\ At("stage")
    /\ \/ Spawned(daemon.slot, "staging") /\ UNCHANGED <<st, faults>>
       \/ Fault /\ FailSwitch /\ UNCHANGED proc
    /\ UNCHANGED <<pointer, release, asked, restarts, gaps, breaks>>

NoteCandidate ==
    /\ At("staged")
    /\ st' = [st EXCEPT !.candidate = daemon.proc]
    /\ Goto("staging")
    /\ UNCHANGED <<proc, pointer, release, asked, restarts, bounds>>

\* _wait_process_healthy: the process lives and its port answers, or it has
\* exited, or the time is over.
Healthy(port) == Alive(daemon.proc) /\ Answers(port)
TimedOut(port) == proc[daemon.proc].life = "sick" /\ ~Answers(port)

Staged ==
    /\ At("staging")
    /\ \/ Healthy("staging") /\ Goto("unstage") /\ UNCHANGED st
       \/ (~Alive(daemon.proc) \/ TimedOut("staging")) /\ FailSwitch
    /\ proc' = Killed({daemon.proc})
    /\ UNCHANGED <<pointer, release, asked, restarts, bounds>>

Unstage ==
    /\ At("unstage")
    /\ st' = [st EXCEPT !.candidate = Null]
    /\ daemon' = Launch(daemon, daemon.slot, "promote")
    /\ UNCHANGED <<proc, pointer, release, asked, restarts, bounds>>

-----------------------------------------------------------------------------
\* On the primary port: a promotion, _restore_previous, a restart, _ensure_running
\* ("revive" is the one after an unexpected exit).

Ensures == daemon.then \in {"ensure", "revive"}

\* Mutant: the new process is started next to the old one.
StopNothing ==
    /\ At("stop")
    /\ Goto("start")
    /\ UNCHANGED <<proc, st, pointer, release, asked, restarts, bounds>>

StopCurrent ==
    /\ At("stop")
    /\ IF Ensures /\ Alive(Managed) /\ st.process.slot = daemon.slot
                  /\ Answers("primary")
       THEN daemon' = Done(daemon, TRUE) /\ UNCHANGED <<proc, st>>
       ELSE /\ proc' = Killed({Managed})
            /\ st' = IF Ensures /\ Alive(Managed) THEN [st EXCEPT !.process = Null] ELSE st
            /\ Goto("start")
    /\ UNCHANGED <<pointer, release, asked, restarts, bounds>>

\* What becomes of the record of the process: kept when the start itself fails,
\* except by _restore_previous; dropped when the new process is not healthy.
NotLaunched(process) ==
    CASE daemon.then = "promote" ->
            daemon' = Launch(daemon, daemon.back, "restore") /\ UNCHANGED st
      [] daemon.then = "restore" ->
            /\ st' = [st EXCEPT !.phase = "degraded", !.process = Null]
            /\ daemon' = Done(daemon, FALSE)
      [] daemon.then \in {"restart", "revive"} ->
            /\ st' = [st EXCEPT !.phase = "degraded", !.process = process]
            /\ daemon' = Done(daemon, FALSE)
      [] OTHER ->
            /\ st' = [st EXCEPT !.process = process]
            /\ daemon' = Done(daemon, FALSE)

Start ==
    /\ At("start")
    /\ \/ Spawned(daemon.slot, "primary") /\ UNCHANGED <<st, faults, gaps>>
       \/ /\ Fault /\ NotLaunched(st.process) /\ UNCHANGED proc
          /\ gaps' = IF st'.process # Null /\ st'.process.slot # pointer
                     THEN gaps \cup {"stale"} ELSE gaps
    /\ UNCHANGED <<pointer, release, asked, restarts, breaks>>

Running == [st EXCEPT !.phase = "running", !.active = daemon.slot, 
              !.process = [pid |-> daemon.proc, slot |-> daemon.slot]]

WaitHealthy ==
    /\ At("wait")
    /\ \/ /\ Healthy("primary") /\ daemon.then \in {"promote", "restore"}
          /\ Goto("point") /\ UNCHANGED <<proc, st>>
       \/ /\ Healthy("primary") /\ daemon.then \notin {"promote", "restore"}
          /\ st' = Running
          /\ daemon' = Done(daemon, TRUE)
          /\ UNCHANGED proc
       \/ /\ ~Alive(daemon.proc) \/ TimedOut("primary")
          /\ proc' = Killed({daemon.proc})
          /\ NotLaunched(Null)
    /\ UNCHANGED <<pointer, release, asked, restarts, bounds>>

Point ==
    /\ At("point")
    /\ pointer' = daemon.slot
    /\ Goto("record")
    /\ UNCHANGED <<proc, st, release, asked, restarts, bounds>>

Record ==
    /\ At("record")
    /\ st' = [Running EXCEPT !.candidate = Null,
                 !.previous = IF daemon.then = "promote" THEN daemon.back ELSE Null,
                 !.window = IF daemon.then = "promote" THEN "open" ELSE "none"]
    /\ daemon' = [daemon EXCEPT !.pc = "publish", !.proc = Null, !.ok = TRUE]
    /\ UNCHANGED <<proc, pointer, release, asked, restarts, bounds>>

Publish ==
    /\ At("publish")
    /\ release' =
         CASE daemon.then = "promote" ->
                [monitoring |-> TRUE, previous |-> daemon.back, active |-> daemon.slot]
           [] daemon.then = "restore" ->
                [monitoring |-> FALSE, previous |-> Null, active |-> daemon.slot]
           [] daemon.then = "fail" ->
                [monitoring |-> FALSE, previous |-> Null, active |-> daemon.back]
           [] OTHER ->
                [monitoring |-> FALSE, previous |-> daemon.back, active |-> daemon.slot]
    /\ daemon' = Done(daemon, daemon.ok)
    /\ UNCHANGED <<proc, pointer, st, asked, restarts, bounds>>

-----------------------------------------------------------------------------
\* _watch: what the daemon does while nobody asks.

Previous == IF st.previous # Null THEN st.previous ELSE Other(st.process.slot)

StartMissing ==
    /\ st.process = Null /\ st.phase # "degraded"
    /\ daemon' = Launch(daemon, pointer, "ensure")
    /\ UNCHANGED <<st, restarts>>

ExitedUnexpectedly ==
    /\ st.process # Null /\ ~Alive(Managed)
    /\ LET slot == st.process.slot
           goBack == st.previous \notin {Null, slot}
           spent == restarts >= MaxRestarts
       IN  \/ /\ goBack /\ (st.window = "open" \/ spent)
              /\ daemon' = Launch(daemon, st.previous, "restore")
              /\ st' = [st EXCEPT !.process = Null] /\ UNCHANGED restarts
           \/ /\ ~goBack /\ spent
              /\ st' = [st EXCEPT !.process = Null, !.phase = "degraded"]
              /\ UNCHANGED <<daemon, restarts>>
           \/ /\ ~spent /\ ~(goBack /\ st.window = "open")
              /\ restarts' = restarts + 1
              /\ daemon' = Launch(daemon, slot, "revive")
              /\ st' = [st EXCEPT !.process = Null]

UnhealthyInWindow ==
    /\ Alive(Managed) /\ st.window = "open" /\ ~Answers("primary")
    /\ daemon' = Launch(daemon, Previous, "restore")
    /\ UNCHANGED <<st, restarts>>

MonitoringCompleted ==
    /\ Alive(Managed) /\ st.window = "over" /\ st.previous # Null
    /\ st' = [st EXCEPT !.previous = Null, !.window = "none"]
    /\ daemon' = [daemon EXCEPT !.pc = "publish", !.then = "stable",
                                !.slot = pointer, !.back = st.previous]
    /\ UNCHANGED restarts

Watch ==
    /\ At("idle") /\ queue = <<>> /\ st.phase # "switching"
    /\ StartMissing \/ ExitedUnexpectedly \/ UnhealthyInWindow \/ MonitoringCompleted
    /\ UNCHANGED <<proc, pointer, release, asked, bounds>>

WindowOver ==
    /\ st.window = "open"
    /\ st' = [st EXCEPT !.window = "over"]
    /\ UNCHANGED <<proc, pointer, release, asked, daemon, restarts, bounds>>

\* The restarts of the last supervisor_restart_window_seconds count.
RestartsAge ==
    /\ restarts > 0 /\ restarts' = 0
    /\ UNCHANGED <<proc, files, asked, daemon, bounds>>

-----------------------------------------------------------------------------
\* The application (release_manager.py).  After it has submitted a request or
\* switched it writes what it expects into release_state.json, unless the process
\* it runs in is stopped first.

Unused(id) == result[id] = "none" /\ \A i \in 1..Len(queue) : queue[i].id # id
RollbackTarget == IF release.previous # Null THEN release.previous ELSE Other(pointer)
Expects(r) == release' \in {release, r}
Ended == [release EXCEPT !.monitoring = FALSE]

Submit(id) ==
    /\ ~At("down") /\ Unused(id)
    /\ \/ \E gate \in BOOLEAN :
             /\ queue' = Append(queue, [id |-> id, kind |-> "promote",
                                        target |-> Other(pointer), gate |-> gate])
             /\ Expects([monitoring |-> FALSE, previous |-> pointer, active |-> pointer])
       \/ /\ queue' = Append(queue, [id |-> id, kind |-> "rollback",
                                     target |-> RollbackTarget, gate |-> FALSE])
          /\ Expects(Ended)
       \/ /\ queue' = Append(queue, [id |-> id, kind |-> "restart",
                                     target |-> pointer, gate |-> FALSE])
          /\ UNCHANGED release
    /\ UNCHANGED <<proc, pointer, st, result, daemon, restarts, bounds>>

\* Without a daemon the application moves the pointer itself.
SwitchAlone ==
    /\ At("down")
    /\ \/ /\ pointer' = Other(pointer)
          /\ Expects([monitoring |-> TRUE, previous |-> pointer, active |-> pointer'])
       \/ pointer' = RollbackTarget /\ Expects(Ended)
    /\ UNCHANGED <<proc, st, asked, daemon, restarts, bounds>>

MonitorAlone ==
    /\ At("down") /\ release.monitoring
    /\ \/ /\ pointer = release.active /\ Fault
          /\ pointer' = release.previous /\ Expects(Ended)
       \/ release' = Ended /\ UNCHANGED <<pointer, faults>> \* superseded, stable
    /\ UNCHANGED <<proc, st, asked, daemon, restarts, gaps, breaks>>

-----------------------------------------------------------------------------
Daemon ==
    \/ StartDaemon \/ Recover \/ Dispatch \/ Answer \/ Unlink
    \/ Stage \/ NoteCandidate \/ Staged \/ Unstage
    \/ StopCurrent \/ Start \/ WaitHealthy \/ Point \/ Record \/ Publish
    \/ Watch

ReleaseNext ==
    \/ Daemon \/ Kill \/ Terminate
    \/ \E p \in Pid : Boot(p) \/ Fails(p)
    \/ WindowOver \/ RestartsAge
    \/ \E id \in RequestId : Submit(id)
    \/ SwitchAlone \/ MonitorAlone

ReleaseSpec == ReleaseInit /\ [][ReleaseNext]_releaseVars

-----------------------------------------------------------------------------
Process == [slot : Slot, port : Port, life : {"starting", "serving", "sick", "dead"}]
Phase == {"new", "switching", "running", "degraded", "stopped"}
State == [phase : Phase, active : Slot \cup {Null}, previous : Slot \cup {Null},
          process : [pid : Pid, slot : Slot] \cup {Null},
          candidate : Pid \cup {Null},
          window : {"none", "open", "over"}]
ReleaseState == [monitoring : BOOLEAN, previous : Slot \cup {Null}, active : Slot]
Asked == [id : RequestId, kind : {"promote", "rollback", "restart"},
          target : Slot, gate : BOOLEAN]
DaemonStep == {"down", "recover", "idle", "answer", "unlink", "stage", "staged", "staging",
         "unstage", "stop", "start", "wait", "point", "record", "publish"}
Purpose == {"ensure", "revive", "restart", "restore", "promote", "fail", "stable"}

\* The values of all variables; a request is in its directory once.
ReleaseTypeOK ==
    /\ proc \in [Pid -> Process]
    /\ pointer \in Slot
    /\ st \in State
    /\ release \in ReleaseState
    /\ queue \in Seq(Asked)
    /\ result \in [RequestId -> {"none", "ok", "failed"}]
    /\ daemon \in [pc : DaemonStep, req : RequestId \cup {Null}, slot : Slot, back : Slot,
                   proc : Pid \cup {Null}, then : Purpose, ok : BOOLEAN]
    /\ restarts \in 0..MaxRestarts
    /\ gaps \subseteq {"orphan", "stale"} /\ breaks \in 0..MaxBreaks /\ faults \in 0..MaxFaults

Settled == At("idle") /\ st.phase = "running" /\ Alive(Managed)

Agree == st.active = pointer /\ st.process.slot = pointer

\* When the daemon has come to rest after whatever happened, active_slot, the
\* active slot of state.json and the slot of the process it manages are the same;
\* unless a start that failed has left it the record of a process of the other
\* slot, which it will restart.  (All keeps its type, too.)
Consistent == ReleaseTypeOK /\ (Settled /\ "stale" \notin gaps => Agree)

\* Nobody but the managed process serves the application's port, so the version
\* that answers is the one the pointer names.  (While the daemon has never been
\* stopped between starting a process and recording it.)
OneVersionServes ==
    Settled /\ "orphan" \notin gaps => \A p \in Pid : Binds(p, "primary") => p = Managed

\* After any crash: what serves is the version the pointer names.  Not kept by
\* the code: README, section 4.
ServesActive ==
    Settled => \A p \in Pid : Binds(p, "primary") => proc[p].slot = pointer

Fairness == WF_releaseVars(Daemon) /\ \A p \in Pid : WF_releaseVars(Boot(p))

FairSpec == ReleaseSpec /\ Fairness

\* A request is answered in the end, also when the daemon is killed while it
\* serves it or a rollback fails meanwhile.
RequestsAnswered ==
    \A id \in RequestId : ~Unused(id) ~> result[id] # "none"
================================================================================
