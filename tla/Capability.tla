------------------------------- MODULE Capability -------------------------------
(***************************************************************************)
(* The life of one MCP capability (capability/lifecycle.py, mcp/installer, *)
(* mcp/bootstrap, mcp/runtime_client, the two route files): its row, the   *)
(* snapshots of its versions and its directories last; the discovery index *)
(* and the server process end with the application, which registers what   *)
(* is active when it starts again.                                         *)
(*                                                                         *)
(* The operations of CapabilityLifecycleService hold a lock, but decide on *)
(* the row they read before they asked for it: _find_locked locks the row  *)
(* and returns the object the session already has.  install_sandbox, the   *)
(* smoke route, the probe of a plan and reconcile take no lock at all.     *)
(***************************************************************************)
EXTENDS Naturals

CONSTANTS Version,
          Catalog,      \* the version the catalog is pinned to
          Base,         \* the directory of install_sandbox; an upgrade has its own
          Upgrades,     \* bound: the versions an upgrade is asked for
          Request,      \* requests that may be under way at one time
          None,
          MaxRequests,  \* bound: requests
          MaxFailures   \* bound: crashes, failed commits, registrations that fail

ASSUME CapabilityAssumption ==
    /\ Catalog \in Version /\ Upgrades \subseteq Version
    /\ Base \notin Version /\ None \notin Version \cup {Base} \cup Request
    /\ MaxRequests \in Nat /\ MaxFailures \in Nat

VARIABLES row,      \* capabilities
          snap,     \* the newest definition_snapshot of each version
          disk,     \* the directories of the sandbox
          index,    \* ToolRegistry: versions whose tools can be discovered
          live,     \* the directory the living server session was started from
          req,      \* the requests under way
          lock,     \* who holds _capability_lock and the row
          gap,      \* history: index and row may disagree until they are reconciled
          begun,    \* requests so far
          failures

durable == <<row, snap, disk>>
runtime == <<index, live>>
control == <<req, lock, gap, begun, failures>>
vars == <<durable, runtime, control>>

Dir == {Base} \cup Version

\* The tools of a version stand for the version; no two have the same tools.
Content(d) == IF d = Base THEN Catalog ELSE d

\* definition: launch, cached tools, verified_fingerprint, registered_tools.
\* The fingerprint of a definition is its version: no other part changes.
Def == [ver : Version, dir : Dir, tools : Version \cup {None},
        fp : Version \cup {None}, noted : SUBSET Version]
CapabilityState == {"sandbox", "needs_review", "verified", "active", "disabled"}
Row == [state : CapabilityState, def : Def]

ASSUME NoneAssumption == None \notin Row

Locked == {"verify", "enable", "disable", "upgrade", "rollback", "uninstall"}
Unlocked == {"install", "smoke", "activate"}
Idle == [op |-> None, pc |-> "idle", seen |-> None, put |-> None, to |-> None,
         left |-> {}, gone |-> FALSE]
Doing(r, op, pc) == req[r].op = op /\ req[r].pc = pc
Rest == \A r \in Request : req[r] = Idle
Alone(r) == \A q \in Request \ {r} : req[q] = Idle

Active == row # None /\ row.state = "active"
Failure == failures < MaxFailures /\ failures' = failures + 1

Init ==
    /\ row = None
    /\ snap = [v \in Version |-> None]
    /\ disk = [d \in Dir |-> "absent"]
    /\ index = {} /\ live = None
    /\ req = [r \in Request |-> Idle]
    /\ lock = None
    /\ gap = FALSE /\ begun = 0 /\ failures = 0

Proceed(r, pc) == req' = [req EXCEPT ![r].pc = pc]
Unlock(r) == lock' = IF lock = r THEN None ELSE lock
Return(r) == req' = [req EXCEPT ![r] = Idle] /\ Unlock(r)
-------------------------------------------------------------------------------
(* The discovery index and the server process (mcp/bootstrap.py,           *)
(* mcp/runtime_client.py)                                                  *)

\* registered_tool_ids: the cached list and what was noted, never a guess.
ToolIds(def) == ({def.tools} \ {None}) \cup def.noted

\* A living session answers whatever configure said meanwhile.
Answering(d) == IF live = None THEN d ELSE live

Listed(d) == Content(Answering(d))

\* What activate_capability_tools would register for a definition.
Offer(def) == IF def.tools = None THEN Listed(def.dir) ELSE def.tools

Activate(def) ==
    /\ disk[def.dir] = "ok"
    /\ live' = IF def.tools = None THEN Answering(def.dir) ELSE live
    /\ index' = index \cup {Offer(def)}

\* No entry file, no node, or no answer to tools/list.
CannotActivate(def) ==
    /\ IF disk[def.dir] = "ok" THEN Failure ELSE UNCHANGED failures
    /\ UNCHANGED <<index, live>>

\* unregister_capability_tools, by the definition at hand, and client.close.
Withdraw(def) ==
    /\ index' = index \ ToolIds(def)
    /\ live' = None
-------------------------------------------------------------------------------
(* Requests and their locks *)

\* The session writes the columns r changed since it loaded them.  A definition
\* always changes (its history does), except where nothing is assigned to it.
Written(r) ==
    LET old == req[r].seen
        new == req[r].put
        same == req[r].op \in {"smoke", "upgrade"} /\ new.def = old.def
    IN  [state |-> IF new.state = old.state THEN row.state ELSE new.state,
         def |-> IF same THEN row.def ELSE new.def]

Raced(r) == gap' = (gap \/ ~Alone(r))

Begin(r, op, v) ==
    /\ req[r] = Idle
    /\ row # None \/ op = "install"
    /\ req' = [req EXCEPT ![r] =
           [op |-> op, pc |-> IF op \in Locked THEN "lock" ELSE "work",
            seen |-> row, put |-> None, to |-> v, left |-> {}, gone |-> FALSE]]
    /\ Raced(r)
    /\ begun < MaxRequests /\ begun' = begun + 1
    /\ UNCHANGED <<durable, runtime, lock, failures>>

\* _find_locked: the object of _find, unless that row is gone.
Seen(r) == IF req[r].gone THEN row ELSE req[r].seen

TakeLock(r) ==
    /\ req[r].pc = "lock" /\ lock = None
    /\ IF row = None
       THEN Return(r)
       ELSE /\ req' = [req EXCEPT ![r].pc = "work", ![r].seen = Seen(r), ![r].gone = FALSE]
            /\ lock' = r
    /\ UNCHANGED <<durable, runtime, gap, begun, failures>>

\* Early returns that change nothing.
Refuses(r) ==
    LET op == req[r].op
        cap == req[r].seen
        v == req[r].to
    IN  \/ op = "verify" /\ cap.state = "active"
        \/ /\ op = "enable" /\ disk[cap.def.dir] # "absent"
           /\ \/ cap.def.fp \notin {None, cap.def.ver}
              \/ cap.state \notin {"verified", "disabled", "active"}
        \/ op = "disable" /\ cap.state # "active"
        \/ op = "upgrade" /\ v = cap.def.ver
        \/ /\ op = "rollback"
           /\ \/ v = cap.def.ver \/ snap[v] = None
              \/ snap[v] # None /\ disk[snap[v].dir] = "absent"
        \/ op = "uninstall"      \* capability_in_use: a task or an action needs it
        \/ op = "smoke" /\ cap.state \notin {"sandbox", "needs_review"}

Refuse(r) ==
    /\ req[r].pc = "work" /\ req[r].op # "install"
    /\ Refuses(r)
    /\ Return(r)
    /\ UNCHANGED <<durable, runtime, gap, begun, failures>>

Work(r, op) == Doing(r, op, "work")

\* The row to be written, once nothing is left to do in memory.
Puts(r, new) == req' = [req EXCEPT ![r].pc = "commit", ![r].put = new]
-------------------------------------------------------------------------------
(* verify, the smoke route and the probe of a plan: tools/list *)

\* run_smoke: the smoke route activates what passes, the others verify it.
Passed(op) == IF op = "smoke" THEN "active" ELSE "verified"

Probe(r) ==
    LET op == req[r].op
        cap == req[r].seen
        d == cap.def.dir
    IN
    /\ req[r].pc = "work" /\ op \in {"verify", "smoke", "activate"}
    /\ cap.state # "active" /\ ~Refuses(r)
    /\ \/ /\ disk[d] = "ok"
          /\ live' = Answering(d)
          /\ Puts(r, [state |-> Passed(op),
                      def |-> [cap.def EXCEPT
                                 !.tools = Listed(d),
                                 !.fp = IF op = "verify" THEN cap.def.ver ELSE @]])
          /\ UNCHANGED failures
       \/ /\ IF disk[d] = "ok" THEN Failure ELSE UNCHANGED failures
          /\ UNCHANGED live
          /\ Puts(r, [cap EXCEPT !.state = "needs_review"])
    /\ UNCHANGED <<durable, index, lock, gap, begun>>

\* The smoke route may call a tool as well: if that fails, the list is kept.
SmokeCallFails(r) ==
    LET cap == req[r].seen
        d == cap.def.dir
    IN
    /\ Work(r, "smoke") /\ ~Refuses(r)
    /\ disk[d] = "ok" /\ Failure
    /\ live' = Answering(d)
    /\ Puts(r, [state |-> "needs_review", def |-> [cap.def EXCEPT !.tools = Listed(d)]])
    /\ UNCHANGED <<durable, index, lock, gap, begun>>

\* A plan whose capability is active goes straight on to enable.
SkipProbe(r) ==
    /\ Work(r, "activate") /\ req[r].seen.state = "active"
    /\ req' = [req EXCEPT ![r].op = "enable", ![r].pc = "lock"]
    /\ UNCHANGED <<durable, runtime, lock, gap, begun, failures>>
-------------------------------------------------------------------------------
(* enable and disable *)

\* _mark_needs_review, where the transition table allows it.
Doubted(cap) == IF cap.state = "disabled" THEN cap ELSE [cap EXCEPT !.state = "needs_review"]

EnableMissing(r) ==
    LET cap == req[r].seen IN
    /\ Work(r, "enable") /\ disk[cap.def.dir] = "absent"
    /\ index' = IF Doubted(cap) = cap THEN index ELSE index \ ToolIds(cap.def)
    /\ Puts(r, Doubted(cap))
    /\ UNCHANGED <<durable, live, lock, gap, begun, failures>>

EnableRegister(r) ==
    LET cap == req[r].seen IN
    /\ Work(r, "enable") /\ ~Refuses(r)
    /\ Activate(cap.def)
    /\ Puts(r, [state |-> "active", def |-> [cap.def EXCEPT !.noted = {Offer(cap.def)}]])
    /\ gap' = (gap \/ cap.def.tools = None)
    /\ UNCHANGED <<durable, lock, begun, failures>>

\* registration_failed: only last_error is written.
EnableFails(r) ==
    LET cap == req[r].seen IN
    /\ Work(r, "enable") /\ disk[cap.def.dir] # "absent" /\ ~Refuses(r)
    /\ CannotActivate(cap.def)
    /\ Puts(r, cap)
    /\ UNCHANGED <<durable, lock, gap, begun>>

Disable(r) ==
    LET cap == req[r].seen IN
    /\ Work(r, "disable") /\ ~Refuses(r)
    /\ Withdraw(cap.def)
    /\ Puts(r, [cap EXCEPT !.state = "disabled"])
    /\ UNCHANGED <<durable, lock, gap, begun, failures>>
-------------------------------------------------------------------------------
(* upgrade and rollback *)

\* What a switch leaves the state at: off the index it stays off.
Kept(s) == IF s \in {"active", "disabled"} THEN s ELSE "verified"

\* npm install into a directory; a failure may spoil what was there before.
NpmInstalls(d) == disk' = [disk EXCEPT ![d] = "ok"]
NpmFails(d) ==
    /\ Failure
    /\ \E left \in {"bad"} \cup ({"ok"} \cap {disk[d]}) :
          disk' = [disk EXCEPT ![d] = left]

UpgradeInstall(r) ==
    LET v == req[r].to IN
    /\ Work(r, "upgrade") /\ ~Refuses(r)
    /\ \/ NpmInstalls(v) /\ Proceed(r, "staged") /\ UNCHANGED <<lock, failures>>
       \/ NpmFails(v) /\ Return(r)
    /\ UNCHANGED <<row, snap, runtime, gap, begun>>

\* The probe of the staged version has a session of its own.
UpgradeProbe(r) ==
    LET cap == req[r].seen
        v == req[r].to
        new == [cap EXCEPT !.def = [@ EXCEPT !.ver = v, !.dir = v, !.tools = v, !.fp = v]]
    IN
    /\ Doing(r, "upgrade", "staged")
    /\ \/ /\ cap.state = "active"
          /\ Withdraw(cap.def)
          /\ req' = [req EXCEPT ![r].pc = "swap", ![r].put = new]
          /\ UNCHANGED <<disk, lock, failures>>
       \/ /\ cap.state # "active"
          /\ Puts(r, [new EXCEPT !.state = Kept(cap.state), !.def.noted = {}])
          /\ UNCHANGED <<disk, runtime, lock, failures>>
       \/ /\ Failure
          /\ disk' = [disk EXCEPT ![v] = "absent"]
          /\ Return(r)
          /\ UNCHANGED runtime
    /\ UNCHANGED <<row, snap, gap, begun>>

UpgradeSwap(r) ==
    LET new == req[r].put IN
    /\ Doing(r, "upgrade", "swap")
    /\ Activate(new.def)
    /\ Puts(r, [new EXCEPT !.def.noted = {Offer(new.def)}])
    /\ UNCHANGED <<durable, lock, gap, begun, failures>>

\* Mutant: the directory of the definition that has been put back is removed.
UpgradeBackOld(r) ==
    LET cap == req[r].seen IN
    /\ Doing(r, "upgrade", "swap")
    /\ Failure
    /\ disk' = [disk EXCEPT ![cap.def.dir] = "absent"]
    /\ Puts(r, cap)
    /\ \/ Activate(cap.def) /\ UNCHANGED gap
       \/ UNCHANGED runtime /\ gap' = TRUE
    /\ UNCHANGED <<row, snap, lock, begun>>

\* The new tools cannot be registered: back to the old definition and tools.
UpgradeBack(r) ==
    LET cap == req[r].seen
        v == req[r].to
    IN
    /\ Doing(r, "upgrade", "swap")
    /\ Failure
    /\ disk' = [disk EXCEPT ![v] = "absent"]
    /\ Puts(r, cap)
    /\ \/ Activate(cap.def) /\ UNCHANGED gap
       \/ UNCHANGED runtime /\ gap' = TRUE
    /\ UNCHANGED <<row, snap, lock, begun>>

\* Mutant: the definition is switched first, the tools are withdrawn by the new one.
RollbackLate(r) ==
    LET cap == req[r].seen
        new == [state |-> Kept(cap.state), def |-> snap[req[r].to]]
    IN
    /\ Work(r, "rollback") /\ ~Refuses(r)
    /\ IF cap.state = "active"
       THEN Withdraw(new.def) /\ req' = [req EXCEPT ![r].pc = "swap", ![r].put = new]
       ELSE UNCHANGED runtime /\ Puts(r, new)
    /\ UNCHANGED <<durable, lock, gap, begun, failures>>

Rollback(r) ==
    LET cap == req[r].seen
        new == [state |-> Kept(cap.state), def |-> snap[req[r].to]]
    IN
    /\ Work(r, "rollback") /\ ~Refuses(r)
    /\ IF cap.state = "active"
       THEN Withdraw(cap.def) /\ req' = [req EXCEPT ![r].pc = "swap", ![r].put = new]
       ELSE UNCHANGED runtime /\ Puts(r, new)
    /\ UNCHANGED <<durable, lock, gap, begun, failures>>

\* What a snapshot without a list registers is written down nowhere.
RollbackSwap(r) ==
    LET new == req[r].put IN
    /\ Doing(r, "rollback", "swap")
    /\ \/ /\ Activate(new.def) /\ Puts(r, new)
          /\ gap' = (gap \/ new.def.tools = None)
          /\ UNCHANGED failures
       \/ /\ CannotActivate(new.def)
          /\ Puts(r, [new EXCEPT !.state = "verified"])
          /\ UNCHANGED gap
    /\ UNCHANGED <<durable, lock, begun>>
-------------------------------------------------------------------------------
(* uninstall and install_sandbox *)

Owned(cap) ==
    {cap.def.dir, Base} \cup {snap[v].dir : v \in {u \in Version : snap[u] # None}}

Uninstall(r) ==
    /\ Work(r, "uninstall")
    /\ Withdraw(req[r].seen.def)
    /\ Proceed(r, "delete")
    /\ UNCHANGED <<durable, lock, gap, begun, failures>>

\* The rows go in one commit, the directories one after the other behind it.
UninstallDelete(r) ==
    /\ Doing(r, "uninstall", "delete")
    /\ row # None
    /\ row' = None
    /\ snap' = [v \in Version |-> None]
    /\ req' = [q \in Request |->
                 IF q = r THEN [req[r] EXCEPT !.pc = "sweep", !.left = Owned(req[r].seen)]
                 ELSE [req[q] EXCEPT !.gone = req[q].seen # None]]
    /\ UNCHANGED <<disk, runtime, lock, gap, begun, failures>>

UninstallSweep(r) ==
    /\ Doing(r, "uninstall", "sweep")
    /\ disk' = [d \in Dir |-> IF d \in req[r].left THEN "absent" ELSE disk[d]]
    /\ Return(r)
    /\ UNCHANGED <<row, snap, runtime, gap, begun, failures>>

InstallNpm(r) ==
    /\ Work(r, "install")
    /\ \/ NpmInstalls(Base) /\ Proceed(r, "read") /\ UNCHANGED <<lock, failures>>
       \/ NpmFails(Base) /\ Return(r)
    /\ UNCHANGED <<row, snap, runtime, gap, begun>>

\* The definition is merged: the cached list and what was noted survive.
InstallRead(r) ==
    /\ Doing(r, "install", "read")
    /\ index' = IF Active THEN index \ ToolIds(row.def) ELSE index
    /\ req' = [req EXCEPT ![r].pc = "commit", ![r].seen = row, ![r].put =
           IF row = None
           THEN [state |-> "sandbox",
                 def |-> [ver |-> Catalog, dir |-> Base, tools |-> None,
                          fp |-> None, noted |-> {}]]
           ELSE [state |-> "needs_review",
                 def |-> [row.def EXCEPT !.ver = Catalog, !.dir = Base]]]
    /\ UNCHANGED <<durable, live, lock, gap, begun, failures>>
-------------------------------------------------------------------------------
(* The commit of a request, reconcile, calls, and the process *)

\* The row r loaded has been deleted, or another install was first.
Conflict(r) == req[r].gone \/ (req[r].seen = None /\ row # None)

\* An unlocked request waits for the row lock of the locked one.
Commit(r) ==
    LET old == req[r].seen
        new == req[r].put
        op == req[r].op
    IN
    /\ req[r].pc = "commit" /\ lock \in {None, r} /\ ~Conflict(r)
    /\ row' = IF old = None THEN new ELSE Written(r)
    /\ snap' = CASE op = "upgrade" -> [snap EXCEPT ![new.def.ver] = new.def,
                                                   ![old.def.ver] = old.def]
                 [] op = "rollback" -> [snap EXCEPT ![new.def.ver] = new.def]
                 [] OTHER -> snap
    /\ gap' = (gap \/ (op = "smoke" /\ new.state = "active"))
    /\ IF op = "activate" /\ new.state = "verified"
       THEN req' = [req EXCEPT ![r] = [Idle EXCEPT !.op = "enable", !.pc = "lock",
                                                   !.seen = row']]
            /\ UNCHANGED lock
       ELSE Return(r)
    /\ UNCHANGED <<disk, runtime, begun, failures>>

\* The transaction is rolled back; what was done in memory is not.
CommitFails(r) ==
    /\ req[r].pc \in {"commit", "delete"} /\ lock \in {None, r}
    /\ Failure \/ (Conflict(r) /\ UNCHANGED failures)
    /\ Return(r)
    /\ gap' = (gap \/ req[r].op \notin {"verify", "smoke", "activate"})
    /\ UNCHANGED <<durable, runtime, begun>>

\* audit and the repairs it asks for.
Known == IF row = None THEN {} ELSE ToolIds(row.def)

\* An active row without its directory is withdrawn; one whose tools are not all
\* there is registered again, if it can be.
ReconcileActive ==
    LET dir == row.def.dir IN
    /\ Active
    /\ CASE disk[dir] = "absent" ->
              /\ lock = None
              /\ row' = [row EXCEPT !.state = "needs_review"]
              /\ index' = {} /\ UNCHANGED live
         [] disk[dir] = "ok" /\ ~(Known \subseteq index) ->
              /\ index' = (index \cap Known) \cup {Offer(row.def)}
              /\ live' = IF row.def.tools = None THEN Answering(dir) ELSE live
              /\ UNCHANGED row
         [] OTHER -> index' = index \cap Known /\ UNCHANGED <<row, live>>

\* A row in "sandbox" is not looked at, only the tools nobody knows.
ReconcileInactive ==
    /\ ~Active
    /\ index' = IF row # None /\ row.state = "sandbox" THEN index \cap Known ELSE {}
    /\ UNCHANGED <<row, live>>

\* What reconcile cannot mend: tools that are written down nowhere, an older note that
\* keeps more of them than the list (the next enable drops it), and a directory from
\* which no server starts.
Beyond ==
    LET def == row.def IN
    \/ def.tools = None \/ ~(def.noted \subseteq {def.tools})
    \/ disk[def.dir] = "bad" /\ ~(Known \subseteq index)

Reconcile ==
    /\ ReconcileActive \/ ReconcileInactive
    /\ gap' = (~Rest \/ (Active /\ row' = row /\ Beyond))
    /\ UNCHANGED <<snap, disk, req, lock, begun, failures>>

\* Idle for five minutes, or the server died.
SessionEnds ==
    /\ live # None /\ live' = None
    /\ UNCHANGED <<durable, index, control>>

\* The application dies and starts again: restore_active_capabilities.
Restart ==
    LET restores == Active /\ disk[row.def.dir] = "ok" IN
    /\ Failure
    /\ req' = [r \in Request |-> Idle] /\ lock' = None
    /\ IF restores
       THEN LET def == row.def IN
            /\ live' = IF def.tools = None THEN def.dir ELSE None
            /\ index' = {IF def.tools = None THEN Content(def.dir) ELSE def.tools}
            /\ gap' = (def.tools = None)
       ELSE /\ index' = {} /\ live' = None
            /\ gap' = Active
    /\ UNCHANGED <<durable, begun>>
-------------------------------------------------------------------------------
Step(r) ==
    \/ TakeLock(r) \/ Refuse(r)
    \/ Probe(r) \/ SmokeCallFails(r) \/ SkipProbe(r)
    \/ EnableMissing(r) \/ EnableRegister(r) \/ EnableFails(r) \/ Disable(r)
    \/ UpgradeInstall(r) \/ UpgradeProbe(r) \/ UpgradeSwap(r) \/ UpgradeBack(r)
    \/ Rollback(r) \/ RollbackSwap(r)
    \/ Uninstall(r) \/ UninstallDelete(r) \/ UninstallSweep(r)
    \/ InstallNpm(r) \/ InstallRead(r)
    \/ Commit(r) \/ CommitFails(r)

Next ==
    \/ \E r \in Request :
          \/ \E op \in {"verify", "enable", "disable", "uninstall"} \cup Unlocked :
                Begin(r, op, None)
          \/ \E v \in Upgrades : Begin(r, "upgrade", v)
          \/ \E v \in Version : Begin(r, "rollback", v)
          \/ Step(r)
    \/ Reconcile \/ SessionEnds \/ Restart

Spec == Init /\ [][Next]_vars
-------------------------------------------------------------------------------
\* What the variables range over.
TypeOK ==
    /\ row \in Row \cup {None}
    /\ snap \in [Version -> Def \cup {None}]
    /\ disk \in [Dir -> {"absent", "bad", "ok"}]
    /\ index \subseteq Version
    /\ live \in Dir \cup {None}
    /\ lock \in Request \cup {None}
    /\ gap \in BOOLEAN
    /\ begun \in 0 .. MaxRequests /\ failures \in 0 .. MaxFailures

\* At rest the tools in the discovery index are those of the definition of an active
\* capability, which the next disable finds and takes out; no other capability has
\* any.  Requests that cross each other, commits that fail and tools that are written
\* down nowhere open a gap; reconcile or a restart closes it, whatever has happened,
\* but for what is Beyond it (the state table of states.py).
IndexFollowsState ==
    /\ TypeOK
    /\ Rest /\ ~gap => index = IF Active THEN {row.def.tools} ELSE {}

\* At rest the directory of an active capability is there: failed upgrades, rollbacks,
\* uninstalls and reinstalls do not take it (upgrade: the old version stays as it was).
ArtifactsKept ==
    Rest /\ ~gap /\ Active => disk[row.def.dir] # "absent"

\* What is active was verified as it is now (enable: a definition that has changed
\* must be verified again).  It does not hold: rollback does not ask, nor does smoke.
ActiveIsVerified ==
    Rest /\ ~gap /\ Active => row.def.tools # None /\ row.def.fp \in {None, row.def.ver}

\* An upgrade that fails leaves the version in use alone (docstring of upgrade).  It
\* does not hold: the second of two upgrades to one version has read the row before
\* the first one changed it, and removes its directory.
FailedUpgradeKeeps ==
    [][\A r \in Request :
          UpgradeProbe(r) /\ row # None => disk[row.def.dir] = "absent"
                                          \/ disk'[row.def.dir] # "absent"]_vars
===============================================================================
