----------------------------- MODULE VersionProofs -----------------------------
(***************************************************************************)
(* The two things of which the system keeps versions and switches between   *)
(* them: a capability (Capability.tla) and the application itself          *)
(* (Release.tla).  For every number of requests, versions, processes and   *)
(* failures, what a switch leaves behind is what its record says.  The two *)
(* specifications share nothing; each part has an inductive invariant of   *)
(* its own.                                                                *)
(***************************************************************************)
EXTENDS Capability, Release, TLAPS

\* The capability lifecycle.

\* The directory of a version is its own or the one every installation shares.
SDef == {d \in Def : d.dir \in {Base, d.ver}}
SRow == {c \in Row : c.def \in SDef}

Op == Locked \cup Unlocked
Pc == {"idle", "lock", "work", "staged", "swap", "commit", "delete", "sweep", "read"}
Carried == [op : Op \cup {None}, pc : Pc, seen : SRow \cup {None},
          put : SRow \cup {None}, to : Version \cup {None}, left : SUBSET Dir,
          gone : BOOLEAN]

\* What TypeOK says, and the requests.
Stored ==
    /\ row \in SRow \cup {None}
    /\ snap \in [Version -> SDef \cup {None}]
    /\ disk \in [Dir -> {"absent", "bad", "ok"}]
    /\ index \subseteq Version
    /\ live \in Dir \cup {None}
    /\ lock \in Request \cup {None}
    /\ gap \in BOOLEAN
    /\ begun \in 0 .. MaxRequests /\ failures \in 0 .. MaxFailures

\* What a request carries at its stage.
Carries(q) ==
    /\ q.pc = "idle" => q = Idle
    /\ q.pc # "idle" => q.op \in Op
    /\ q.pc \notin {"idle", "sweep"} /\ q.op # "install" => q.seen # None
    /\ q.pc \in {"swap", "commit"} => q.put # None
    /\ q.pc # "idle" /\ q.op \in {"upgrade", "rollback"} => q.to \in Version
    /\ q.pc = "lock" => q.op \in Locked
    /\ q.pc = "read" => q.op = "install"
    /\ q.pc = "staged" => q.op = "upgrade"
    /\ q.pc = "swap" => /\ q.op \in {"upgrade", "rollback"}
                        /\ q.seen.state = "active" /\ q.put.state = "active"
    /\ q.pc = "delete" => q.op = "uninstall"
    /\ q.pc = "sweep" => q.op = "uninstall"
    /\ q.pc = "commit" => q.op # "uninstall"
    /\ q.op = "upgrade" /\ q.pc \in {"staged", "swap"} => q.to # q.seen.def.ver
    /\ q.op = "upgrade" /\ q.pc = "swap" => q.put.def.tools = q.to

\* The row a request has loaded and no other has deleted: it is still there.
Loaded(q) == q.pc # "sweep" /\ q.seen # None /\ ~q.gone

\* Nothing is registered for a row that has never been probed, and no row goes back
\* to that state: reconcile may leave such a row alone.
Bare(c) == c.state = "sandbox" => c.def.tools = None /\ c.def.noted = {}

Loads(q) == Loaded(q) => /\ row # None
                         /\ q.seen.state # "sandbox" => row.state # "sandbox"
Writes(q) == q.pc \in {"swap", "commit"} =>
                IF q.seen = None THEN Bare(q.put) ELSE q.put.state # "sandbox"

\* The index follows the row c, which has its directory.
Follows(c) ==
    IF c # None /\ c.state = "active"
    THEN index = {c.def.tools} /\ disk[c.def.dir] # "absent"
    ELSE index = {}

Probing == {"verify", "smoke", "activate"}

\* What is so, without a gap, of the only request under way.
Undone(q) ==
    /\ q.pc # "sweep" => q.seen = row /\ ~q.gone
    /\ q.pc \in {"lock", "work", "read", "staged"} => Follows(row)
    /\ q.pc = "swap" => index = {} /\ q.seen.def.tools # None
    /\ q.pc = "commit" =>
          IF q.op \in Probing
          THEN index = {} /\ ~Active /\ (q.put.state = "active" => q.op = "smoke")
          ELSE Follows(q.put)
    /\ q.pc \in {"delete", "sweep"} => index = {}
    /\ q.pc = "sweep" => row = None

Requests ==
    /\ req \in [Request -> Carried]
    /\ \A r \in Request : Carries(req[r]) /\ Loads(req[r]) /\ Writes(req[r])

Quiet ==
    ~gap => /\ Rest => Follows(row)
            /\ \A r \in Request : req[r].pc # "idle" => Alone(r) /\ Undone(req[r])

Inv == Stored /\ (row # None => Bare(row)) /\ Requests /\ Quiet

-------------------------------------------------------------------------------
\* Rows and definitions that are put together again.

LEMMA RowParts ==
    ASSUME NEW c \in SRow
    PROVE  /\ c.state \in CapabilityState /\ c.def \in SDef
           /\ c.def.ver \in Version /\ c.def.dir \in Dir
           /\ c.def.tools \in Version \cup {None} /\ c.def.fp \in Version \cup {None}
           /\ c.def.noted \in SUBSET Version
           /\ c.def.dir = Base \/ c.def.dir = c.def.ver
           /\ c # None
  BY NoneAssumption DEF SRow, SDef, Row, Def

LEMMA RowOf ==
    ASSUME NEW s \in CapabilityState, NEW d \in SDef
    PROVE  [state |-> s, def |-> d] \in SRow
  BY DEF SRow, SDef, Row

LEMMA RowWithState ==
    ASSUME NEW c \in SRow, NEW s \in CapabilityState
    PROVE  /\ [c EXCEPT !.state = s] \in SRow
           /\ [c EXCEPT !.state = s].state = s
           /\ [c EXCEPT !.state = s].def = c.def
  BY DEF SRow, SDef, Row

LEMMA DefNoted ==
    ASSUME NEW d \in SDef, NEW n \in SUBSET Version
    PROVE  /\ [d EXCEPT !.noted = n] \in SDef
           /\ [d EXCEPT !.noted = n].dir = d.dir
           /\ [d EXCEPT !.noted = n].tools = d.tools
           /\ [d EXCEPT !.noted = n].ver = d.ver
  BY DEF SDef, Def

LEMMA RowNoted ==
    ASSUME NEW c \in SRow, NEW n \in SUBSET Version
    PROVE  /\ [c EXCEPT !.def.noted = n] \in SRow
           /\ [c EXCEPT !.def.noted = n].state = c.state
           /\ [c EXCEPT !.def.noted = n].def.tools = c.def.tools
           /\ [c EXCEPT !.def.noted = n].def.dir = c.def.dir
<1>1. PICK d : d = [c.def EXCEPT !.noted = n]
  OBVIOUS
<1>2. d \in SDef /\ d.dir = c.def.dir /\ d.tools = c.def.tools
  BY <1>1, RowParts, DefNoted
<1>3. [c EXCEPT !.def.noted = n] = [c EXCEPT !.def = d] /\ c \in Row
  BY <1>1 DEF SRow, Row
<1> QED BY <1>2, <1>3 DEF SRow, SDef, Row

LEMMA RowReset ==
    ASSUME NEW c \in SRow, NEW s \in CapabilityState
    PROVE  /\ [c EXCEPT !.state = s, !.def.noted = {}] \in SRow
           /\ [c EXCEPT !.state = s, !.def.noted = {}].state = s
<1>1. PICK d : d = [c.def EXCEPT !.noted = {}]
  OBVIOUS
<1>2. d \in SDef
  BY <1>1, RowParts, DefNoted
<1>3. [c EXCEPT !.state = s, !.def.noted = {}] = [c EXCEPT !.state = s, !.def = d] /\ c \in Row
  BY <1>1 DEF SRow, Row
<1> QED BY <1>2, <1>3 DEF SRow, SDef, Row

LEMMA DefTools ==
    ASSUME NEW d \in SDef, NEW t \in Version, NEW f \in Version \cup {None}
    PROVE  /\ [d EXCEPT !.tools = t, !.fp = f] \in SDef
           /\ [d EXCEPT !.tools = t] \in SDef
  BY DEF SDef, Def

LEMMA Tools ==
    ASSUME Stored, NEW d \in SDef
    PROVE  /\ Listed(d.dir) \in Version /\ Offer(d) \in Version
           /\ Answering(d.dir) \in Dir
           /\ ToolIds(d) \subseteq Version
           /\ d.tools # None => Offer(d) = d.tools /\ d.tools \in ToolIds(d)
  BY CapabilityAssumption DEF Stored, SDef, Def, Offer, Listed, Answering, Content, Dir,
     ToolIds

\* The records of a request: what each kind of step changes, and what it keeps.
LEMMA Fields ==
    ASSUME NEW q \in Carried
    PROVE  /\ q.op \in Op \cup {None} /\ q.pc \in Pc /\ q.seen \in SRow \cup {None}
           /\ q.put \in SRow \cup {None} /\ q.to \in Version \cup {None}
           /\ q.left \in SUBSET Dir /\ q.gone \in BOOLEAN
  BY DEF Carried

LEMMA Resting ==
    /\ Idle \in Carried /\ Idle.pc = "idle" /\ Idle.seen = None /\ Idle.op = None
    /\ Idle.gone = FALSE
    /\ Carries(Idle) /\ Loads(Idle) /\ Writes(Idle)
    /\ Loads(Idle)'
<1>1. Idle \in Carried /\ Idle.pc = "idle" /\ Idle.seen = None /\ Idle.op = None
      /\ Idle.gone = FALSE
  BY DEF Idle, Carried, Pc
<1>2. Carries(Idle) /\ Writes(Idle)
  BY <1>1 DEF Carries, Writes
<1> QED BY <1>1, <1>2 DEF Loads, Loaded
-------------------------------------------------------------------------------
\* What a step of one request has to show about that request.

LEMMA OneMoves ==
    ASSUME Inv, NEW r \in Request, row' = row,
           NEW x \in Carried, req' = [req EXCEPT ![r] = x],
           Carries(x), Loads(x), Writes(x),
           gap' \/ (~gap /\ Alone(r) /\ IF x.pc = "idle" THEN x = Idle /\ Follows(row)' ELSE Undone(x)')
    PROVE  Requests' /\ Quiet'
<1>1. /\ req'[r] = x /\ \A q \in Request \ {r} : req'[q] = req[q]
      /\ req' \in [Request -> Carried]
  BY DEF Inv, Requests
<1>2. ASSUME NEW q \in Request
      PROVE  (Carries(req[q]) /\ Loads(req[q]) /\ Writes(req[q]))'
  <2>1. CASE q = r
    <3>1. Carries(x)' /\ Loads(x)' /\ Writes(x)'
      BY DEF Carries, Loads, Loaded, Writes, Bare, Idle
    <3> QED BY <1>1, <2>1, <3>1 DEF Carries, Loads, Loaded, Writes, Bare, Idle
  <2>2. CASE q # r
    <3>1. Carries(req[q]) /\ Loads(req[q]) /\ Writes(req[q]) /\ req'[q] = req[q]
      BY <1>1, <2>2 DEF Inv, Requests
    <3> QED BY <3>1 DEF Carries, Loads, Loaded, Writes, Bare, Idle
  <2> QED BY <2>1, <2>2
<1>3. Quiet'
  <2> SUFFICES ASSUME ~gap' PROVE /\ (Rest => Follows(row))'
                                  /\ \A q \in Request : (req[q].pc # "idle" =>
                                                         Alone(q) /\ Undone(req[q]))'
    BY DEF Quiet
  <2>1. ~gap /\ Alone(r) /\ IF x.pc = "idle" THEN x = Idle /\ Follows(row)' ELSE Undone(x)'
    OBVIOUS
  <2>2. \A q \in Request \ {r} : req'[q] = Idle
    BY <1>1, <2>1 DEF Alone
  <2>3. Idle' = Idle
    BY DEF Idle
  <2>4. CASE x.pc = "idle"
    <3>1. \A q \in Request : req'[q] = Idle
      BY <1>1, <2>1, <2>2, <2>4
    <3> QED BY <2>1, <2>4, <3>1, Resting
  <2>5. CASE x.pc # "idle"
    <3>1. req'[r] # Idle
      BY <1>1, <2>5, Resting
    <3>2. ~Rest'
      BY <3>1, <2>3 DEF Rest
    <3>3. ASSUME NEW q \in Request, req'[q].pc # "idle" PROVE Alone(q)' /\ Undone(req[q])'
      <4>1. q = r
        BY <2>2, <3>3, Resting
      <4>2. Alone(r)'
        BY <2>2, <2>3 DEF Alone
      <4>3. Undone(req[r])'
        <5>1. Undone(x)'
          BY <2>1, <2>5
        <5> QED BY <1>1, <5>1 DEF Undone, Follows, Active
      <4> QED BY <4>1, <4>2, <4>3
    <3> QED BY <3>2, <3>3
  <2> QED BY <2>4, <2>5
<1> QED BY <1>1, <1>2, <1>3 DEF Requests

LEMMA OneStep ==
    ASSUME Inv, NEW r \in Request, req[r].pc # "idle", row' = row,
           NEW x \in Carried, req' = [req EXCEPT ![r] = x],
           Carries(x), Loads(x), Writes(x),
           gap' \/ (~gap /\ IF x.pc = "idle" THEN x = Idle /\ Follows(row)' ELSE Undone(x)')
    PROVE  Requests' /\ Quiet'
<1>1. ~gap => Alone(r)
  BY DEF Inv, Quiet
<1> QED BY <1>1, OneMoves

LEMMA Returning ==
    ASSUME Inv, NEW r \in Request, req[r].pc # "idle", row' = row, Return(r),
           gap' \/ (~gap /\ Follows(row)')
    PROVE  Requests' /\ Quiet' /\ lock' \in Request \cup {None}
<1>1. req' = [req EXCEPT ![r] = Idle]
  BY DEF Return
<1>2. Requests' /\ Quiet'
  BY <1>1, OneStep, Resting
<1> QED BY <1>2 DEF Return, Unlock, Inv, Stored

\* What the session of r is about to write.
LEMMA PutsStep ==
    ASSUME Inv, NEW r \in Request, NEW new \in SRow, Puts(r, new), row' = row,
           req[r].pc \notin {"idle", "sweep"}, req[r].op \notin {"install", "uninstall"},
           new.state # "sandbox",
           \/ gap'
           \/ /\ ~gap
              /\ IF req[r].op \in Probing
                 THEN index' = {} /\ ~Active /\ (new.state = "active" => req[r].op = "smoke")
                 ELSE Follows(new)'
    PROVE  Requests' /\ Quiet'
<1> DEFINE q == req[r]
<1>0. q \in Carried /\ Carries(q) /\ Loads(q) /\ Writes(q) /\ "commit" \in Pc
  BY DEF Inv, Requests, Pc
<1>1. PICK x : x = [q EXCEPT !.pc = "commit", !.put = new]
  OBVIOUS
<1>2. /\ x \in Carried /\ x.pc = "commit" /\ x.put = new
      /\ x.op = q.op /\ x.seen = q.seen /\ x.to = q.to /\ x.gone = q.gone
  <2>1. q \in Carried /\ "commit" \in Pc /\ new \in SRow
    BY <1>0
  <2> QED BY <2>1, <1>1 DEF Carried
<1>3. req' = [req EXCEPT ![r] = x]
  BY <1>1 DEF Puts, Inv, Requests, Carried
<1>4. new # None
  BY RowParts
<1>5. Carries(x)
  BY <1>0, <1>2, <1>4 DEF Carries
<1>6. Loads(x) /\ Writes(x)
  BY <1>0, <1>2 DEF Carries, Loads, Loaded, Writes
<1>7. gap' \/ (~gap /\ Undone(x)')
  <2> SUFFICES ASSUME ~gap' PROVE Undone(x)'
    OBVIOUS
  <2>1. q.seen = row /\ ~q.gone
    BY DEF Inv, Quiet, Undone
  <2> QED BY <1>2, <2>1 DEF Undone, Active, Probing, Follows
<1> QED BY <1>2, <1>3, <1>5, <1>6, <1>7, OneStep

\* What is known of a request that goes on.
LEMMA Facts ==
    ASSUME Inv, NEW r \in Request, req[r].pc # "idle"
    PROVE  /\ req[r] \in Carried /\ Carries(req[r]) /\ Loads(req[r]) /\ Writes(req[r])
           /\ req[r].seen # None => req[r].seen \in SRow
           /\ req[r].put # None => req[r].put \in SRow
           /\ ~gap => Alone(r) /\ Undone(req[r])
  BY Fields DEF Inv, Requests, Quiet
-------------------------------------------------------------------------------
\* The steps one after the other.

LEMMA Whole ==
    ASSUME Inv, row' = row, Stored', Requests', Quiet'
    PROVE  Inv'
  BY DEF Inv, Bare

LEMMA TakeLockInv ==
    ASSUME Inv, NEW r \in Request, TakeLock(r)
    PROVE  Inv'
<1> DEFINE q == req[r]
<1>0. /\ q \in Carried /\ Carries(q) /\ Loads(q) /\ Writes(q) /\ q.pc = "lock"
      /\ q.seen # None /\ q.seen \in SRow /\ row' = row
      /\ ~gap => Alone(r) /\ Undone(q)
      /\ UNCHANGED <<snap, disk, index, live, gap, begun, failures>>
  <2>1. q.pc = "lock" /\ row' = row /\ UNCHANGED <<snap, disk, index, live, gap, begun, failures>>
    BY DEF TakeLock, durable, runtime
  <2>2. /\ q \in Carried /\ Carries(q) /\ Loads(q) /\ Writes(q)
        /\ q.seen # None => q.seen \in SRow
        /\ ~gap => Alone(r) /\ Undone(q)
    BY <2>1, Facts
  <2>3. q.op # "install"
    BY <2>1, <2>2 DEF Carries, Locked
  <2>4. q.seen # None
    BY <2>1, <2>2, <2>3 DEF Carries
  <2> QED BY <2>1, <2>2, <2>4
<1>1. CASE row = None
  <2>1. Return(r)
    BY <1>1 DEF TakeLock
  <2>2. gap'
    BY <1>0, <1>1 DEF Undone, Inv, Stored
  <2>3. Requests' /\ Quiet' /\ lock' \in Request \cup {None}
    BY <1>0, <2>1, <2>2, Returning
  <2>4. Stored'
    BY <1>0, <2>3 DEF Inv, Stored
  <2> QED BY <1>0, <2>3, <2>4, Whole
<1>2. CASE row # None
  <2>1. /\ req' = [req EXCEPT ![r].pc = "work", ![r].seen = Seen(r), ![r].gone = FALSE]
        /\ lock' = r
    BY <1>2 DEF TakeLock
  <2>2. Seen(r) \in SRow /\ Seen(r) # None
    BY <1>0, <1>2 DEF Inv, Stored, Seen
  <2>3. PICK x : x = [q EXCEPT !.pc = "work", !.seen = Seen(r), !.gone = FALSE]
    OBVIOUS
  <2>4. /\ x \in Carried /\ x.pc = "work" /\ x.seen = Seen(r) /\ x.gone = FALSE
        /\ x.op = q.op /\ x.to = q.to
    <3>1. q \in Carried /\ "work" \in Pc
      BY <1>0 DEF Pc
    <3> QED BY <2>2, <2>3, <3>1 DEF Carried
  <2>5. req' = [req EXCEPT ![r] = x]
    BY <2>1, <2>3 DEF Inv, Requests, Carried
  <2>6. Carries(x)
    BY <1>0, <2>2, <2>4 DEF Carries, Locked
  <2>7. Loads(x) /\ Writes(x)
    BY <1>0, <1>2, <2>4 DEF Loads, Loaded, Writes, Seen
  <2>8. gap' \/ (~gap /\ Undone(x)')
    <3> SUFFICES ASSUME ~gap' PROVE ~gap /\ Undone(x)'
      OBVIOUS
    <3>1. ~gap /\ Undone(q)
      BY <1>0 DEF Inv, Stored
    <3> QED BY <1>0, <2>4, <3>1 DEF Undone, Follows, Seen
  <2>9. Requests' /\ Quiet'
    <3>1. x.pc # "idle" /\ q.pc # "idle"
      BY <1>0, <2>4
    <3> QED BY <1>0, <2>4, <2>5, <2>6, <2>7, <2>8, <3>1, OneStep
  <2>10. Stored'
    BY <1>0, <2>1 DEF Inv, Stored
  <2> QED BY <1>0, <2>9, <2>10, Whole
<1> QED BY <1>1, <1>2

\* What a request at work knows.
LEMMA AtWork ==
    ASSUME Inv, NEW r \in Request, req[r].pc = "work", req[r].op # "install"
    PROVE  /\ req[r].seen \in SRow /\ req[r].seen # None
           /\ req[r].op \in Op
           /\ req[r].op \in {"upgrade", "rollback"} => req[r].to \in Version
           /\ ~gap => /\ Alone(r) /\ req[r].seen = row /\ ~req[r].gone
                      /\ Follows(req[r].seen)
<1>1. /\ Carries(req[r])
      /\ req[r].seen # None => req[r].seen \in SRow
      /\ ~gap => Alone(r) /\ Undone(req[r])
  BY Facts
<1> QED BY <1>1 DEF Carries, Undone

LEMMA RefuseInv ==
    ASSUME Inv, NEW r \in Request, Refuse(r)
    PROVE  Inv'
<1>1. /\ req[r].pc = "work" /\ req[r].op # "install" /\ Return(r) /\ row' = row
      /\ UNCHANGED <<snap, disk, index, live, gap, begun, failures>>
  BY DEF Refuse, durable, runtime
<1>2. gap' \/ (~gap /\ Follows(row)')
  BY <1>1, AtWork DEF Follows
<1>3. Requests' /\ Quiet' /\ lock' \in Request \cup {None}
  BY <1>1, <1>2, Returning
<1>4. Stored'
  BY <1>1, <1>3 DEF Inv, Stored
<1> QED BY <1>1, <1>3, <1>4, Whole

LEMMA FailureCounts == ASSUME Inv, Failure \/ UNCHANGED failures PROVE failures' \in 0 .. MaxFailures
  BY CapabilityAssumption DEF Inv, Stored, Failure

LEMMA ProbeInv ==
    ASSUME Inv, NEW r \in Request, Probe(r)
    PROVE  Inv'
<1> DEFINE op == req[r].op
           cap == req[r].seen
           d == cap.def.dir
<1>1. /\ req[r].pc = "work" /\ op \in Probing /\ cap.state # "active"
      /\ row' = row /\ UNCHANGED <<snap, disk, index, lock, gap, begun>>
  BY DEF Probe, durable, Probing
<1>2. /\ cap \in SRow /\ op \notin {"install", "uninstall"}
      /\ ~gap => index = {} /\ ~Active
  <2>1. op \notin {"install", "uninstall"}
    BY <1>1 DEF Probing
  <2>2. /\ cap \in SRow
        /\ ~gap => cap = row /\ Follows(cap)
    BY <1>1, <2>1, AtWork
  <2> QED BY <1>1, <2>1, <2>2 DEF Follows, Active
<1>3. /\ cap.def \in SDef /\ cap.def.ver \in Version /\ cap.def.fp \in Version \cup {None}
      /\ cap.state \in CapabilityState
  BY <1>2, RowParts
<1>4. Listed(d) \in Version /\ Answering(d) \in Dir
  BY <1>3, Tools DEF Inv
<1>5. failures' \in 0 .. MaxFailures /\ live' \in Dir \cup {None}
  <2>1. Failure \/ UNCHANGED failures
    BY DEF Probe
  <2>2. live' = live \/ live' = Answering(d)
    BY DEF Probe
  <2> QED BY <1>4, <2>1, <2>2, FailureCounts DEF Inv, Stored
<1>6. \E new \in SRow :
         /\ Puts(r, new) /\ new.state # "sandbox"
         /\ new.state = "active" => op = "smoke"
  <2>1. PICK f : f = IF op = "verify" THEN cap.def.ver ELSE cap.def.fp
    OBVIOUS
  <2>2. PICK def : def = [cap.def EXCEPT !.tools = Listed(d), !.fp = f]
    OBVIOUS
  <2>3. def \in SDef
    BY <1>3, <1>4, <2>1, <2>2, DefTools
  <2>4. CASE Puts(r, [state |-> Passed(op),
                      def |-> [cap.def EXCEPT
                                 !.tools = Listed(d),
                                 !.fp = IF op = "verify" THEN cap.def.ver ELSE @]])
    <3>1. Puts(r, [state |-> Passed(op), def |-> def])
      BY <2>1, <2>2, <2>4, <1>3 DEF SDef, Def
    <3>2. Passed(op) \in CapabilityState /\ Passed(op) # "sandbox"
      BY DEF Passed, CapabilityState
    <3>3. [state |-> Passed(op), def |-> def] \in SRow
      BY <2>3, <3>2, RowOf
    <3> QED BY <3>1, <3>2, <3>3 DEF Passed
  <2>5. CASE Puts(r, [cap EXCEPT !.state = "needs_review"])
    BY <1>2, <2>5, RowWithState DEF CapabilityState
  <2> QED BY <2>4, <2>5 DEF Probe
<1>7. Requests' /\ Quiet'
  <2>1. PICK new \in SRow : /\ Puts(r, new) /\ new.state # "sandbox"
                            /\ new.state = "active" => op = "smoke"
    BY <1>6
  <2>2. gap' \/ (~gap /\ index' = {} /\ ~Active)
    BY <1>1, <1>2 DEF Inv, Stored
  <2> QED BY <1>1, <1>2, <2>1, <2>2, PutsStep
<1>8. Stored'
  BY <1>1, <1>5 DEF Inv, Stored
<1> QED BY <1>1, <1>7, <1>8, Whole

LEMMA SmokeCallFailsInv ==
    ASSUME Inv, NEW r \in Request, SmokeCallFails(r)
    PROVE  Inv'
<1> DEFINE cap == req[r].seen
           d == cap.def.dir
<1>1. /\ req[r].pc = "work" /\ req[r].op = "smoke" /\ cap.state # "active"
      /\ row' = row /\ UNCHANGED <<snap, disk, index, lock, gap, begun>>
      /\ Failure /\ live' = Answering(d)
  BY DEF SmokeCallFails, durable, Work, Doing, Refuses
<1>2. cap \in SRow /\ (~gap => index = {} /\ ~Active)
  <2>1. /\ cap \in SRow
        /\ ~gap => cap = row /\ Follows(cap)
    BY <1>1, AtWork
  <2> QED BY <1>1, <2>1 DEF Follows, Active
<1>3. cap.def \in SDef /\ Listed(d) \in Version /\ Answering(d) \in Dir
  BY <1>2, RowParts, Tools DEF Inv
<1>4. PICK new \in SRow : Puts(r, new) /\ new.state = "needs_review"
  <2>1. [cap.def EXCEPT !.tools = Listed(d)] \in SDef
    BY <1>3, DefTools
  <2>2. [state |-> "needs_review", def |-> [cap.def EXCEPT !.tools = Listed(d)]] \in SRow
    BY <2>1, RowOf DEF CapabilityState
  <2> QED BY <2>2 DEF SmokeCallFails
<1>5. Requests' /\ Quiet'
  <2>1. gap' \/ (~gap /\ index' = {} /\ ~Active)
    BY <1>1, <1>2 DEF Inv, Stored
  <2> QED BY <1>1, <1>4, <2>1, PutsStep DEF Probing
<1>6. Stored'
  BY <1>1, <1>3, FailureCounts DEF Inv, Stored
<1> QED BY <1>1, <1>5, <1>6, Whole

LEMMA SkipProbeInv ==
    ASSUME Inv, NEW r \in Request, SkipProbe(r)
    PROVE  Inv'
<1> DEFINE q == req[r]
<1>1. /\ q.pc = "work" /\ q.op = "activate"
      /\ row' = row /\ UNCHANGED <<snap, disk, index, live, lock, gap, begun, failures>>
      /\ req' = [req EXCEPT ![r].op = "enable", ![r].pc = "lock"]
  BY DEF SkipProbe, durable, runtime, Work, Doing
<1>2. /\ q \in Carried /\ Carries(q) /\ Loads(q) /\ Writes(q)
      /\ ~gap => Alone(r) /\ Undone(q)
  BY <1>1, Facts
<1>3. PICK x : x = [q EXCEPT !.op = "enable", !.pc = "lock"]
  OBVIOUS
<1>4. /\ x \in Carried /\ x.op = "enable" /\ x.pc = "lock"
      /\ x.seen = q.seen /\ x.gone = q.gone
  <2>1. "enable" \in Op /\ "lock" \in Pc
    BY DEF Op, Locked, Pc
  <2> QED BY <1>2, <1>3, <2>1 DEF Carried
<1>5. req' = [req EXCEPT ![r] = x]
  BY <1>1, <1>3 DEF Inv, Requests, Carried
<1>6. Carries(x)
  BY <1>1, <1>2, <1>4 DEF Carries, Op, Locked
<1>7. Loads(x) /\ Writes(x)
  BY <1>1, <1>2, <1>4 DEF Loads, Loaded, Writes
<1>8. gap' \/ (~gap /\ Undone(x)')
  BY <1>1, <1>2, <1>4 DEF Undone, Follows, Inv, Stored
<1>9. Requests' /\ Quiet'
  BY <1>1, <1>4, <1>5, <1>6, <1>7, <1>8, OneStep
<1>10. Stored'
  BY <1>1 DEF Inv, Stored
<1> QED BY <1>1, <1>9, <1>10, Whole

LEMMA EnableMissingInv ==
    ASSUME Inv, NEW r \in Request, EnableMissing(r)
    PROVE  Inv'
<1> DEFINE cap == req[r].seen
<1>1. /\ req[r].pc = "work" /\ req[r].op = "enable" /\ disk[cap.def.dir] = "absent"
      /\ row' = row /\ UNCHANGED <<snap, disk, live, lock, gap, begun, failures>>
      /\ index' = IF Doubted(cap) = cap THEN index ELSE index \ ToolIds(cap.def)
      /\ Puts(r, Doubted(cap))
  BY DEF EnableMissing, durable, Work, Doing
<1>2. cap \in SRow /\ (~gap => Alone(r) /\ Follows(cap))
  BY <1>1, AtWork
<1>3. PICK new \in SRow : Puts(r, new) /\ new.state \in {"disabled", "needs_review"}
  BY <1>1, <1>2, RowWithState DEF Doubted, CapabilityState
<1>4. gap' \/ (~gap /\ Follows(new)')
  <2>1. ~gap => index' = {}
    BY <1>1, <1>2 DEF Follows
  <2> QED BY <1>1, <1>3, <2>1 DEF Follows, Inv, Stored
<1>5. Requests' /\ Quiet'
  BY <1>1, <1>3, <1>4, PutsStep DEF Probing
<1>6. Stored'
  BY <1>1 DEF Inv, Stored
<1> QED BY <1>1, <1>5, <1>6, Whole

\* Registering a definition leaves its tools, and no others, in an empty index.
LEMMA Activating ==
    ASSUME Inv, NEW d \in SDef, Activate(d)
    PROVE  /\ disk[d.dir] = "ok" /\ index' = index \cup {Offer(d)}
           /\ index' \subseteq Version /\ live' \in Dir \cup {None}
           /\ index \subseteq {d.tools} /\ d.tools # None => index' = {d.tools}
<1>1. disk[d.dir] = "ok" /\ index' = index \cup {Offer(d)}
      /\ (live' = Answering(d.dir) \/ live' = live)
  BY DEF Activate
<1>2. Offer(d) \in Version /\ Answering(d.dir) \in Dir
      /\ (d.tools # None => Offer(d) = d.tools)
  BY Tools DEF Inv
<1> QED BY <1>1, <1>2 DEF Inv, Stored

\* Withdrawing the definition that the index follows leaves nothing.
LEMMA Withdrawing ==
    ASSUME Inv, NEW c \in SRow, Withdraw(c.def)
    PROVE  /\ index' \subseteq Version /\ live' \in Dir \cup {None}
           /\ Follows(c) => index' = {}
           /\ Follows(c) /\ c.state = "active" => c.def.tools # None
<1>1. index' = index \ ToolIds(c.def) /\ live' = None
  BY DEF Withdraw
<1>2. ASSUME Follows(c), c.state = "active" PROVE c.def.tools # None
  BY <1>2, RowParts, CapabilityAssumption DEF Follows, Inv, Stored
<1>3. Follows(c) => index' = {}
  BY <1>1, <1>2 DEF Follows, ToolIds
<1> QED BY <1>1, <1>2, <1>3 DEF Inv, Stored

LEMMA EnableRegisterInv ==
    ASSUME Inv, NEW r \in Request, EnableRegister(r)
    PROVE  Inv'
<1> DEFINE cap == req[r].seen
<1>1. /\ req[r].pc = "work" /\ req[r].op = "enable" /\ row' = row
      /\ UNCHANGED <<snap, disk, lock, begun, failures>>
      /\ Activate(cap.def)
      /\ Puts(r, [state |-> "active", def |-> [cap.def EXCEPT !.noted = {Offer(cap.def)}]])
      /\ gap' = (gap \/ cap.def.tools = None)
  BY DEF EnableRegister, durable, Work, Doing
<1>2. cap \in SRow /\ (~gap => Alone(r) /\ Follows(cap))
  BY <1>1, AtWork
<1>3. /\ cap.def \in SDef /\ Offer(cap.def) \in Version
      /\ disk[cap.def.dir] = "ok" /\ index' = index \cup {Offer(cap.def)}
      /\ index' \subseteq Version /\ live' \in Dir \cup {None}
      /\ index \subseteq {cap.def.tools} /\ cap.def.tools # None => index' = {cap.def.tools}
  BY <1>1, <1>2, RowParts, Tools, Activating DEF Inv
<1>4. PICK new \in SRow :
         /\ Puts(r, new) /\ new.state = "active" /\ new # None
         /\ new.def.dir = cap.def.dir /\ new.def.tools = cap.def.tools
  <2>1. PICK d : d = [cap.def EXCEPT !.noted = {Offer(cap.def)}]
    OBVIOUS
  <2>2. d \in SDef /\ d.dir = cap.def.dir /\ d.tools = cap.def.tools
    BY <1>3, <2>1, DefNoted
  <2>3. [state |-> "active", def |-> d] \in SRow /\ [state |-> "active", def |-> d] # None
    BY <2>2, RowOf, RowParts DEF CapabilityState
  <2> QED BY <1>1, <2>1, <2>2, <2>3
<1>5. gap' \/ (~gap /\ Follows(new)')
  <2> SUFFICES ASSUME ~gap' PROVE ~gap /\ Follows(new)'
    OBVIOUS
  <2>1. ~gap /\ cap.def.tools # None
    BY <1>1 DEF Inv, Stored
  <2>2. index' = {new.def.tools}
    BY <1>2, <1>3, <1>4, <2>1 DEF Follows
  <2> QED BY <1>1, <1>3, <1>4, <2>1, <2>2 DEF Follows
<1>6. Requests' /\ Quiet'
  BY <1>1, <1>4, <1>5, PutsStep DEF Probing
<1>7. Stored'
  BY <1>1, <1>3 DEF Inv, Stored
<1> QED BY <1>1, <1>6, <1>7, Whole

LEMMA EnableFailsInv ==
    ASSUME Inv, NEW r \in Request, EnableFails(r)
    PROVE  Inv'
<1> DEFINE cap == req[r].seen
<1>1. /\ req[r].pc = "work" /\ req[r].op = "enable" /\ row' = row
      /\ UNCHANGED <<snap, disk, lock, begun, gap, index, live>>
      /\ disk[cap.def.dir] # "absent" /\ ~Refuses(r)
      /\ Failure \/ UNCHANGED failures
      /\ Puts(r, cap)
  BY DEF EnableFails, durable, Work, Doing, CannotActivate
<1>2. cap \in SRow /\ (~gap => Alone(r) /\ Follows(cap))
  BY <1>1, AtWork
<1>3. cap.state # "sandbox"
  BY <1>1 DEF Refuses
<1>4. PICK new \in SRow : new = cap
  BY <1>2
<1>5. gap' \/ (~gap /\ Follows(new)')
  BY <1>1, <1>2, <1>4 DEF Follows, Inv, Stored
<1>6. Requests' /\ Quiet'
  BY <1>1, <1>3, <1>4, <1>5, PutsStep DEF Probing
<1>7. Stored'
  BY <1>1, FailureCounts DEF Inv, Stored
<1> QED BY <1>1, <1>6, <1>7, Whole

LEMMA DisableInv ==
    ASSUME Inv, NEW r \in Request, Disable(r)
    PROVE  Inv'
<1> DEFINE cap == req[r].seen
<1>1. /\ req[r].pc = "work" /\ req[r].op = "disable" /\ row' = row
      /\ UNCHANGED <<snap, disk, lock, begun, gap, failures>>
      /\ Withdraw(cap.def)
      /\ Puts(r, [cap EXCEPT !.state = "disabled"])
  BY DEF Disable, durable, Work, Doing
<1>2. cap \in SRow /\ (~gap => Alone(r) /\ Follows(cap))
  BY <1>1, AtWork
<1>3. /\ index' \subseteq Version /\ live' \in Dir \cup {None}
      /\ ~gap => index' = {}
  BY <1>1, <1>2, Withdrawing
<1>4. PICK new \in SRow : Puts(r, new) /\ new.state = "disabled"
  BY <1>1, <1>2, RowWithState DEF CapabilityState
<1>5. gap' \/ (~gap /\ Follows(new)')
  BY <1>1, <1>3, <1>4 DEF Follows, Inv, Stored
<1>6. Requests' /\ Quiet'
  BY <1>1, <1>4, <1>5, PutsStep DEF Probing
<1>7. Stored'
  BY <1>1, <1>3 DEF Inv, Stored
<1> QED BY <1>1, <1>6, <1>7, Whole

LEMMA InstallsInto ==
    ASSUME Inv, NEW d \in Dir, NpmInstalls(d) \/ NpmFails(d)
    PROVE  /\ disk' \in [Dir -> {"absent", "bad", "ok"}]
           /\ \A e \in Dir : disk[e] # "absent" => disk'[e] # "absent"
  BY DEF Inv, Stored, NpmInstalls, NpmFails

LEMMA UpgradeInstallInv ==
    ASSUME Inv, NEW r \in Request, UpgradeInstall(r)
    PROVE  Inv'
<1> DEFINE q == req[r]
           v == q.to
<1>1. /\ q.pc = "work" /\ q.op = "upgrade" /\ row' = row /\ ~Refuses(r)
      /\ UNCHANGED <<snap, index, live, gap, begun>>
  BY DEF UpgradeInstall, runtime, Work, Doing
<1>2. /\ q \in Carried /\ Carries(q) /\ Loads(q) /\ Writes(q)
      /\ ~gap => Alone(r) /\ Undone(q)
  BY <1>1, Facts
<1>3. /\ q.seen \in SRow /\ q.seen # None /\ v \in Version /\ v \in Dir
      /\ v # q.seen.def.ver
  BY <1>1, AtWork DEF Refuses, Dir
<1>4. NpmInstalls(v) \/ NpmFails(v)
  BY DEF UpgradeInstall
<1>5. /\ disk' \in [Dir -> {"absent", "bad", "ok"}]
      /\ \A e \in Dir : disk[e] # "absent" => disk'[e] # "absent"
  BY <1>3, <1>4, InstallsInto
<1>6. gap' \/ (~gap /\ Follows(row)')
  <2> SUFFICES ASSUME ~gap' PROVE ~gap /\ Follows(row)'
    OBVIOUS
  <2>1. ~gap /\ q.seen = row /\ Follows(row)
    BY <1>1, <1>2 DEF Undone
  <2>2. row.def.dir \in Dir
    BY <1>3, <2>1, RowParts
  <2> QED BY <1>1, <1>5, <2>1, <2>2 DEF Follows
<1>7. CASE NpmInstalls(v) /\ Proceed(r, "staged") /\ UNCHANGED <<lock, failures>>
  <2>1. PICK x : x = [q EXCEPT !.pc = "staged"]
    OBVIOUS
  <2>2. /\ x \in Carried /\ x.pc = "staged" /\ x.put = q.put
        /\ x.op = q.op /\ x.seen = q.seen /\ x.to = q.to /\ x.gone = q.gone
    <3>1. "staged" \in Pc /\ q \in Carried
      BY <1>2 DEF Pc
    <3> QED BY <2>1, <3>1 DEF Carried
  <2>3. req' = [req EXCEPT ![r] = x]
    BY <1>7, <2>1 DEF Proceed, Inv, Requests, Carried
  <2>4. Carries(x) /\ Loads(x) /\ Writes(x)
    BY <1>1, <1>2, <1>3, <2>2 DEF Carries, Loads, Loaded, Writes
  <2>5. gap' \/ (~gap /\ Undone(x)')
    BY <1>1, <1>2, <1>6, <2>2 DEF Undone, Follows
  <2>6. Requests' /\ Quiet'
    BY <1>1, <2>2, <2>3, <2>4, <2>5, OneStep
  <2>7. Stored'
    BY <1>1, <1>5, <1>7 DEF Inv, Stored
  <2> QED BY <1>1, <2>6, <2>7, Whole
<1>8. CASE NpmFails(v) /\ Return(r)
  <2>1. Requests' /\ Quiet' /\ lock' \in Request \cup {None}
    BY <1>1, <1>6, <1>8, Returning
  <2>2. failures' \in 0 .. MaxFailures
    BY <1>8, FailureCounts DEF NpmFails
  <2>3. Stored'
    BY <1>1, <1>5, <2>1, <2>2 DEF Inv, Stored
  <2> QED BY <1>1, <2>1, <2>3, Whole
<1> QED BY <1>7, <1>8 DEF UpgradeInstall

\* The row with the definition of a staged version.
NextVersion(c, v) == [c EXCEPT !.def = [@ EXCEPT !.ver = v, !.dir = v, !.tools = v, !.fp = v]]

LEMMA Upgraded ==
    ASSUME NEW c \in SRow, NEW v \in Version, NEW n, n = NextVersion(c, v)
    PROVE  /\ n \in SRow /\ n.state = c.state /\ n.def.tools = v /\ n.def.dir = v
<1> DEFINE d == [c.def EXCEPT !.ver = v, !.dir = v, !.tools = v, !.fp = v]
<1>1. c \in Row /\ c.def \in Def
  BY DEF SRow, SDef
<1>2. d \in Def /\ d.tools = v /\ d.dir = v /\ d.ver = v
  BY <1>1 DEF Def, Dir
<1>3. n = [c EXCEPT !.def = d]
  BY <1>1 DEF NextVersion
<1> HIDE DEF d
<1>4. n \in SRow /\ n.state = c.state /\ n.def = d
  BY <1>1, <1>2, <1>3 DEF SRow, SDef, Row
<1> QED BY <1>2, <1>4

\* What a request that installs or switches a version knows.
LEMMA AtSwitch ==
    ASSUME Inv, NEW r \in Request, req[r].pc \in {"staged", "swap"}
    PROVE  /\ req[r].seen \in SRow /\ req[r].seen # None
           /\ req[r].op = "upgrade" => /\ req[r].to \in Version
                                       /\ req[r].to # req[r].seen.def.dir
           /\ req[r].pc = "swap" =>
                 /\ req[r].put \in SRow /\ req[r].put # None
                 /\ req[r].put.state = "active" /\ req[r].seen.state = "active"
           /\ req[r].pc = "staged" => req[r].op = "upgrade"
           /\ ~gap => Alone(r) /\ Undone(req[r]) /\ req[r].seen = row
<1>1. /\ Carries(req[r]) /\ req[r] \in Carried
      /\ req[r].seen # None => req[r].seen \in SRow
      /\ req[r].put # None => req[r].put \in SRow
      /\ ~gap => Alone(r) /\ Undone(req[r])
  BY Facts
<1>2. req[r].op # "install"
  BY <1>1 DEF Carries
<1>3. req[r].seen # None /\ req[r].seen \in SRow
  BY <1>1, <1>2 DEF Carries
<1>4. req[r].op = "upgrade" => req[r].to \in Version /\ req[r].to # req[r].seen.def.ver
  BY <1>1 DEF Carries
<1>5. req[r].seen.def.dir = Base \/ req[r].seen.def.dir = req[r].seen.def.ver
  BY <1>3, RowParts
<1> QED BY <1>1, <1>3, <1>4, <1>5, CapabilityAssumption DEF Carries, Undone

LEMMA UpgradeProbeInv ==
    ASSUME Inv, NEW r \in Request, UpgradeProbe(r)
    PROVE  Inv'
<1> DEFINE q == req[r]
           cap == q.seen
           v == q.to
<1>1. /\ q.pc = "staged" /\ q.op = "upgrade" /\ row' = row
      /\ UNCHANGED <<snap, gap, begun>>
  BY DEF UpgradeProbe, Doing
<1>2. /\ q \in Carried /\ Carries(q) /\ Loads(q) /\ Writes(q)
      /\ cap \in SRow /\ cap # None /\ v \in Version /\ v # cap.def.dir
      /\ ~gap => Alone(r) /\ Undone(q) /\ cap = row /\ Follows(cap)
  BY <1>1, AtSwitch, Facts DEF Undone
<1>3. PICK n : n = [cap EXCEPT !.def = [@ EXCEPT !.ver = v, !.dir = v, !.tools = v, !.fp = v]]
  OBVIOUS
<1>4. /\ n \in SRow /\ n.state = cap.state /\ n.def.tools = v /\ n.def.dir = v /\ n # None
      /\ \A s \in CapabilityState :
            /\ [n EXCEPT !.state = s, !.def.noted = {}] \in SRow
            /\ [n EXCEPT !.state = s, !.def.noted = {}].state = s
  <2>1. PICK c \in SRow, w \in Version : c = cap /\ w = v
    BY <1>2
  <2>2. n = NextVersion(c, w)
    BY <1>3, <2>1 DEF NextVersion
  <2>3. n \in SRow /\ n.state = c.state /\ n.def.tools = w /\ n.def.dir = w
    BY <2>2, Upgraded
  <2>4. n # None
    BY <2>3, RowParts
  <2> QED BY <2>1, <2>3, <2>4, RowReset
<1>5. CASE /\ cap.state = "active"
           /\ Withdraw(cap.def)
           /\ req' = [req EXCEPT ![r].pc = "swap", ![r].put = n]
           /\ UNCHANGED <<disk, lock, failures>>
  <2>1. PICK x : x = [q EXCEPT !.pc = "swap", !.put = n]
    OBVIOUS
  <2>2. /\ x \in Carried /\ x.pc = "swap" /\ x.put = n
        /\ x.op = q.op /\ x.seen = q.seen /\ x.to = q.to /\ x.gone = q.gone
    <3>1. "swap" \in Pc /\ q \in Carried /\ n \in SRow
      BY <1>2, <1>4 DEF Pc
    <3> QED BY <2>1, <3>1 DEF Carried
  <2>3. req' = [req EXCEPT ![r] = x]
    BY <1>5, <2>1 DEF Inv, Requests, Carried
  <2>4. Carries(x) /\ Loads(x) /\ Writes(x)
    BY <1>1, <1>2, <1>4, <1>5, <2>2 DEF Carries, Loads, Loaded, Writes
  <2>5. /\ index' \subseteq Version /\ live' \in Dir \cup {None}
        /\ Follows(cap) => index' = {} /\ cap.def.tools # None
    BY <1>2, <1>5, Withdrawing
  <2>6. gap' \/ (~gap /\ Undone(x)')
    BY <1>1, <1>2, <2>2, <2>5 DEF Undone
  <2>7. Requests' /\ Quiet'
    BY <1>1, <2>2, <2>3, <2>4, <2>6, OneStep
  <2>8. Stored'
    BY <1>1, <1>5, <2>5 DEF Inv, Stored
  <2> QED BY <1>1, <2>7, <2>8, Whole
<1>6. CASE /\ cap.state # "active"
           /\ Puts(r, [n EXCEPT !.state = Kept(cap.state), !.def.noted = {}])
           /\ UNCHANGED <<disk, runtime, lock, failures>>
  <2>1. Kept(cap.state) \in {"disabled", "verified"}
    BY <1>6 DEF Kept
  <2>2. PICK new \in SRow : Puts(r, new) /\ new.state \in {"disabled", "verified"}
    BY <1>4, <1>6, <2>1 DEF CapabilityState
  <2>3. gap' \/ (~gap /\ Follows(new)')
    BY <1>1, <1>2, <1>6, <2>2 DEF Follows, runtime
  <2>4. Requests' /\ Quiet'
    BY <1>1, <2>2, <2>3, PutsStep DEF Probing
  <2>5. Stored'
    BY <1>1, <1>6 DEF Inv, Stored, runtime
  <2> QED BY <1>1, <2>4, <2>5, Whole
<1>7. CASE /\ Failure
           /\ disk' = [disk EXCEPT ![v] = "absent"]
           /\ Return(r)
           /\ UNCHANGED runtime
  <2>1. /\ disk' \in [Dir -> {"absent", "bad", "ok"}]
        /\ disk'[cap.def.dir] = disk[cap.def.dir]
    <3>1. v \in Dir /\ cap.def.dir \in Dir
      BY <1>2, RowParts DEF Dir
    <3> QED BY <1>2, <1>7, <3>1 DEF Inv, Stored
  <2>2. gap' \/ (~gap /\ Follows(row)')
    BY <1>1, <1>2, <1>7, <2>1 DEF Follows, runtime
  <2>3. Requests' /\ Quiet' /\ lock' \in Request \cup {None}
    BY <1>1, <1>7, <2>2, Returning
  <2>4. Stored'
    BY <1>1, <1>7, <2>1, <2>3, FailureCounts DEF Inv, Stored, runtime
  <2> QED BY <1>1, <2>3, <2>4, Whole
<1> QED BY <1>3, <1>5, <1>6, <1>7 DEF UpgradeProbe

LEMMA UpgradeSwapInv ==
    ASSUME Inv, NEW r \in Request, UpgradeSwap(r)
    PROVE  Inv'
<1> DEFINE n == req[r].put
<1>1. /\ req[r].pc = "swap" /\ req[r].op = "upgrade" /\ row' = row
      /\ UNCHANGED <<snap, disk, lock, gap, begun, failures>>
      /\ Activate(n.def)
      /\ Puts(r, [n EXCEPT !.def.noted = {Offer(n.def)}])
  BY DEF UpgradeSwap, Doing, durable
<1>2. /\ n \in SRow /\ n.state = "active" /\ n # None
      /\ n.def.tools # None
      /\ ~gap => index = {}
  <2>1. n.def.tools = req[r].to /\ req[r].to # None
    BY <1>1, Facts, CapabilityAssumption DEF Carries
  <2> QED BY <1>1, <2>1, AtSwitch DEF Undone
<1>3. /\ disk[n.def.dir] = "ok" /\ index' \subseteq Version /\ live' \in Dir \cup {None}
      /\ ~gap => index' = {n.def.tools}
      /\ Offer(n.def) \in Version
  <2>1. n.def \in SDef
    BY <1>2, RowParts
  <2> QED BY <1>1, <1>2, <2>1, Activating, Tools DEF Inv
<1>4. PICK new \in SRow :
         /\ Puts(r, new) /\ new.state = "active" /\ new # None
         /\ new.def.tools = n.def.tools /\ new.def.dir = n.def.dir
  <2>1. PICK new : new = [n EXCEPT !.def.noted = {Offer(n.def)}]
    OBVIOUS
  <2>2. /\ new \in SRow /\ new.state = n.state
        /\ new.def.tools = n.def.tools /\ new.def.dir = n.def.dir
    BY <1>2, <1>3, <2>1, RowNoted
  <2>3. new # None
    BY <2>2, RowParts
  <2> QED BY <1>1, <1>2, <2>1, <2>2, <2>3
<1>5. gap' \/ (~gap /\ Follows(new)')
  BY <1>1, <1>3, <1>4 DEF Follows, Inv, Stored
<1>6. Requests' /\ Quiet'
  BY <1>1, <1>4, <1>5, PutsStep DEF Probing
<1>7. Stored'
  BY <1>1, <1>3 DEF Inv, Stored
<1> QED BY <1>1, <1>6, <1>7, Whole

LEMMA UpgradeBackInv ==
    ASSUME Inv, NEW r \in Request, UpgradeBack(r)
    PROVE  Inv'
<1> DEFINE cap == req[r].seen
           v == req[r].to
<1>1. /\ req[r].pc = "swap" /\ req[r].op = "upgrade" /\ row' = row
      /\ UNCHANGED <<snap, lock, begun>> /\ Failure
      /\ disk' = [disk EXCEPT ![v] = "absent"]
      /\ Puts(r, cap)
      /\ \/ Activate(cap.def) /\ UNCHANGED gap
         \/ UNCHANGED runtime /\ gap' = TRUE
  BY DEF UpgradeBack, Doing
<1>2. /\ cap \in SRow /\ cap # None /\ cap.state = "active"
      /\ v \in Version /\ v # cap.def.dir
      /\ ~gap => index = {} /\ cap.def.tools # None
  BY <1>1, AtSwitch DEF Undone
<1>3. /\ disk' \in [Dir -> {"absent", "bad", "ok"}]
      /\ disk'[cap.def.dir] = disk[cap.def.dir]
  <2>1. v \in Dir /\ cap.def.dir \in Dir
    BY <1>2, RowParts DEF Dir
  <2> QED BY <1>1, <1>2, <2>1 DEF Inv, Stored
<1>4. /\ index' \subseteq Version /\ live' \in Dir \cup {None}
      /\ ~gap' => ~gap /\ index' = {cap.def.tools} /\ disk'[cap.def.dir] = "ok"
  <2>1. cap.def \in SDef
    BY <1>2, RowParts
  <2>2. CASE Activate(cap.def) /\ UNCHANGED gap
    BY <1>2, <1>3, <2>1, <2>2, Activating
  <2>3. CASE UNCHANGED runtime /\ gap' = TRUE
    BY <2>3 DEF runtime, Inv, Stored
  <2> QED BY <1>1, <2>2, <2>3
<1>5. PICK new \in SRow : new = cap
  BY <1>2
<1>6. gap' \/ (~gap /\ Follows(new)')
  BY <1>2, <1>4, <1>5 DEF Follows
<1>7. Requests' /\ Quiet'
  BY <1>1, <1>2, <1>5, <1>6, PutsStep DEF Probing
<1>8. Stored'
  <2>1. gap' \in BOOLEAN
    BY <1>1 DEF Inv, Stored
  <2> QED BY <1>1, <1>3, <1>4, <2>1, FailureCounts DEF Inv, Stored
<1> QED BY <1>1, <1>7, <1>8, Whole

LEMMA RollbackInv ==
    ASSUME Inv, NEW r \in Request, Rollback(r)
    PROVE  Inv'
<1> DEFINE q == req[r]
           cap == q.seen
<1>1. /\ q.pc = "work" /\ q.op = "rollback" /\ row' = row /\ ~Refuses(r)
      /\ UNCHANGED <<snap, disk, lock, gap, begun, failures>>
  BY DEF Rollback, Work, Doing, durable
<1>2. /\ q \in Carried /\ Carries(q) /\ Loads(q) /\ Writes(q)
      /\ cap \in SRow /\ cap # None /\ q.to \in Version
      /\ ~gap => Alone(r) /\ Undone(q) /\ cap = row /\ ~q.gone /\ Follows(cap)
  BY <1>1, AtWork, Facts
<1>3. snap[q.to] \in SDef
  BY <1>1, <1>2 DEF Refuses, Inv, Stored
<1>4. PICK n : n = [state |-> Kept(cap.state), def |-> snap[q.to]]
  OBVIOUS
<1>5. /\ n \in SRow /\ n # None /\ n.state # "sandbox"
      /\ n.state = "active" <=> cap.state = "active"
  <2>1. Kept(cap.state) \in CapabilityState \ {"sandbox"} /\ n.state = Kept(cap.state)
    BY <1>4 DEF Kept, CapabilityState
  <2> QED BY <1>3, <1>4, <2>1, RowOf, RowParts DEF Kept
<1>6. CASE /\ cap.state = "active" /\ Withdraw(cap.def)
           /\ req' = [req EXCEPT ![r].pc = "swap", ![r].put = n]
  <2>1. PICK x : x = [q EXCEPT !.pc = "swap", !.put = n]
    OBVIOUS
  <2>2. /\ x \in Carried /\ x.pc = "swap" /\ x.put = n
        /\ x.op = q.op /\ x.seen = q.seen /\ x.to = q.to /\ x.gone = q.gone
    <3>1. "swap" \in Pc /\ q \in Carried /\ n \in SRow
      BY <1>2, <1>5 DEF Pc
    <3> QED BY <2>1, <3>1 DEF Carried
  <2>3. req' = [req EXCEPT ![r] = x]
    BY <1>6, <2>1 DEF Inv, Requests, Carried
  <2>4. Carries(x) /\ Loads(x) /\ Writes(x)
    BY <1>1, <1>2, <1>5, <1>6, <2>2 DEF Carries, Loads, Loaded, Writes
  <2>5. /\ index' \subseteq Version /\ live' \in Dir \cup {None}
        /\ Follows(cap) => index' = {} /\ cap.def.tools # None
    BY <1>2, <1>6, Withdrawing
  <2>6. gap' \/ (~gap /\ Undone(x)')
    BY <1>1, <1>2, <2>2, <2>5 DEF Undone
  <2>7. Requests' /\ Quiet'
    BY <1>1, <2>2, <2>3, <2>4, <2>6, OneStep
  <2>8. Stored'
    BY <1>1, <2>5 DEF Inv, Stored
  <2> QED BY <1>1, <2>7, <2>8, Whole
<1>7. CASE cap.state # "active" /\ UNCHANGED runtime /\ Puts(r, n)
  <2>1. gap' \/ (~gap /\ Follows(n)')
    BY <1>1, <1>2, <1>5, <1>7 DEF Follows, runtime, Inv, Stored
  <2>2. Requests' /\ Quiet'
    BY <1>1, <1>5, <1>7, <2>1, PutsStep DEF Probing
  <2>3. Stored'
    BY <1>1, <1>7 DEF Inv, Stored, runtime
  <2> QED BY <1>1, <2>2, <2>3, Whole
<1> QED BY <1>4, <1>6, <1>7 DEF Rollback

LEMMA RollbackSwapInv ==
    ASSUME Inv, NEW r \in Request, RollbackSwap(r)
    PROVE  Inv'
<1> DEFINE n == req[r].put
<1>1. /\ req[r].pc = "swap" /\ req[r].op = "rollback" /\ row' = row
      /\ UNCHANGED <<snap, disk, lock, begun>>
  BY DEF RollbackSwap, Doing, durable
<1>2. /\ n \in SRow /\ n # None /\ n.state = "active"
      /\ ~gap => index = {}
  BY <1>1, AtSwitch DEF Undone
<1>3. CASE /\ Activate(n.def) /\ Puts(r, n)
           /\ gap' = (gap \/ n.def.tools = None)
           /\ UNCHANGED failures
  <2>1. /\ disk[n.def.dir] = "ok" /\ index' \subseteq Version /\ live' \in Dir \cup {None}
        /\ index = {} /\ n.def.tools # None => index' = {n.def.tools}
    <3>1. n.def \in SDef
      BY <1>2, RowParts
    <3> QED BY <1>3, <3>1, Activating
  <2>2. PICK new \in SRow : new = n
    BY <1>2
  <2>3. gap' \/ (~gap /\ Follows(new)')
    <3> SUFFICES ASSUME ~gap' PROVE ~gap /\ Follows(new)'
      OBVIOUS
    <3>1. ~gap /\ n.def.tools # None
      BY <1>3 DEF Inv, Stored
    <3> QED BY <1>1, <1>2, <2>1, <2>2, <3>1 DEF Follows
  <2>4. Requests' /\ Quiet'
    BY <1>1, <1>2, <1>3, <2>2, <2>3, PutsStep DEF Probing
  <2>5. Stored'
    BY <1>1, <1>3, <2>1 DEF Inv, Stored
  <2> QED BY <1>1, <2>4, <2>5, Whole
<1>4. CASE /\ CannotActivate(n.def)
           /\ Puts(r, [n EXCEPT !.state = "verified"])
           /\ UNCHANGED gap
  <2>1. UNCHANGED <<index, live>> /\ failures' \in 0 .. MaxFailures
    BY <1>4, FailureCounts DEF CannotActivate
  <2>2. PICK new \in SRow : Puts(r, new) /\ new.state = "verified"
    BY <1>2, <1>4, RowWithState DEF CapabilityState
  <2>3. gap' \/ (~gap /\ Follows(new)')
    BY <1>2, <1>4, <2>1, <2>2 DEF Follows, Inv, Stored
  <2>4. Requests' /\ Quiet'
    BY <1>1, <2>2, <2>3, PutsStep DEF Probing
  <2>5. Stored'
    BY <1>1, <1>4, <2>1 DEF Inv, Stored
  <2> QED BY <1>1, <2>4, <2>5, Whole
<1> QED BY <1>3, <1>4 DEF RollbackSwap

LEMMA UninstallInv ==
    ASSUME Inv, NEW r \in Request, Uninstall(r)
    PROVE  Inv'
<1> DEFINE q == req[r]
<1>1. /\ q.pc = "work" /\ q.op = "uninstall" /\ row' = row
      /\ UNCHANGED <<snap, disk, lock, gap, begun, failures>>
      /\ Withdraw(q.seen.def) /\ Proceed(r, "delete")
  BY DEF Uninstall, Work, Doing, durable
<1>2. /\ q \in Carried /\ Carries(q) /\ Loads(q) /\ Writes(q)
      /\ q.seen \in SRow /\ q.seen # None
      /\ ~gap => Alone(r) /\ Undone(q) /\ Follows(q.seen)
  BY <1>1, AtWork, Facts
<1>3. PICK x : x = [q EXCEPT !.pc = "delete"]
  OBVIOUS
<1>4. /\ x \in Carried /\ x.pc = "delete" /\ x.put = q.put
      /\ x.op = q.op /\ x.seen = q.seen /\ x.to = q.to /\ x.gone = q.gone
  <2>1. "delete" \in Pc /\ q \in Carried
    BY <1>2 DEF Pc
  <2> QED BY <1>3, <2>1 DEF Carried
<1>5. req' = [req EXCEPT ![r] = x]
  BY <1>1, <1>3 DEF Proceed, Inv, Requests, Carried
<1>6. Carries(x) /\ Loads(x) /\ Writes(x)
  BY <1>1, <1>2, <1>4 DEF Carries, Loads, Loaded, Writes
<1>7. /\ index' \subseteq Version /\ live' \in Dir \cup {None}
      /\ Follows(q.seen) => index' = {}
  BY <1>1, <1>2, Withdrawing
<1>8. gap' \/ (~gap /\ Undone(x)')
  BY <1>1, <1>2, <1>4, <1>7 DEF Undone
<1>9. Requests' /\ Quiet'
  BY <1>1, <1>4, <1>5, <1>6, <1>8, OneStep
<1>10. Stored'
  BY <1>1, <1>7 DEF Inv, Stored
<1> QED BY <1>1, <1>9, <1>10, Whole

LEMMA UninstallDeleteInv ==
    ASSUME Inv, NEW r \in Request, UninstallDelete(r)
    PROVE  Inv'
<1>1. /\ req[r].pc = "delete" /\ req[r].op = "uninstall" /\ row # None /\ row' = None
      /\ snap' = [v \in Version |-> None]
      /\ UNCHANGED <<disk, index, live, lock, gap, begun, failures>>
  BY DEF UninstallDelete, Doing, runtime
<1>2. req' = [q \in Request |->
                IF q = r THEN [req[r] EXCEPT !.pc = "sweep", !.left = Owned(req[r].seen)]
                ELSE [req[q] EXCEPT !.gone = req[q].seen # None]]
  BY DEF UninstallDelete
<1>3. Stored'
  BY <1>1 DEF Inv, Stored
<1>4. /\ req[r] \in Carried /\ Carries(req[r]) /\ req[r].seen \in SRow
      /\ ~gap => Alone(r) /\ Undone(req[r])
  <2>1. /\ req[r] \in Carried /\ Carries(req[r])
        /\ req[r].seen # None => req[r].seen \in SRow
        /\ ~gap => Alone(r) /\ Undone(req[r])
    BY <1>1, Facts
  <2> QED BY <1>1, <2>1 DEF Carries
<1>5. Owned(req[r].seen) \in SUBSET Dir
  <2>1. \A v \in Version : snap[v] # None => snap[v].dir \in Dir
    BY DEF Inv, Stored, SDef, Def
  <2>2. req[r].seen.def.dir \in Dir /\ Base \in Dir
    BY <1>4, RowParts DEF Dir
  <2> QED BY <2>1, <2>2 DEF Owned
<1>6. /\ req'[r] \in Carried /\ Carries(req'[r])
      /\ req'[r].pc = "sweep" /\ req'[r].seen = req[r].seen
  <2>1. PICK left : left = Owned(req[r].seen)
    OBVIOUS
  <2>2. PICK x : x = [req[r] EXCEPT !.pc = "sweep", !.left = left]
    OBVIOUS
  <2>3. left \in SUBSET Dir /\ "sweep" \in Pc
    BY <1>5, <2>1 DEF Pc
  <2>4. x \in Carried /\ x.pc = "sweep" /\ x.op = "uninstall" /\ x.seen = req[r].seen
    BY <1>1, <1>4, <2>2, <2>3 DEF Carried
  <2>5. Carries(x)
    BY <2>4 DEF Carries, Op, Locked
  <2>6. req'[r] = x
    BY <1>2, <2>1, <2>2
  <2> QED BY <2>4, <2>5, <2>6
<1>7. ASSUME NEW q \in Request \ {r}
      PROVE  /\ req'[q] \in Carried /\ Carries(req'[q]) /\ Writes(req'[q])
             /\ req'[q].seen # None => req'[q].gone
             /\ req[q] = Idle => req'[q] = Idle
  <2>1. PICK x : x = [req[q] EXCEPT !.gone = req[q].seen # None]
    OBVIOUS
  <2>2. req[q] \in Carried /\ Carries(req[q]) /\ Writes(req[q])
    BY DEF Inv, Requests
  <2>3. /\ x \in Carried /\ x.pc = req[q].pc /\ x.op = req[q].op /\ x.seen = req[q].seen
        /\ x.put = req[q].put /\ x.to = req[q].to /\ x.gone = (req[q].seen # None)
    BY <2>1, <2>2 DEF Carried
  <2>4. ASSUME req[q] = Idle PROVE x = Idle
    <3>1. (req[q].seen # None) = FALSE
      BY <2>4, Resting
    <3>2. x = [Idle EXCEPT !.gone = FALSE]
      BY <2>1, <2>4, <3>1
    <3> QED BY <3>2 DEF Idle
  <2>5. req[q].pc = "idle" => x = Idle
    BY <2>2, <2>4 DEF Carries
  <2>6. Carries(x) /\ Writes(x)
    BY <2>2, <2>3, <2>5 DEF Carries, Writes
  <2>7. req'[q] = x
    BY <1>2, <2>1
  <2> QED BY <2>3, <2>4, <2>6, <2>7
<1>8. Requests'
  <2>1. req' \in [Request -> Carried]
    BY <1>2, <1>6, <1>7
  <2>2. ASSUME NEW q \in Request
        PROVE  (Carries(req[q]) /\ Loads(req[q]) /\ Writes(req[q]))'
    <3>1. Carries(req'[q]) /\ Writes(req'[q]) /\ ~Loaded(req'[q])
      BY <1>6, <1>7 DEF Loaded, Writes
    <3> QED BY <3>1 DEF Carries, Writes, Loads, Loaded, Bare, Idle
  <2> QED BY <2>1, <2>2 DEF Requests
<1>9. Quiet'
  <2> SUFFICES ASSUME ~gap' PROVE /\ ~Rest'
                                  /\ \A q \in Request : (req[q].pc # "idle" =>
                                                         Alone(q) /\ Undone(req[q]))'
    BY DEF Quiet
  <2>1. ~gap /\ Alone(r) /\ Undone(req[r])
    BY <1>1, <1>4
  <2>2. Idle' = Idle
    BY DEF Idle
  <2>3. \A q \in Request \ {r} : req'[q] = Idle
    BY <1>7, <2>1 DEF Alone
  <2>4. ~Rest'
    BY <1>6, <2>2, Resting DEF Rest
  <2>5. Alone(r)' /\ Undone(req[r])'
    BY <1>1, <1>6, <2>1, <2>2, <2>3 DEF Alone, Undone
  <2> QED BY <2>3, <2>4, <2>5, Resting
<1> QED BY <1>1, <1>3, <1>8, <1>9 DEF Inv

LEMMA UninstallSweepInv ==
    ASSUME Inv, NEW r \in Request, UninstallSweep(r)
    PROVE  Inv'
<1>1. /\ req[r].pc = "sweep" /\ row' = row /\ Return(r)
      /\ UNCHANGED <<snap, index, live, gap, begun, failures>>
      /\ disk' = [d \in Dir |-> IF d \in req[r].left THEN "absent" ELSE disk[d]]
  BY DEF UninstallSweep, Doing, runtime
<1>2. disk' \in [Dir -> {"absent", "bad", "ok"}]
  BY <1>1 DEF Inv, Stored
<1>3. gap' \/ (~gap /\ Follows(row)')
  <2>1. ~gap => Undone(req[r])
    BY <1>1, Facts
  <2> QED BY <1>1, <2>1 DEF Undone, Follows, Inv, Stored
<1>4. Requests' /\ Quiet' /\ lock' \in Request \cup {None}
  BY <1>1, <1>3, Returning
<1>5. Stored'
  BY <1>1, <1>2, <1>4 DEF Inv, Stored
<1> QED BY <1>1, <1>4, <1>5, Whole

LEMMA InstallNpmInv ==
    ASSUME Inv, NEW r \in Request, InstallNpm(r)
    PROVE  Inv'
<1> DEFINE q == req[r]
<1>1. /\ q.pc = "work" /\ q.op = "install" /\ row' = row
      /\ UNCHANGED <<snap, index, live, gap, begun>>
  BY DEF InstallNpm, runtime, Work, Doing
<1>2. /\ q \in Carried /\ Carries(q) /\ Loads(q) /\ Writes(q)
      /\ ~gap => Alone(r) /\ Undone(q)
  BY <1>1, Facts
<1>3. /\ disk' \in [Dir -> {"absent", "bad", "ok"}]
      /\ \A e \in Dir : disk[e] # "absent" => disk'[e] # "absent"
  <2>1. NpmInstalls(Base) \/ NpmFails(Base)
    BY DEF InstallNpm
  <2>2. Base \in Dir
    BY DEF Dir
  <2> QED BY <2>1, <2>2, InstallsInto
<1>4. gap' \/ (~gap /\ Follows(row)')
  <2> SUFFICES ASSUME ~gap' PROVE ~gap /\ Follows(row)'
    OBVIOUS
  <2>1. ~gap /\ Follows(row)
    BY <1>1, <1>2 DEF Undone
  <2>2. row # None => row.def.dir \in Dir
    BY RowParts DEF Inv, Stored
  <2> QED BY <1>1, <1>3, <2>1, <2>2 DEF Follows
<1>5. CASE NpmInstalls(Base) /\ Proceed(r, "read") /\ UNCHANGED <<lock, failures>>
  <2>1. PICK x : x = [q EXCEPT !.pc = "read"]
    OBVIOUS
  <2>2. /\ x \in Carried /\ x.pc = "read" /\ x.put = q.put
        /\ x.op = q.op /\ x.seen = q.seen /\ x.to = q.to /\ x.gone = q.gone
    <3>1. "read" \in Pc /\ q \in Carried
      BY <1>2 DEF Pc
    <3> QED BY <2>1, <3>1 DEF Carried
  <2>3. req' = [req EXCEPT ![r] = x]
    BY <1>5, <2>1 DEF Proceed, Inv, Requests, Carried
  <2>4. Carries(x) /\ Loads(x) /\ Writes(x)
    BY <1>1, <1>2, <2>2 DEF Carries, Loads, Loaded, Writes
  <2>5. gap' \/ (~gap /\ Undone(x)')
    BY <1>1, <1>2, <1>4, <2>2 DEF Undone, Follows
  <2>6. Requests' /\ Quiet'
    BY <1>1, <2>2, <2>3, <2>4, <2>5, OneStep
  <2>7. Stored'
    BY <1>1, <1>3, <1>5 DEF Inv, Stored
  <2> QED BY <1>1, <2>6, <2>7, Whole
<1>6. CASE NpmFails(Base) /\ Return(r)
  <2>1. Requests' /\ Quiet' /\ lock' \in Request \cup {None}
    BY <1>1, <1>4, <1>6, Returning
  <2>2. failures' \in 0 .. MaxFailures
    BY <1>6, FailureCounts DEF NpmFails
  <2>3. Stored'
    BY <1>1, <1>3, <2>1, <2>2 DEF Inv, Stored
  <2> QED BY <1>1, <2>1, <2>3, Whole
<1> QED BY <1>5, <1>6 DEF InstallNpm

LEMMA InstallReadInv ==
    ASSUME Inv, NEW r \in Request, InstallRead(r)
    PROVE  Inv'
<1> DEFINE q == req[r]
<1>1. /\ q.pc = "read" /\ q.op = "install" /\ row' = row
      /\ UNCHANGED <<snap, disk, live, lock, gap, begun, failures>>
      /\ index' = IF Active THEN index \ ToolIds(row.def) ELSE index
  BY DEF InstallRead, Doing, durable
<1>2. /\ q \in Carried /\ Carries(q)
      /\ ~gap => Alone(r) /\ Undone(q) /\ Follows(row) /\ ~q.gone
  BY <1>1, Facts DEF Undone
<1>3. PICK n \in SRow :
         /\ req' = [req EXCEPT ![r].pc = "commit", ![r].seen = row, ![r].put = n]
         /\ n.state # "active" /\ Bare(n)
         /\ row # None => n.state # "sandbox"
  <2>1. CASE row = None
    <3>1. PICK d : d = [ver |-> Catalog, dir |-> Base, tools |-> None, fp |-> None,
                        noted |-> {}]
      OBVIOUS
    <3>2. d \in SDef /\ d.tools = None /\ d.noted = {}
      BY <3>1, CapabilityAssumption DEF SDef, Def, Dir
    <3>3. PICK n : n = [state |-> "sandbox", def |-> d]
      OBVIOUS
    <3>4. n \in SRow /\ n.state = "sandbox" /\ n.def = d
      BY <3>2, <3>3, RowOf DEF CapabilityState
    <3> QED BY <2>1, <3>1, <3>2, <3>3, <3>4 DEF InstallRead, Bare
  <2>2. CASE row # None
    <3>1. PICK d : d = [row.def EXCEPT !.ver = Catalog, !.dir = Base]
      OBVIOUS
    <3>2. row.def \in Def
      BY <2>2 DEF Inv, Stored, SRow, SDef
    <3>3. d \in SDef
      BY <3>1, <3>2, CapabilityAssumption DEF SDef, Def, Dir
    <3>4. PICK n : n = [state |-> "needs_review", def |-> d]
      OBVIOUS
    <3>5. n \in SRow /\ n.state = "needs_review"
      BY <3>3, <3>4, RowOf DEF CapabilityState
    <3> QED BY <2>2, <3>1, <3>4, <3>5 DEF InstallRead, Bare
  <2> QED BY <2>1, <2>2
<1>4. PICK x : x = [q EXCEPT !.pc = "commit", !.seen = row, !.put = n]
  OBVIOUS
<1>5. /\ x \in Carried /\ x.pc = "commit" /\ x.put = n
      /\ x.op = "install" /\ x.seen = row /\ x.gone = q.gone
  <2>1. "commit" \in Pc /\ q \in Carried /\ n \in SRow /\ row \in SRow \cup {None}
    BY <1>2, <1>3 DEF Pc, Inv, Stored
  <2> QED BY <1>1, <1>4, <2>1 DEF Carried
<1>6. req' = [req EXCEPT ![r] = x]
  BY <1>3, <1>4 DEF Inv, Requests, Carried
<1>7. Carries(x) /\ Loads(x) /\ Writes(x)
  <2>1. n # None
    BY <1>3, RowParts
  <2> QED BY <1>3, <1>5, <2>1 DEF Carries, Loads, Loaded, Writes, Op, Unlocked
<1>8. /\ index' \subseteq Version
      /\ Follows(row) => index' = {}
  <2>1. index' \subseteq Version
    BY <1>1 DEF Inv, Stored
  <2>2. ASSUME Follows(row), Active PROVE row.def.tools \in ToolIds(row.def)
    BY <2>2, CapabilityAssumption DEF Follows, Active, Inv, Stored, ToolIds
  <2> QED BY <1>1, <2>1, <2>2 DEF Follows, Active
<1>9. gap' \/ (~gap /\ Undone(x)')
  BY <1>1, <1>2, <1>3, <1>5, <1>8 DEF Undone, Follows, Probing, Inv, Stored
<1>10. Requests' /\ Quiet'
  BY <1>1, <1>5, <1>6, <1>7, <1>9, OneStep
<1>11. Stored'
  BY <1>1, <1>8 DEF Inv, Stored
<1> QED BY <1>1, <1>10, <1>11, Whole

\* What a commit writes: the row of the session, or what it changed of the row.
LEMMA Committed ==
    ASSUME Inv, NEW r \in Request, Commit(r)
    PROVE  /\ row' \in SRow /\ row' # None /\ Bare(row')
           /\ req[r].seen = None \/ row'.state # "sandbox"
           /\ req[r].seen = None => row = None /\ req[r].op = "install"
           /\ ~gap => row'.state = req[r].put.state /\ row'.def = req[r].put.def
<1> DEFINE q == req[r]
           old == q.seen
           new == q.put
<1>1. q.pc = "commit" /\ ~Conflict(r) /\ row' = IF old = None THEN new ELSE Written(r)
  BY DEF Commit
<1>2. /\ Carries(q) /\ Loads(q) /\ Writes(q)
      /\ old # None => old \in SRow
      /\ new \in SRow
      /\ ~gap => Undone(q)
  BY <1>1, Facts DEF Carries
<1>3. CASE old = None
  <2>1. row' = new /\ row = None
    BY <1>1, <1>3 DEF Conflict
  <2> QED BY <1>1, <1>2, <1>3, <2>1, RowParts DEF Writes, Carries
<1>4. CASE old # None
  <2>1. ~q.gone
    BY <1>1 DEF Conflict
  <2>2. /\ row # None /\ row \in SRow
        /\ old.state # "sandbox" => row.state # "sandbox"
        /\ new.state # "sandbox"
    BY <1>1, <1>2, <1>4, <2>1 DEF Loads, Loaded, Writes, Inv, Stored
  <2>3. PICK s, d : /\ s = IF new.state = old.state THEN row.state ELSE new.state
                    /\ d \in {row.def, new.def}
                    /\ d = row.def => d = new.def \/ new.def = old.def
                    /\ row' = [state |-> s, def |-> d]
    BY <1>1, <1>4 DEF Written
  <2>4. s \in CapabilityState /\ d \in SDef
    BY <1>2, <2>2, <2>3, RowParts
  <2>5. row' \in SRow /\ row'.state = s /\ row'.def = d
    BY <2>3, <2>4, RowOf
  <2>6. s # "sandbox"
    BY <2>2, <2>3
  <2>7. ASSUME ~gap PROVE s = new.state /\ d = new.def
    <3>1. old = row
      BY <1>1, <1>2, <2>7 DEF Undone
    <3> QED BY <2>3, <3>1
  <2>8. row' # None
    BY <2>5, RowParts
  <2> QED BY <1>4, <2>5, <2>6, <2>7, <2>8 DEF Bare
<1> QED BY <1>3, <1>4

LEMMA CommitInv ==
    ASSUME Inv, NEW r \in Request, Commit(r)
    PROVE  Inv'
<1> DEFINE q == req[r]
           old == q.seen
           new == q.put
<1>1. /\ q.pc = "commit" /\ UNCHANGED <<disk, index, live, begun, failures>>
      /\ gap' = (gap \/ (q.op = "smoke" /\ new.state = "active"))
      /\ IF q.op = "activate" /\ new.state = "verified"
         THEN /\ req' = [req EXCEPT ![r] = [Idle EXCEPT !.op = "enable", !.pc = "lock",
                                                       !.seen = row']]
              /\ UNCHANGED lock
         ELSE Return(r)
  BY DEF Commit, runtime
<1>2. /\ Carries(q) /\ q \in Carried
      /\ old # None => old \in SRow
      /\ new \in SRow /\ new # None
      /\ ~gap => Alone(r) /\ Undone(q)
  BY <1>1, Facts DEF Carries
<1>3. /\ row' \in SRow /\ row' # None /\ Bare(row')
      /\ old = None \/ row'.state # "sandbox"
      /\ old = None => row = None /\ q.op = "install"
      /\ ~gap => row'.state = new.state /\ row'.def = new.def
  BY Committed
<1>4. snap' \in [Version -> SDef \cup {None}]
  <2>1. snap' = CASE q.op = "upgrade" -> [snap EXCEPT ![new.def.ver] = new.def,
                                                     ![old.def.ver] = old.def]
                  [] q.op = "rollback" -> [snap EXCEPT ![new.def.ver] = new.def]
                  [] OTHER -> snap
    BY DEF Commit
  <2>2. snap \in [Version -> SDef \cup {None}]
    BY DEF Inv, Stored
  <2>3. new.def \in SDef /\ new.def.ver \in Version
    BY <1>2, RowParts
  <2>4. CASE q.op = "upgrade"
    <3>1. old \in SRow
      BY <1>2, <1>3, <2>4
    <3>2. old.def \in SDef /\ old.def.ver \in Version
      BY <3>1, RowParts
    <3> QED BY <2>1, <2>2, <2>3, <2>4, <3>2
  <2>5. CASE q.op = "rollback"
    BY <2>1, <2>2, <2>3, <2>5
  <2>6. CASE q.op \notin {"upgrade", "rollback"}
    <3>1. snap' = snap
      BY <2>1, <2>6
    <3> QED BY <2>2, <3>1
  <2> QED BY <2>4, <2>5, <2>6
<1>5. lock' \in Request \cup {None}
  BY <1>1 DEF Return, Unlock, Inv, Stored
<1>6. Stored'
  BY <1>1, <1>3, <1>4, <1>5 DEF Inv, Stored
<1>7. PICK x :
         /\ req' = [req EXCEPT ![r] = x]
         /\ \/ x = Idle
            \/ x = [Idle EXCEPT !.op = "enable", !.pc = "lock", !.seen = row']
  <2>1. PICK y : y = [Idle EXCEPT !.op = "enable", !.pc = "lock", !.seen = row']
    OBVIOUS
  <2> QED BY <1>1, <2>1 DEF Return
<1>8. /\ x \in Carried /\ x.gone = FALSE
      /\ \/ x = Idle
         \/ x.pc = "lock" /\ x.op = "enable" /\ x.seen = row'
  <2>1. CASE x = Idle
    BY <2>1, Resting
  <2>2. CASE x = [Idle EXCEPT !.op = "enable", !.pc = "lock", !.seen = row']
    <3>1. PICK c \in SRow : c = row'
      BY <1>3
    <3>2. x = [Idle EXCEPT !.op = "enable", !.pc = "lock", !.seen = c]
      BY <2>2, <3>1
    <3>3. x \in Carried /\ x.gone = FALSE /\ x.pc = "lock" /\ x.op = "enable" /\ x.seen = c
      BY <3>2 DEF Idle, Carried, Op, Locked, Pc
    <3> QED BY <3>1, <3>3
  <2> QED BY <1>7, <2>1, <2>2
<1>9. /\ req' \in [Request -> Carried] /\ req'[r] = x
      /\ \A p \in Request \ {r} : req'[p] = req[p]
  BY <1>7, <1>8 DEF Inv, Requests
<1>10. Requests'
  <2>1. Carries(x) /\ Writes(x)
    BY <1>3, <1>8, Resting DEF Carries, Writes, Op, Locked
  <2>2. Loads(req[r])'
    BY <1>3, <1>8, <1>9, Resting DEF Loads, Loaded
  <2>3. (Carries(req[r]) /\ Writes(req[r]))'
    BY <1>9, <2>1 DEF Carries, Writes, Bare, Idle
  <2>4. ASSUME NEW p \in Request \ {r}
        PROVE  (Carries(req[p]) /\ Loads(req[p]) /\ Writes(req[p]))'
    <3>1. Carries(req[p]) /\ Loads(req[p]) /\ Writes(req[p]) /\ req'[p] = req[p]
      BY <1>9 DEF Inv, Requests
    <3>2. (Carries(req[p]) /\ Writes(req[p]))'
      BY <3>1 DEF Carries, Writes, Bare, Idle
    <3>3. Loads(req[p])'
      BY <1>3, <3>1 DEF Loads, Loaded
    <3> QED BY <3>2, <3>3
  <2> QED BY <1>9, <2>2, <2>3, <2>4 DEF Requests
<1>11. ASSUME ~gap' PROVE ~gap /\ Alone(r) /\ Follows(row)'
  <2>1. /\ ~gap /\ Alone(r) /\ Undone(q)
        /\ ~(q.op = "smoke" /\ new.state = "active")
    BY <1>1, <1>2, <1>11 DEF Inv, Stored
  <2>2. row'.state = new.state /\ row'.def = new.def
    BY <1>3, <2>1
  <2>3. CASE q.op \in Probing
    BY <1>1, <2>1, <2>2, <2>3 DEF Undone, Follows
  <2>4. CASE q.op \notin Probing
    <3>1. Follows(new)
      BY <1>1, <2>1, <2>4 DEF Undone
    <3> QED BY <1>1, <1>2, <1>3, <2>1, <2>2, <3>1 DEF Follows
  <2> QED BY <2>1, <2>3, <2>4
<1>12. Quiet'
  <2> SUFFICES ASSUME ~gap' PROVE /\ (Rest => Follows(row))'
                                  /\ \A p \in Request : (req[p].pc # "idle" =>
                                                         Alone(p) /\ Undone(req[p]))'
    BY DEF Quiet
  <2>1. Alone(r) /\ Follows(row)' /\ Idle' = Idle
    BY <1>11 DEF Idle
  <2>2. \A p \in Request \ {r} : req'[p] = Idle
    BY <1>9, <2>1 DEF Alone
  <2>3. Alone(r)'
    BY <2>1, <2>2 DEF Alone
  <2>4. x # Idle => Undone(req[r])'
    BY <1>8, <1>9, <2>1 DEF Undone
  <2>5. ASSUME NEW p \in Request, req'[p].pc # "idle" PROVE Alone(p)' /\ Undone(req[p])'
    <3>1. p = r /\ x # Idle
      BY <1>9, <2>2, <2>5, Resting
    <3> QED BY <2>3, <2>4, <3>1
  <2> QED BY <2>1, <2>5
<1> QED BY <1>3, <1>6, <1>10, <1>12 DEF Inv, Bare

LEMMA CommitFailsInv ==
    ASSUME Inv, NEW r \in Request, CommitFails(r)
    PROVE  Inv'
<1>1. /\ req[r].pc \in {"commit", "delete"} /\ row' = row /\ Return(r)
      /\ Failure \/ UNCHANGED failures
      /\ UNCHANGED <<snap, disk, index, live, begun>>
      /\ gap' = (gap \/ req[r].op \notin {"verify", "smoke", "activate"})
  BY DEF CommitFails, durable, runtime
<1>2. gap' \/ (~gap /\ Follows(row)')
  <2> SUFFICES ASSUME ~gap' PROVE ~gap /\ Follows(row)'
    OBVIOUS
  <2>1. ~gap /\ req[r].op \in Probing
    BY <1>1 DEF Probing, Inv, Stored
  <2>2. Carries(req[r]) /\ Undone(req[r])
    BY <1>1, <2>1, Facts
  <2>3. req[r].pc = "commit"
    BY <1>1, <2>1, <2>2 DEF Carries, Probing
  <2> QED BY <1>1, <2>1, <2>2, <2>3 DEF Undone, Follows, Active
<1>3. Requests' /\ Quiet' /\ lock' \in Request \cup {None}
  BY <1>1, <1>2, Returning
<1>4. Stored'
  BY <1>1, <1>3, FailureCounts DEF Inv, Stored
<1> QED BY <1>1, <1>3, <1>4, Whole

LEMMA BeginInv ==
    ASSUME Inv, NEW r \in Request, NEW op \in Op, NEW v \in Version \cup {None},
           op \in {"upgrade", "rollback"} => v \in Version, Begin(r, op, v)
    PROVE  Inv'
<1>1. /\ req[r] = Idle /\ row' = row /\ (row # None \/ op = "install")
      /\ UNCHANGED <<snap, disk, index, live, lock, failures>>
      /\ gap' = (gap \/ ~Alone(r))
      /\ begun < MaxRequests /\ begun' = begun + 1
  BY DEF Begin, durable, runtime, Raced
<1>2. PICK x :
         x = [op |-> op, pc |-> IF op \in Locked THEN "lock" ELSE "work",
              seen |-> row, put |-> None, to |-> v, left |-> {}, gone |-> FALSE]
  OBVIOUS
<1>3. /\ x \in Carried /\ x.op = op /\ x.seen = row /\ x.to = v /\ x.gone = FALSE
      /\ x.pc = IF op \in Locked THEN "lock" ELSE "work"
  BY <1>2 DEF Carried, Pc, Inv, Stored
<1>4. req' = [req EXCEPT ![r] = x]
  BY <1>2 DEF Begin
<1>5. Carries(x) /\ Loads(x) /\ Writes(x)
  BY <1>1, <1>3 DEF Carries, Loads, Loaded, Writes
<1>6. gap' \/ (~gap /\ Alone(r) /\ Undone(x)')
  <2> SUFFICES ASSUME ~gap' PROVE ~gap /\ Alone(r) /\ Undone(x)'
    OBVIOUS
  <2>1. ~gap /\ Alone(r)
    BY <1>1 DEF Inv, Stored
  <2>2. Follows(row)
    BY <1>1, <2>1 DEF Inv, Quiet, Rest, Alone
  <2> QED BY <1>1, <1>3, <2>1, <2>2 DEF Undone, Follows
<1>7. Requests' /\ Quiet'
  BY <1>1, <1>3, <1>4, <1>5, <1>6, OneMoves
<1>8. Stored'
  BY <1>1, CapabilityAssumption DEF Inv, Stored
<1> QED BY <1>1, <1>7, <1>8, Whole

LEMMA ReconcileInv ==
    ASSUME Inv, Reconcile
    PROVE  Inv'
<1>1. /\ UNCHANGED <<snap, disk, req, lock, begun, failures>>
      /\ gap' = (~Rest \/ (Active /\ row' = row /\ Beyond))
      /\ ReconcileActive \/ ReconcileInactive
  BY DEF Reconcile
<1>2. row \in SRow \cup {None} /\ index \subseteq Version
  BY DEF Inv, Stored
<1>3. /\ row' \in SRow \cup {None} /\ index' \subseteq Version
      /\ live' \in Dir \cup {None}
      /\ \/ row' = row
         \/ row # None /\ row' # None /\ row'.state = "needs_review"
      /\ ~gap' => Rest /\ Follows(row)'
  <2>1. CASE ReconcileInactive
    <3>1. ~Active /\ row' = row /\ live' = live
          /\ index' = IF row # None /\ row.state = "sandbox" THEN index \cap Known ELSE {}
      BY <2>1 DEF ReconcileInactive
    <3>2. row # None /\ row.state = "sandbox" => Known = {}
      BY CapabilityAssumption DEF Inv, Bare, Known, ToolIds
    <3>3. index' = {}
      BY <3>1, <3>2
    <3> QED BY <1>1, <1>2, <3>1, <3>3 DEF Inv, Stored, Follows, Active
  <2>2. CASE ReconcileActive
    <3>1. Active /\ row \in SRow /\ row # None /\ row.state = "active"
      BY <1>2, <2>2 DEF ReconcileActive, Active
    <3>2. row.def \in SDef
      BY <3>1, RowParts
    <3>3. Offer(row.def) \in Version /\ Answering(row.def.dir) \in Dir
      BY <3>2, Tools DEF Inv
    <3>4. CASE disk[row.def.dir] = "absent"
      <4>1. row' = [row EXCEPT !.state = "needs_review"] /\ index' = {} /\ live' = live
        BY <2>2, <3>4 DEF ReconcileActive
      <4>2. row' \in SRow /\ row'.state = "needs_review" /\ row' # None
        BY <3>1, <4>1, RowWithState, RowParts DEF CapabilityState
      <4> QED BY <1>1, <3>1, <4>1, <4>2 DEF Follows, Inv, Stored
    <3>5. CASE disk[row.def.dir] # "absent"
      <4>1. /\ row' = row
            /\ live' = live \/ live' = Answering(row.def.dir)
            /\ index' \subseteq index \cup {Offer(row.def)}
        <5>1. CASE disk[row.def.dir] = "ok" /\ ~(Known \subseteq index)
          BY <2>2, <3>5, <5>1 DEF ReconcileActive
        <5>2. CASE ~(disk[row.def.dir] = "ok" /\ ~(Known \subseteq index))
          BY <2>2, <3>5, <5>2 DEF ReconcileActive
        <5> QED BY <5>1, <5>2
      <4>2. ~gap' => Rest /\ index' = {row.def.tools}
        <5> SUFFICES ASSUME ~gap' PROVE Rest /\ index' = {row.def.tools}
          OBVIOUS
        <5>1. Rest /\ ~Beyond
          BY <1>1, <3>1, <4>1
        <5>2. /\ row.def.tools # None /\ Known = {row.def.tools}
              /\ disk[row.def.dir] = "bad" => Known \subseteq index
          BY <3>1, <5>1 DEF Beyond, Known, ToolIds
        <5>3. Offer(row.def) = row.def.tools
          BY <5>2 DEF Offer
        <5>4. CASE disk[row.def.dir] = "ok" /\ ~(Known \subseteq index)
          BY <2>2, <3>5, <5>1, <5>2, <5>3, <5>4 DEF ReconcileActive
        <5>5. CASE Known \subseteq index
          BY <2>2, <3>5, <5>1, <5>2, <5>5 DEF ReconcileActive
        <5>6. disk[row.def.dir] \in {"bad", "ok"}
          BY <3>2, <3>5 DEF Inv, Stored, SDef, Def
        <5> QED BY <5>2, <5>4, <5>5, <5>6
      <4> QED BY <1>1, <1>2, <3>1, <3>3, <3>5, <4>1, <4>2 DEF Follows, Inv, Stored
    <3> QED BY <3>4, <3>5
  <2> QED BY <1>1, <2>1, <2>2
<1>4. Stored'
  <2>1. gap' \in BOOLEAN
    BY <1>1
  <2> QED BY <1>1, <1>3, <2>1 DEF Inv, Stored
<1>5. (row # None => Bare(row))'
  <2>1. CASE row' = row
    BY <2>1 DEF Inv, Bare
  <2>2. CASE row' # None /\ row'.state = "needs_review"
    BY <2>2 DEF Bare
  <2> QED BY <1>3, <2>1, <2>2
<1>6. Requests'
  <2>1. ASSUME NEW q \in Request
        PROVE  (Carries(req[q]) /\ Loads(req[q]) /\ Writes(req[q]))'
    <3>1. Carries(req[q]) /\ Loads(req[q]) /\ Writes(req[q]) /\ req'[q] = req[q]
      BY <1>1 DEF Inv, Requests
    <3>2. (Carries(req[q]) /\ Writes(req[q]))'
      BY <3>1 DEF Carries, Writes, Bare, Idle
    <3>3. Loads(req[q])'
      BY <1>3, <3>1 DEF Loads, Loaded
    <3> QED BY <3>2, <3>3
  <2> QED BY <1>1, <2>1 DEF Requests, Inv
<1>7. Quiet'
  <2> SUFFICES ASSUME ~gap' PROVE /\ Follows(row)'
                                  /\ \A q \in Request : req'[q].pc = "idle"
    BY DEF Quiet
  <2> QED BY <1>1, <1>3, Resting DEF Rest
<1> QED BY <1>4, <1>5, <1>6, <1>7 DEF Inv

LEMMA SessionEndsInv == ASSUME Inv, SessionEnds PROVE Inv'
<1>1. live' = None /\ UNCHANGED <<row, snap, disk, index, req, lock, gap, begun, failures>>
  BY DEF SessionEnds, durable, control
<1>2. Stored'
  BY <1>1 DEF Inv, Stored
<1>3. (row # None => Bare(row))'
  BY <1>1 DEF Inv, Bare
<1>4. Requests'
  BY <1>1 DEF Inv, Requests, Carries, Idle, Loads, Loaded, Writes, Bare
<1>5. Quiet'
  BY <1>1 DEF Inv, Quiet, Rest, Alone, Idle, Follows, Undone, Active
<1> QED BY <1>2, <1>3, <1>4, <1>5 DEF Inv

LEMMA UnchangedInv == ASSUME Inv, UNCHANGED vars PROVE Inv'
<1>1. UNCHANGED <<row, snap, disk, index, live, req, lock, gap, begun, failures>>
  BY DEF vars, durable, runtime, control
<1>2. Stored'
  BY <1>1 DEF Inv, Stored
<1>3. (row # None => Bare(row))'
  BY <1>1 DEF Inv, Bare
<1>4. Requests'
  BY <1>1 DEF Inv, Requests, Carries, Idle, Loads, Loaded, Writes, Bare
<1>5. Quiet'
  BY <1>1 DEF Inv, Quiet, Rest, Alone, Idle, Follows, Undone, Active
<1> QED BY <1>2, <1>3, <1>4, <1>5 DEF Inv

LEMMA RestartInv == ASSUME Inv, Restart PROVE Inv'
<1>1. /\ UNCHANGED <<row, snap, disk, begun>> /\ Failure
      /\ req' = [r \in Request |-> Idle] /\ lock' = None
  BY DEF Restart, durable
<1>2. row # None => row \in SRow /\ row.def \in SDef
  BY RowParts DEF Inv, Stored
<1>3. /\ index' \subseteq Version /\ live' \in Dir \cup {None} /\ gap' \in BOOLEAN
      /\ ~gap' => Follows(row)'
  <2>1. CASE Active /\ disk[row.def.dir] = "ok"
    <3>1. /\ live' = IF row.def.tools = None THEN row.def.dir ELSE None
          /\ index' = {IF row.def.tools = None THEN Content(row.def.dir) ELSE row.def.tools}
          /\ gap' = (row.def.tools = None)
      BY <2>1 DEF Restart
    <3>2. /\ row # None /\ row.state = "active"
          /\ row.def.dir \in Dir /\ Content(row.def.dir) \in Version
          /\ row.def.tools \in Version \cup {None}
      BY <1>2, <2>1, CapabilityAssumption DEF Active, SDef, Def, Dir, Content
    <3> QED BY <1>1, <2>1, <3>1, <3>2 DEF Follows
  <2>2. CASE ~(Active /\ disk[row.def.dir] = "ok")
    <3>1. index' = {} /\ live' = None /\ gap' = Active
      BY <2>2 DEF Restart
    <3> QED BY <1>1, <3>1 DEF Follows, Active
  <2> QED BY <2>1, <2>2
<1>4. Stored'
  BY <1>1, <1>3, FailureCounts DEF Inv, Stored
<1>5. (row # None => Bare(row))'
  BY <1>1 DEF Inv, Bare
<1>6. \A r \in Request : req'[r] = Idle
  BY <1>1
<1>7. Requests'
  <2>1. (Carries(Idle) /\ Writes(Idle) /\ Loads(Idle))'
    BY Resting DEF Carries, Writes, Idle, Bare
  <2>2. ASSUME NEW r \in Request
        PROVE  (Carries(req[r]) /\ Loads(req[r]) /\ Writes(req[r]))'
    <3>1. req'[r] = Idle /\ Idle' = Idle
      BY <1>6 DEF Idle
    <3> QED BY <2>1, <3>1 DEF Carries, Loads, Loaded, Writes, Bare
  <2>3. req' \in [Request -> Carried]
    BY <1>1, Resting
  <2> QED BY <2>2, <2>3 DEF Requests
<1>8. Quiet'
  BY <1>3, <1>6, Resting DEF Quiet
<1> QED BY <1>4, <1>5, <1>7, <1>8 DEF Inv

LEMMA InitInv == Init => Inv
<1> SUFFICES ASSUME Init PROVE Inv
  OBVIOUS
<1>1. Stored
  <2>1. begun \in 0 .. MaxRequests /\ failures \in 0 .. MaxFailures
    BY CapabilityAssumption DEF Init
  <2>2. /\ snap \in [Version -> SDef \cup {None}]
        /\ disk \in [Dir -> {"absent", "bad", "ok"}]
    BY DEF Init
  <2>3. gap \in BOOLEAN
    BY DEF Init
  <2> QED BY <2>1, <2>2, <2>3 DEF Init, Stored
<1>2. \A r \in Request : req[r] = Idle
  BY DEF Init
<1>3. Requests
  BY <1>2, Resting DEF Init, Requests
<1>4. Quiet
  BY <1>2, Resting DEF Init, Quiet, Follows
<1> QED BY <1>1, <1>3, <1>4 DEF Init, Inv

LEMMA NextInv == Inv /\ [Next]_vars => Inv'
<1> SUFFICES ASSUME Inv, [Next]_vars PROVE Inv'
  OBVIOUS
<1>1. ASSUME NEW r \in Request,
             NEW op \in {"verify", "enable", "disable", "uninstall"} \cup Unlocked,
             Begin(r, op, None)
      PROVE  Inv'
  <2>1. op \in Op /\ op \notin {"upgrade", "rollback"}
    BY DEF Op, Locked, Unlocked
  <2> QED BY <1>1, <2>1, BeginInv
<1>2. ASSUME NEW r \in Request, NEW v \in Upgrades, Begin(r, "upgrade", v) PROVE Inv'
  BY <1>2, BeginInv, CapabilityAssumption DEF Op, Locked
<1>3. ASSUME NEW r \in Request, NEW v \in Version, Begin(r, "rollback", v) PROVE Inv'
  BY <1>3, BeginInv DEF Op, Locked
<1>4. ASSUME NEW r \in Request, Step(r) PROVE Inv'
  BY <1>4, TakeLockInv, RefuseInv, ProbeInv, SmokeCallFailsInv, SkipProbeInv,
     EnableMissingInv, EnableRegisterInv, EnableFailsInv, DisableInv,
     UpgradeInstallInv, UpgradeProbeInv, UpgradeSwapInv, UpgradeBackInv,
     RollbackInv, RollbackSwapInv, UninstallInv, UninstallDeleteInv,
     UninstallSweepInv, InstallNpmInv, InstallReadInv, CommitInv, CommitFailsInv
     DEF Step
<1>5. CASE Reconcile \/ SessionEnds \/ Restart
  BY <1>5, ReconcileInv, SessionEndsInv, RestartInv
<1>6. CASE UNCHANGED vars
  BY <1>6, UnchangedInv
<1> QED BY <1>1, <1>2, <1>3, <1>4, <1>5, <1>6 DEF Next

LEMMA SpecInv == Spec => []Inv
  BY InitInv, NextInv, PTL DEF Spec

\* At rest and without a gap the tools that can be discovered are those of the active
\* definition: after any number of requests one at a time, and once a reconcile or a
\* restart has followed requests that crossed each other (capability/lifecycle.py,
\* mcp/bootstrap.py).
THEOREM IndexFollows == Spec => []IndexFollowsState
<1>1. Inv => IndexFollowsState
  <2> SUFFICES ASSUME Inv PROVE IndexFollowsState
    OBVIOUS
  <2>1. TypeOK
    BY DEF Inv, Stored, TypeOK, SRow, SDef
  <2>2. Rest /\ ~gap => index = IF Active THEN {row.def.tools} ELSE {}
    BY DEF Inv, Quiet, Follows, Active
  <2> QED BY <2>1, <2>2 DEF IndexFollowsState
<1> QED BY <1>1, SpecInv, PTL

\* At rest and without a gap what is active has its directory: no failed upgrade,
\* rollback, uninstall or reinstall took it, or the reconcile that follows has found out
\* (upgrade, _owned_sandbox_paths and audit in capability/lifecycle.py).
THEOREM ArtifactsStay == Spec => []ArtifactsKept
<1>1. Inv => ArtifactsKept
  BY DEF Inv, Quiet, Follows, Active, ArtifactsKept
<1> QED BY <1>1, SpecInv, PTL

-------------------------------------------------------------------------------
\* The releases of the application.

\* What the steps of the daemon rely on: the process a handler has started is known,
\* a request is answered while it is in its directory, and a version that is
\* monitored has one before it.
Serves ==
    /\ daemon.pc \in {"staged", "staging", "wait", "point", "record"} => daemon.proc # Null
    /\ daemon.req # Null => queue # <<>>
    /\ daemon.pc \in {"answer", "unlink"} => daemon.req # Null
    /\ release.monitoring => release.previous # Null

\* Which slot a handler is about.
Aims ==
    /\ daemon.pc \in {"stage", "staged", "staging", "unstage"} => daemon.back = pointer
    /\ daemon.pc \in {"stop", "start", "wait"} =>
          /\ daemon.then \in {"ensure", "revive", "restart", "restore", "promote"}
          /\ daemon.then \in {"ensure", "restart"} => daemon.slot = pointer
          /\ daemon.then = "revive" =>
                st.process = Null /\ ("stale" \notin gaps => daemon.slot = pointer)
    /\ daemon.pc \in {"point", "record"} => daemon.then \in {"promote", "restore"}
    /\ daemon.pc = "record" => daemon.slot = pointer

\* The record of the process: state.json says of it what it says of itself, and
\* wherever no process is being replaced the pointer says so too.
Recorded ==
    "stale" \notin gaps /\ st.process # Null =>
        /\ st.active = st.process.slot
        /\ daemon.pc \in {"idle", "answer", "unlink", "publish",
                          "stage", "staged", "staging", "unstage"} =>
              st.process.slot = pointer

\* Who may hold the application's port.
Replacing == daemon.pc \in {"wait", "point", "record"}
PortOwned ==
    /\ daemon.pc = "start" \/ Replacing => ~Alive(Managed)
    /\ "orphan" \notin gaps =>
          \A p \in Pid : proc[p].port = "primary" /\ proc[p].life # "dead" =>
                            p = Managed \/ (Replacing /\ p = daemon.proc)

RelInv == ReleaseTypeOK /\ Serves /\ Aims /\ Recorded /\ PortOwned

-------------------------------------------------------------------------------
DaemonRecord == [pc : DaemonStep, req : RequestId \cup {Null}, slot : Slot, back : Slot,
                 proc : Pid \cup {Null}, then : Purpose, ok : BOOLEAN]

LEMMA DaemonFields ==
    ASSUME ReleaseTypeOK
    PROVE  /\ daemon \in DaemonRecord
           /\ daemon.pc \in DaemonStep /\ daemon.req \in RequestId \cup {Null}
           /\ daemon.slot \in Slot /\ daemon.back \in Slot
           /\ daemon.proc \in Pid \cup {Null} /\ daemon.then \in Purpose
           /\ daemon.ok \in BOOLEAN
  BY DEF ReleaseTypeOK, DaemonRecord

LEMMA StateFields ==
    ASSUME ReleaseTypeOK
    PROVE  /\ st \in State /\ pointer \in Slot /\ release \in ReleaseState
           /\ st.phase \in Phase /\ st.active \in Slot \cup {Null}
           /\ st.previous \in Slot \cup {Null}
           /\ st.process \in [pid : Pid, slot : Slot] \cup {Null}
           /\ st.process # Null => st.process.pid \in Pid /\ st.process.slot \in Slot
           /\ st.candidate \in Pid \cup {Null} /\ st.window \in {"none", "open", "over"}
           /\ Managed \in Pid \cup {Null}
           /\ Other(pointer) \in Slot
  BY DEF ReleaseTypeOK, State, Managed, Other, Slot

LEMMA DoneFields ==
    ASSUME NEW d, d.req \in RequestId \cup {Null}, NEW ok \in BOOLEAN
    PROVE  /\ Done(d, ok) \in DaemonRecord
           /\ Done(d, ok).pc = IF d.req = Null THEN "idle" ELSE "answer"
           /\ Done(d, ok).req = d.req /\ Done(d, ok).proc = Null
<1>1. (ok /\ d.req # Null) \in BOOLEAN
  OBVIOUS
<1>2. PICK b \in BOOLEAN : b = (ok /\ d.req # Null)
  BY <1>1
<1>3. Done(d, ok) = [Down EXCEPT !.pc = IF d.req = Null THEN "idle" ELSE "answer",
                                 !.req = d.req, !.ok = b]
  BY <1>2 DEF Done
<1> QED BY <1>3 DEF Down, DaemonRecord, DaemonStep, Slot, Purpose

LEMMA LaunchFields ==
    ASSUME NEW d \in DaemonRecord, NEW slot \in Slot, NEW then \in Purpose
    PROVE  /\ Launch(d, slot, then) \in DaemonRecord
           /\ Launch(d, slot, then).pc = "stop" /\ Launch(d, slot, then).slot = slot
           /\ Launch(d, slot, then).then = then /\ Launch(d, slot, then).proc = Null
           /\ Launch(d, slot, then).req = d.req
  BY DEF Launch, DaemonRecord, DaemonStep

LEMMA GotoFields ==
    ASSUME ReleaseTypeOK, NEW pc \in DaemonStep, Goto(pc)
    PROVE  /\ daemon' \in DaemonRecord /\ daemon'.pc = pc /\ daemon'.req = daemon.req
           /\ daemon'.slot = daemon.slot /\ daemon'.back = daemon.back
           /\ daemon'.proc = daemon.proc /\ daemon'.then = daemon.then
  BY DaemonFields DEF Goto, DaemonRecord

LEMMA KilledFields ==
    ASSUME ReleaseTypeOK, NEW P
    PROVE  /\ Killed(P) \in [Pid -> Process]
           /\ \A p \in Pid : /\ p \in P => Killed(P)[p].life = "dead"
                             /\ p \notin P => Killed(P)[p] = proc[p]
  BY DEF ReleaseTypeOK, Killed, Dead, Process, Slot, Port

\* No process comes up, none changes its port.
Fades == \A p \in Pid : proc'[p].life # "dead" =>
                           proc[p].life # "dead" /\ proc'[p].port = proc[p].port

LEMMA KilledFades == ASSUME ReleaseTypeOK, NEW P, proc' = Killed(P) PROVE Fades
  BY KilledFields DEF Fades

\* Where no process comes up and the one that was started is not lost.
LEMMA PortOwnedFades ==
    ASSUME RelInv, Fades, gaps \subseteq gaps',
           Managed' = Managed \/ ~Alive(Managed) \/ proc'[Managed].life = "dead",
           \/ ~Replacing \/ "orphan" \in gaps' \/ Managed' = daemon.proc
           \/ proc'[daemon.proc].life = "dead"
           \/ Replacing' /\ daemon'.proc = daemon.proc,
           (daemon.pc = "start" \/ Replacing)' => ~Alive(Managed)'
    PROVE  PortOwned'
<1> SUFFICES ASSUME "orphan" \notin gaps',
                    NEW p \in Pid, proc'[p].port = "primary" /\ proc'[p].life # "dead"
             PROVE  p = Managed' \/ (Replacing' /\ p = daemon'.proc)
  BY DEF PortOwned
<1>1. proc[p].life # "dead" /\ proc[p].port = "primary"
  BY DEF Fades
<1>2. p = Managed \/ (Replacing /\ p = daemon.proc)
  BY <1>1 DEF RelInv, PortOwned
<1>3. p = Managed => Alive(Managed)
  BY <1>1, ReleaseAssumption DEF Alive
<1> QED BY <1>2, <1>3

\* The parts of RelInv that do not speak of the processes, where nothing but the
\* daemon's own record moves on: to the loop, or to another launch.
LEMMA Idles ==
    ASSUME RelInv, daemon' \in DaemonRecord, UNCHANGED <<pointer, release, queue>>,
           gaps \subseteq gaps', daemon'.pc \in {"idle", "answer"},
           daemon'.pc = "answer" => daemon'.req # Null,
           daemon'.req # Null => queue # <<>>
    PROVE  Serves' /\ Aims'
  BY DEF RelInv, Serves, Aims

LEMMA Launches ==
    ASSUME RelInv, UNCHANGED <<pointer, release, queue>>, gaps \subseteq gaps',
           daemon'.pc = "stop", daemon'.req # Null => queue # <<>>,
           daemon'.then \in {"ensure", "revive", "restart", "restore", "promote"},
           daemon'.then \in {"ensure", "restart"} => daemon'.slot = pointer,
           daemon'.then = "revive" =>
              st'.process = Null /\ ("stale" \notin gaps => daemon'.slot = pointer)
    PROVE  Serves' /\ Aims'
  BY DEF RelInv, Serves, Aims

LEMMA TypeParts ==
    ASSUME RelInv
    PROVE  /\ proc \in [Pid -> Process] /\ pointer \in Slot /\ st \in State
           /\ release \in ReleaseState /\ queue \in Seq(Asked)
           /\ result \in [RequestId -> {"none", "ok", "failed"}]
           /\ daemon \in DaemonRecord
           /\ restarts \in 0..MaxRestarts /\ gaps \subseteq {"orphan", "stale"}
           /\ breaks \in 0..MaxBreaks /\ faults \in 0..MaxFaults
  BY DEF RelInv, ReleaseTypeOK, DaemonRecord

LEMMA FaultType ==
    ASSUME RelInv, Fault \/ UNCHANGED faults PROVE faults' \in 0..MaxFaults
  BY ReleaseAssumption DEF RelInv, ReleaseTypeOK, Fault

-------------------------------------------------------------------------------
\* The processes.

LEMMA ProcessSteps ==
    ASSUME RelInv, NEW p \in Pid, Boot(p) \/ Fails(p) PROVE RelInv'
<1>1. /\ UNCHANGED <<files, asked, daemon, restarts, gaps, breaks>>
      /\ Fault \/ UNCHANGED faults
      /\ proc[p].life # "dead"
      /\ Becomes(p, "serving") \/ Becomes(p, "sick") \/ proc' = Killed({p})
  BY DEF Boot, Fails
<1>2. /\ UNCHANGED <<pointer, st, release, queue, result, daemon, restarts, gaps, breaks>>
      /\ Managed' = Managed
  BY <1>1 DEF files, asked, Managed
<1>3. proc' \in [Pid -> Process] /\ Fades
  <2>1. CASE proc' = Killed({p})
    BY <2>1, KilledFields, KilledFades DEF RelInv
  <2>2. CASE Becomes(p, "serving") \/ Becomes(p, "sick")
    BY <1>1, <2>2 DEF Becomes, RelInv, ReleaseTypeOK, Process, Fades
  <2> QED BY <1>1, <2>1, <2>2
<1>4. ReleaseTypeOK'
  BY <1>1, <1>2, <1>3, FaultType DEF RelInv, ReleaseTypeOK
<1>5. Serves' /\ Aims' /\ Recorded'
  BY <1>2 DEF RelInv, Serves, Aims, Recorded
<1>6. PortOwned'
  <2>1. ~Alive(Managed) => ~Alive(Managed)'
    <3>1. Managed \in Pid \cup {Null}
      BY StateFields DEF RelInv
    <3> QED BY <1>2, <1>3, <3>1 DEF Alive, Fades
  <2> QED BY <1>2, <1>3, <2>1, PortOwnedFades DEF RelInv, PortOwned, Replacing
<1> QED BY <1>4, <1>5, <1>6 DEF RelInv

LEMMA StopSteps == ASSUME RelInv, Kill \/ Terminate PROVE RelInv'
<1>1. PICK phase \in Phase : Stopped(phase)
  BY StateFields DEF RelInv, Kill, Terminate, Phase
<1>2. /\ UNCHANGED <<proc, pointer, release, queue, result, restarts, faults>>
      /\ breaks < MaxBreaks /\ breaks' = breaks + 1
      /\ st' = [st EXCEPT !.phase = phase] /\ daemon' = Down
      /\ gaps' = IF daemon.pc \in {"wait", "point", "record"}
                 THEN gaps \cup {"orphan"} ELSE gaps
  BY <1>1 DEF Stopped, asked
<1>3. st' \in State /\ st'.process = st.process /\ st'.active = st.active /\ Managed' = Managed
  BY <1>2 DEF RelInv, ReleaseTypeOK, State, Managed
<1>4. daemon' \in DaemonRecord /\ daemon'.pc = "down" /\ daemon'.req = Null
  BY <1>2 DEF Down, DaemonRecord, DaemonStep, Slot, Purpose
<1>5. ReleaseTypeOK'
  <2>1. breaks' \in 0..MaxBreaks
    BY <1>2, ReleaseAssumption DEF RelInv, ReleaseTypeOK
  <2> QED BY <1>2, <1>3, <1>4, <2>1, TypeParts DEF ReleaseTypeOK, DaemonRecord
<1>6. Serves' /\ Aims'
  BY <1>2, <1>4 DEF RelInv, Serves, Aims
<1>7. Recorded'
  BY <1>2, <1>3, <1>4 DEF RelInv, Recorded
<1>8. PortOwned'
  BY <1>2, <1>3, <1>4, PortOwnedFades DEF Replacing, Fades
<1> QED BY <1>5, <1>6, <1>7, <1>8 DEF RelInv

LEMMA StartDaemonStep == ASSUME RelInv, StartDaemon PROVE RelInv'
<1>1. /\ UNCHANGED <<proc, pointer, st, release, queue, result, gaps, breaks, faults>>
      /\ daemon.pc = "down" /\ Goto("recover") /\ restarts' = 0
  BY DEF StartDaemon, files, asked, bounds, At
<1>2. /\ daemon' \in DaemonRecord /\ daemon'.pc = "recover" /\ daemon'.req = daemon.req
      /\ daemon'.proc = daemon.proc
  BY <1>1, GotoFields DEF RelInv, DaemonStep
<1>3. ReleaseTypeOK'
  BY <1>1, <1>2, TypeParts, ReleaseAssumption DEF ReleaseTypeOK, DaemonRecord
<1>4. Serves' /\ Aims' /\ Recorded'
  BY <1>1, <1>2 DEF RelInv, Serves, Aims, Recorded
<1>5. PortOwned'
  BY <1>1, <1>2, PortOwnedFades DEF Replacing, Fades, Managed
<1> QED BY <1>3, <1>4, <1>5 DEF RelInv

LEMMA RecoverStep == ASSUME RelInv, Recover PROVE RelInv'
<1>1. /\ daemon.pc = "recover"
      /\ UNCHANGED <<queue, result, release, restarts, gaps, breaks, faults>>
      /\ Interrupted \/ Adopt \/ StartAnew
  BY DEF Recover, Interrupted, Adopt, StartAnew, files, asked, bounds, At
<1>2. daemon \in DaemonRecord /\ (daemon.req # Null => queue # <<>>)
      /\ st \in State /\ Managed \in Pid \cup {Null} /\ Other(pointer) \in Slot
      /\ st.previous \in Slot \cup {Null} /\ pointer \in Slot
  BY DaemonFields, StateFields DEF RelInv, Serves
<1>3. CASE Interrupted \/ StartAnew
  <2>1. PICK slot \in Slot, then \in {"ensure", "restore"} :
           /\ daemon' = Launch(daemon, slot, then)
           /\ then = "ensure" => slot = pointer
    BY <1>2, <1>3 DEF Interrupted, StartAnew
  <2>2. /\ UNCHANGED <<st, pointer>> /\ Managed' = Managed
        /\ \E P : proc' = Killed(P)
    BY <1>3 DEF Interrupted, StartAnew, files, Managed
  <2>3. /\ daemon' \in DaemonRecord /\ daemon'.pc = "stop" /\ daemon'.slot = slot
        /\ daemon'.then = then /\ daemon'.req = daemon.req
    <3>1. then \in Purpose /\ daemon \in DaemonRecord
      BY <1>2 DEF Purpose
    <3> QED BY <2>1, <3>1, LaunchFields
  <2>4. proc' \in [Pid -> Process] /\ Fades
    BY <2>2, KilledFields, KilledFades DEF RelInv
  <2>5. ReleaseTypeOK'
    BY <1>1, <2>2, <2>3, <2>4, TypeParts DEF ReleaseTypeOK, DaemonRecord
  <2>6. Serves' /\ Aims'
    BY <1>1, <1>2, <2>1, <2>2, <2>3, Launches
  <2>7. Recorded'
    BY <1>1, <2>2, <2>3 DEF RelInv, Recorded
  <2>8. PortOwned'
    BY <1>1, <2>2, <2>3, <2>4, PortOwnedFades DEF Replacing
  <2> QED BY <2>5, <2>6, <2>7, <2>8 DEF RelInv
<1>4. CASE Adopt
  <2>1. /\ Alive(Managed) /\ pointer' = st.process.slot /\ proc' = proc
        /\ st' = [st EXCEPT !.phase = "running", !.active = pointer']
        /\ daemon' = Done(daemon, TRUE)
    BY <1>4 DEF Adopt
  <2>2. pointer' \in Slot
    BY <2>1, StateFields DEF RelInv, Alive, Managed
  <2>3. /\ st' \in State /\ st'.process = st.process /\ st'.active = pointer'
        /\ Managed' = Managed
    BY <1>2, <2>1, <2>2 DEF State, Phase, Managed
  <2>4. /\ daemon' \in DaemonRecord /\ daemon'.req = daemon.req
        /\ daemon'.pc = IF daemon.req = Null THEN "idle" ELSE "answer"
    BY <1>2, <2>1, DoneFields DEF DaemonRecord
  <2>5. ReleaseTypeOK'
    BY <1>1, <2>1, <2>2, <2>3, <2>4, TypeParts DEF ReleaseTypeOK, DaemonRecord
  <2>6. Serves' /\ Aims' /\ Recorded'
    BY <1>1, <1>2, <2>1, <2>3, <2>4 DEF RelInv, Serves, Aims, Recorded
  <2>7. PortOwned'
    BY <1>1, <2>1, <2>3, <2>4, PortOwnedFades DEF Replacing, Fades
  <2> QED BY <2>5, <2>6, <2>7 DEF RelInv
<1> QED BY <1>1, <1>3, <1>4

\* Steps of the daemon between a switch that is over and the next: the record of the
\* process stays as it is.
Between == {"idle", "answer", "unlink", "publish", "stage", "staged", "staging", "unstage"}

LEMMA Rests ==
    ASSUME RelInv, Fades, UNCHANGED <<pointer, gaps>>, st'.process = st.process,
           st'.active \in {st.active, pointer}, daemon.pc \in Between,
           daemon'.pc \in Between \cup {"stop"}
    PROVE  Recorded' /\ PortOwned'
<1>1. Managed' = Managed /\ ~Replacing /\ ~Replacing' /\ daemon'.pc # "start"
  BY DEF Managed, Replacing, Between
<1>2. Recorded'
  BY DEF RelInv, Recorded, Between
<1>3. PortOwned'
  BY <1>1, PortOwnedFades
<1> QED BY <1>2, <1>3

-------------------------------------------------------------------------------
\* Requests.

LEMMA DispatchStep == ASSUME RelInv, Dispatch PROVE RelInv'
<1>1. /\ daemon.pc = "idle" /\ queue # <<>>
      /\ UNCHANGED <<proc, pointer, release, queue, result, restarts, gaps, breaks>>
  BY DEF Dispatch, asked, At
<1>2. PICK r \in Asked, d \in DaemonRecord :
         /\ d = [daemon EXCEPT !.req = r.id]
         /\ \/ daemon' = [d EXCEPT !.pc = "unlink"] /\ UNCHANGED <<st, faults>>
            \/ PromoteAsked(r, d) \/ RollbackAsked(r, d) \/ RestartAsked(r, d)
  <2>1. Head(queue) \in Asked
    BY <1>1, TypeParts
  <2>2. [daemon EXCEPT !.req = Head(queue).id] \in DaemonRecord
    BY <2>1, TypeParts DEF DaemonRecord, Asked
  <2> QED BY <2>1, <2>2 DEF Dispatch
<1>3. /\ d.req \in RequestId /\ d.req # Null /\ d.pc = "idle"
      /\ r.target \in Slot /\ pointer \in Slot /\ st \in State
  BY <1>1, <1>2, TypeParts, ReleaseAssumption DEF DaemonRecord, Asked
<1>4. /\ Fault \/ UNCHANGED faults
      /\ st' = st \/ st' = Switching
  BY <1>2 DEF PromoteAsked, RollbackAsked, RestartAsked
<1>5. st' \in State /\ st'.process = st.process /\ st'.active = st.active
  BY <1>3, <1>4 DEF Switching, State, Phase
<1>6. \/ daemon' = [d EXCEPT !.pc = "unlink"]
      \/ \E ok \in BOOLEAN : daemon' = Done(d, ok)
      \/ \E slot \in Slot, then \in {"ensure", "restart", "restore"} :
            /\ daemon' = Launch(d, slot, then)
            /\ then \in {"ensure", "restart"} => slot = pointer
      \/ daemon' = [d EXCEPT !.pc = "stage", !.slot = r.target, !.back = pointer]
  BY <1>2, <1>3 DEF PromoteAsked, RollbackAsked, RestartAsked
<1>7. /\ daemon' \in DaemonRecord /\ daemon'.pc \in Between \cup {"stop"}
      /\ Serves' /\ Aims'
  <2>1. CASE daemon' = [d EXCEPT !.pc = "unlink"]
    <3>1. daemon' \in DaemonRecord /\ daemon'.pc = "unlink" /\ daemon'.req # Null
      BY <1>3, <2>1 DEF DaemonRecord, DaemonStep
    <3> QED BY <1>1, <3>1 DEF RelInv, Serves, Aims, Between
  <2>2. CASE \E ok \in BOOLEAN : daemon' = Done(d, ok)
    <3>1. daemon' \in DaemonRecord /\ daemon'.pc = "answer" /\ daemon'.req # Null
      BY <1>3, <2>2, DoneFields
    <3> QED BY <1>1, <3>1, Idles DEF Between
  <2>3. ASSUME NEW slot \in Slot, NEW then \in {"ensure", "restart", "restore"},
               daemon' = Launch(d, slot, then),
               then \in {"ensure", "restart"} => slot = pointer
        PROVE  /\ daemon' \in DaemonRecord /\ daemon'.pc \in Between \cup {"stop"}
               /\ Serves' /\ Aims'
    <3>1. then \in Purpose
      BY DEF Purpose
    <3>2. /\ daemon' \in DaemonRecord /\ daemon'.pc = "stop"
          /\ daemon'.then = then /\ daemon'.slot = slot
      BY <2>3, <3>1, LaunchFields
    <3>3. Serves' /\ Aims'
      BY <1>1, <2>3, <3>2, Launches
    <3> QED BY <3>2, <3>3
  <2>4. CASE daemon' = [d EXCEPT !.pc = "stage", !.slot = r.target, !.back = pointer]
    <3>1. /\ daemon' \in DaemonRecord /\ daemon'.pc = "stage" /\ daemon'.back = pointer
      BY <1>3, <2>4 DEF DaemonRecord, DaemonStep
    <3> QED BY <1>1, <3>1 DEF RelInv, Serves, Aims, Between
  <2> QED BY <1>6, <2>1, <2>2, <2>3, <2>4
<1>8. ReleaseTypeOK'
  BY <1>1, <1>4, <1>5, <1>7, TypeParts, FaultType DEF ReleaseTypeOK, DaemonRecord
<1>9. Recorded' /\ PortOwned'
  BY <1>1, <1>5, <1>7, Rests DEF Between, Fades
<1> QED BY <1>7, <1>8, <1>9 DEF RelInv

LEMMA AnswerStep == ASSUME RelInv, Answer PROVE RelInv'
<1>1. /\ daemon.pc = "answer" /\ Goto("unlink")
      /\ result' = [result EXCEPT ![daemon.req] = IF daemon.ok THEN "ok" ELSE "failed"]
      /\ UNCHANGED <<proc, pointer, st, release, queue, restarts, gaps, breaks, faults>>
  BY DEF Answer, files, bounds, At
<1>2. /\ daemon' \in DaemonRecord /\ daemon'.pc = "unlink" /\ daemon'.req = daemon.req
  BY <1>1, GotoFields DEF RelInv, DaemonStep
<1>3. result' \in [RequestId -> {"none", "ok", "failed"}]
  BY <1>1, TypeParts
<1>4. ReleaseTypeOK'
  BY <1>1, <1>2, <1>3, TypeParts DEF ReleaseTypeOK, DaemonRecord
<1>5. Serves' /\ Aims'
  BY <1>1, <1>2 DEF RelInv, Serves, Aims
<1>6. Recorded' /\ PortOwned'
  BY <1>1, <1>2, Rests DEF Between, Fades
<1> QED BY <1>4, <1>5, <1>6 DEF RelInv

LEMMA UnlinkStep == ASSUME RelInv, Unlink PROVE RelInv'
<1>1. /\ daemon.pc = "unlink" /\ queue' = Tail(queue)
      /\ daemon' = Done([daemon EXCEPT !.req = Null], TRUE)
      /\ UNCHANGED <<proc, pointer, st, release, result, restarts, gaps, breaks, faults>>
  BY DEF Unlink, files, bounds, At
<1>2. PICK d : d = [daemon EXCEPT !.req = Null]
  OBVIOUS
<1>3. d.req = Null
  BY <1>2, TypeParts DEF DaemonRecord
<1>4. daemon' \in DaemonRecord /\ daemon'.pc = "idle" /\ daemon'.req = Null
  BY <1>1, <1>2, <1>3, DoneFields
<1>5. queue' \in Seq(Asked)
  BY <1>1, TypeParts DEF RelInv, Serves
<1>6. ReleaseTypeOK'
  BY <1>1, <1>4, <1>5, TypeParts DEF ReleaseTypeOK, DaemonRecord
<1>7. Serves' /\ Aims'
  BY <1>1, <1>4 DEF RelInv, Serves, Aims
<1>8. Recorded' /\ PortOwned'
  BY <1>1, <1>4, Rests DEF Between, Fades
<1> QED BY <1>6, <1>7, <1>8 DEF RelInv

LEMMA PublishStep == ASSUME RelInv, Publish PROVE RelInv'
<1>1. /\ daemon.pc = "publish" /\ daemon' = Done(daemon, daemon.ok)
      /\ UNCHANGED <<proc, pointer, st, queue, result, restarts, gaps, breaks, faults>>
  BY DEF Publish, asked, bounds, At
<1>2. /\ daemon \in DaemonRecord /\ daemon.slot \in Slot /\ daemon.back \in Slot
      /\ daemon.req \in RequestId \cup {Null} /\ daemon.ok \in BOOLEAN
  BY DaemonFields DEF RelInv
<1>3. /\ daemon' \in DaemonRecord /\ daemon'.req = daemon.req
      /\ daemon'.pc = IF daemon.req = Null THEN "idle" ELSE "answer"
  BY <1>1, <1>2, DoneFields
<1>4. /\ release' \in ReleaseState
      /\ release'.monitoring => release'.previous # Null
  BY <1>2, ReleaseAssumption DEF Publish, ReleaseState, Slot
<1>5. ReleaseTypeOK'
  BY <1>1, <1>3, <1>4, TypeParts DEF ReleaseTypeOK, DaemonRecord
<1>6. Serves' /\ Aims'
  BY <1>1, <1>3, <1>4 DEF RelInv, Serves, Aims
<1>7. Recorded' /\ PortOwned'
  BY <1>1, <1>3, Rests DEF Between, Fades
<1> QED BY <1>5, <1>6, <1>7 DEF RelInv

-------------------------------------------------------------------------------
\* A promotion.

LEMMA FailSwitchFields ==
    ASSUME RelInv, FailSwitch, daemon.back = pointer
    PROVE  /\ st' \in State /\ st'.process = st.process /\ st'.active = pointer
           /\ daemon' \in DaemonRecord /\ daemon'.pc = "publish" /\ daemon'.req = daemon.req
<1>1. st \in State /\ daemon \in DaemonRecord /\ pointer \in Slot
  BY TypeParts
<1>2. st' \in State /\ st'.process = st.process /\ st'.active = pointer
  BY <1>1 DEF FailSwitch, State, Phase
<1>3. daemon' \in DaemonRecord /\ daemon'.pc = "publish" /\ daemon'.req = daemon.req
  BY <1>1 DEF FailSwitch, DaemonRecord, DaemonStep, Purpose
<1> QED BY <1>2, <1>3

\* The process that was started: its number was not in use.
LEMMA SpawnedFields ==
    ASSUME RelInv, NEW slot \in Slot, NEW port \in Port, Spawned(slot, port)
    PROVE  \E p \in Pid :
              /\ ~Alive(p) /\ p # Managed
              /\ proc' \in [Pid -> Process]
              /\ proc'[p].port = port
              /\ \A q \in Pid \ {p} : proc'[q] = proc[q]
              /\ daemon' \in DaemonRecord /\ daemon'.proc = p /\ p # Null
              /\ daemon'.pc = IF port = "primary" THEN "wait" ELSE "staged"
              /\ daemon'.req = daemon.req /\ daemon'.slot = daemon.slot
              /\ daemon'.back = daemon.back /\ daemon'.then = daemon.then
<1>1. PICK p \in Free :
         /\ proc' = [proc EXCEPT ![p] = [slot |-> slot, port |-> port, life |-> "starting"]]
         /\ daemon' = [daemon EXCEPT !.pc = IF port = "primary" THEN "wait" ELSE "staged",
                                     !.proc = p]
  BY DEF Spawned
<1>2. p \in Pid /\ p # Null /\ ~Alive(p) /\ p # Managed
  BY ReleaseAssumption DEF Free
<1>3. /\ proc' \in [Pid -> Process] /\ proc'[p].port = port
      /\ \A q \in Pid \ {p} : proc'[q] = proc[q]
  BY <1>1, <1>2, TypeParts DEF Process
<1>4. PICK pc \in DaemonStep : pc = IF port = "primary" THEN "wait" ELSE "staged"
  BY DEF DaemonStep
<1>5. daemon' = [daemon EXCEPT !.pc = pc, !.proc = p]
  BY <1>1, <1>4
<1>6. /\ daemon' \in DaemonRecord /\ daemon'.proc = p /\ daemon'.pc = pc
      /\ daemon'.req = daemon.req /\ daemon'.slot = daemon.slot
      /\ daemon'.back = daemon.back /\ daemon'.then = daemon.then
  BY <1>2, <1>5, TypeParts DEF DaemonRecord
<1> QED BY <1>2, <1>3, <1>4, <1>6

LEMMA StageStep == ASSUME RelInv, Stage PROVE RelInv'
<1>1. /\ daemon.pc = "stage" /\ daemon.back = pointer
      /\ UNCHANGED <<pointer, release, queue, result, restarts, gaps, breaks>>
      /\ Fault \/ UNCHANGED faults
  BY DEF RelInv, Aims, Stage, asked, At
<1>2. CASE Spawned(daemon.slot, "staging") /\ UNCHANGED <<st, faults>>
  <2>1. daemon.slot \in Slot /\ "staging" \in Port
    BY DaemonFields DEF RelInv, Port
  <2>2. PICK p \in Pid :
           /\ proc' \in [Pid -> Process] /\ proc'[p].port = "staging"
           /\ \A q \in Pid \ {p} : proc'[q] = proc[q]
           /\ daemon' \in DaemonRecord /\ daemon'.proc = p /\ p # Null
           /\ daemon'.pc = "staged" /\ daemon'.req = daemon.req
           /\ daemon'.back = daemon.back
    BY <1>2, <2>1, SpawnedFields
  <2>3. ReleaseTypeOK'
    BY <1>1, <1>2, <2>2, TypeParts, FaultType DEF ReleaseTypeOK, DaemonRecord
  <2>4. Serves' /\ Aims' /\ Recorded'
    BY <1>1, <1>2, <2>2 DEF RelInv, Serves, Aims, Recorded
  <2>5. PortOwned'
    BY <1>1, <1>2, <2>2 DEF RelInv, PortOwned, Replacing, Managed
  <2> QED BY <2>3, <2>4, <2>5 DEF RelInv
<1>3. CASE FailSwitch /\ UNCHANGED proc
  <2>1. /\ st' \in State /\ st'.process = st.process /\ st'.active = pointer
        /\ daemon' \in DaemonRecord /\ daemon'.pc = "publish" /\ daemon'.req = daemon.req
    BY <1>1, <1>3, FailSwitchFields
  <2>2. ReleaseTypeOK'
    BY <1>1, <1>3, <2>1, TypeParts, FaultType DEF ReleaseTypeOK, DaemonRecord
  <2>3. Serves' /\ Aims'
    BY <1>1, <2>1 DEF RelInv, Serves, Aims
  <2>4. Recorded' /\ PortOwned'
    BY <1>1, <1>3, <2>1, Rests DEF Between, Fades
  <2> QED BY <2>2, <2>3, <2>4 DEF RelInv
<1> QED BY <1>2, <1>3 DEF Stage

LEMMA NoteCandidateStep == ASSUME RelInv, NoteCandidate PROVE RelInv'
<1>1. /\ daemon.pc = "staged" /\ Goto("staging")
      /\ st' = [st EXCEPT !.candidate = daemon.proc]
      /\ UNCHANGED <<proc, pointer, release, queue, result, restarts, gaps, breaks, faults>>
  BY DEF NoteCandidate, asked, bounds, At
<1>2. /\ daemon' \in DaemonRecord /\ daemon'.pc = "staging" /\ daemon'.req = daemon.req
      /\ daemon'.proc = daemon.proc /\ daemon'.back = daemon.back
  BY <1>1, GotoFields DEF RelInv, DaemonStep
<1>3. st' \in State /\ st'.process = st.process /\ st'.active = st.active
  BY <1>1, TypeParts DEF State, DaemonRecord
<1>4. ReleaseTypeOK'
  BY <1>1, <1>2, <1>3, TypeParts DEF ReleaseTypeOK, DaemonRecord
<1>5. Serves' /\ Aims'
  BY <1>1, <1>2 DEF RelInv, Serves, Aims
<1>6. Recorded' /\ PortOwned'
  BY <1>1, <1>2, <1>3, Rests DEF Between, Fades
<1> QED BY <1>4, <1>5, <1>6 DEF RelInv

LEMMA StagedStep == ASSUME RelInv, Staged PROVE RelInv'
<1>1. /\ daemon.pc = "staging" /\ daemon.back = pointer /\ proc' = Killed({daemon.proc})
      /\ UNCHANGED <<pointer, release, queue, result, restarts, gaps, breaks, faults>>
  BY DEF RelInv, Aims, Staged, asked, bounds, At
<1>2. proc' \in [Pid -> Process] /\ Fades
  BY <1>1, KilledFields, KilledFades DEF RelInv
<1>3. /\ st' \in State /\ st'.process = st.process /\ st'.active \in {st.active, pointer}
      /\ daemon' \in DaemonRecord /\ daemon'.pc \in {"unstage", "publish"}
      /\ daemon'.req = daemon.req /\ (daemon'.pc = "unstage" => daemon'.back = pointer)
  <2>1. CASE Goto("unstage") /\ UNCHANGED st
    <3>1. /\ daemon' \in DaemonRecord /\ daemon'.pc = "unstage" /\ daemon'.req = daemon.req
          /\ daemon'.back = daemon.back
      BY <2>1, GotoFields DEF RelInv, DaemonStep
    <3> QED BY <1>1, <2>1, <3>1, TypeParts
  <2>2. CASE FailSwitch
    BY <1>1, <2>2, FailSwitchFields
  <2> QED BY <2>1, <2>2 DEF Staged
<1>4. ReleaseTypeOK'
  BY <1>1, <1>2, <1>3, TypeParts DEF ReleaseTypeOK, DaemonRecord
<1>5. Serves' /\ Aims'
  BY <1>1, <1>3 DEF RelInv, Serves, Aims
<1>6. Recorded' /\ PortOwned'
  BY <1>1, <1>2, <1>3, Rests DEF Between
<1> QED BY <1>4, <1>5, <1>6 DEF RelInv

LEMMA UnstageStep == ASSUME RelInv, Unstage PROVE RelInv'
<1>1. /\ daemon.pc = "unstage" /\ daemon' = Launch(daemon, daemon.slot, "promote")
      /\ st' = [st EXCEPT !.candidate = Null]
      /\ UNCHANGED <<proc, pointer, release, queue, result, restarts, gaps, breaks, faults>>
  BY DEF Unstage, asked, bounds, At
<1>2. /\ daemon' \in DaemonRecord /\ daemon'.pc = "stop" /\ daemon'.req = daemon.req
      /\ daemon'.then = "promote"
  <2>1. daemon \in DaemonRecord /\ daemon.slot \in Slot /\ "promote" \in Purpose
    BY DaemonFields DEF RelInv, Purpose
  <2> QED BY <1>1, <2>1, LaunchFields
<1>3. st' \in State /\ st'.process = st.process /\ st'.active = st.active
  BY <1>1, TypeParts DEF State
<1>4. ReleaseTypeOK'
  BY <1>1, <1>2, <1>3, TypeParts DEF ReleaseTypeOK, DaemonRecord
<1>5. Serves' /\ Aims'
  BY <1>1, <1>2, Launches DEF RelInv, Serves
<1>6. Recorded' /\ PortOwned'
  BY <1>1, <1>2, <1>3, Rests DEF Between, Fades
<1> QED BY <1>4, <1>5, <1>6 DEF RelInv

-------------------------------------------------------------------------------
\* On the primary port.

LEMMA StopCurrentStep == ASSUME RelInv, StopCurrent PROVE RelInv'
<1>1. /\ daemon.pc = "stop"
      /\ UNCHANGED <<pointer, release, queue, result, restarts, gaps, breaks, faults>>
      /\ daemon \in DaemonRecord /\ daemon.req \in RequestId \cup {Null}
      /\ st \in State /\ Managed \in Pid \cup {Null}
  BY DaemonFields, StateFields DEF RelInv, StopCurrent, asked, bounds, At
<1>2. CASE /\ Ensures /\ Alive(Managed) /\ st.process.slot = daemon.slot
           /\ daemon' = Done(daemon, TRUE) /\ UNCHANGED <<proc, st>>
  <2>1. /\ daemon' \in DaemonRecord /\ daemon'.req = daemon.req
        /\ daemon'.pc = IF daemon.req = Null THEN "idle" ELSE "answer"
    BY <1>1, <1>2, DoneFields
  <2>2. ReleaseTypeOK'
    BY <1>1, <1>2, <2>1, TypeParts DEF ReleaseTypeOK, DaemonRecord
  <2>3. Serves' /\ Aims'
    BY <1>1, <2>1, Idles DEF RelInv, Serves
  <2>4. Recorded'
    BY <1>1, <1>2, <2>1 DEF RelInv, Recorded, Aims, Ensures
  <2>5. PortOwned'
    BY <1>1, <1>2, <2>1, PortOwnedFades DEF Replacing, Fades, Managed
  <2> QED BY <2>2, <2>3, <2>4, <2>5 DEF RelInv
<1>3. CASE /\ proc' = Killed({Managed}) /\ Goto("start")
           /\ st' = IF Ensures /\ Alive(Managed) THEN [st EXCEPT !.process = Null] ELSE st
  <2>1. /\ daemon' \in DaemonRecord /\ daemon'.pc = "start" /\ daemon'.req = daemon.req
        /\ daemon'.slot = daemon.slot /\ daemon'.then = daemon.then
    BY <1>3, GotoFields DEF RelInv, DaemonStep
  <2>2. proc' \in [Pid -> Process] /\ Fades
    BY <1>3, KilledFields, KilledFades DEF RelInv
  <2>3. /\ st' \in State /\ st'.active = st.active
        /\ st'.process \in {st.process, Null} /\ Managed' \in {Managed, Null}
    BY <1>1, <1>3 DEF State, Managed
  <2>4. Managed = Null \/ proc'[Managed].life = "dead"
    BY <1>1, <1>3, KilledFields DEF RelInv
  <2>5. ReleaseTypeOK'
    BY <1>1, <2>1, <2>2, <2>3, TypeParts DEF ReleaseTypeOK, DaemonRecord
  <2>6. Serves' /\ Aims' /\ Recorded'
    BY <1>1, <2>1, <2>3 DEF RelInv, Serves, Aims, Recorded
  <2>7. PortOwned'
    BY <1>1, <2>1, <2>2, <2>3, <2>4, PortOwnedFades DEF Replacing, Alive
  <2> QED BY <2>5, <2>6, <2>7 DEF RelInv
<1> QED BY <1>2, <1>3 DEF StopCurrent

\* A start that failed, or a process that did not become healthy: the record of the
\* process is the one given, is dropped or stays.
LEMMA NotLaunchedFields ==
    ASSUME RelInv, NEW process, process \in {st.process, Null}, NotLaunched(process),
           daemon.pc \in {"start", "wait"}
    PROVE  /\ st' \in State /\ st'.active = st.active /\ st'.process \in {st.process, Null}
           /\ daemon' \in DaemonRecord /\ daemon'.req = daemon.req
           /\ daemon'.proc = Null
           /\ \/ daemon'.pc = "stop" /\ daemon'.then = "restore" /\ st' = st
              \/ /\ daemon'.pc = IF daemon.req = Null THEN "idle" ELSE "answer"
                 /\ st'.process \in {process, Null}
<1>1. /\ daemon \in DaemonRecord /\ daemon.req \in RequestId \cup {Null}
      /\ daemon.back \in Slot /\ st \in State /\ "restore" \in Purpose
      /\ process \in [pid : Pid, slot : Slot] \cup {Null}
  BY DaemonFields, StateFields DEF RelInv, Purpose
<1>2. CASE daemon.then = "promote"
  <2>1. daemon' = Launch(daemon, daemon.back, "restore") /\ st' = st
    BY <1>2 DEF NotLaunched
  <2>2. /\ daemon' \in DaemonRecord /\ daemon'.pc = "stop" /\ daemon'.then = "restore"
        /\ daemon'.req = daemon.req /\ daemon'.proc = Null
    BY <1>1, <2>1, LaunchFields
  <2> QED BY <1>1, <2>1, <2>2
<1>3. CASE daemon.then # "promote"
  <2>1. /\ daemon' = Done(daemon, FALSE)
        /\ \/ st' = [st EXCEPT !.phase = "degraded", !.process = Null]
           \/ st' = [st EXCEPT !.phase = "degraded", !.process = process]
           \/ st' = [st EXCEPT !.process = process]
    BY <1>3 DEF NotLaunched
  <2>2. /\ daemon' \in DaemonRecord /\ daemon'.req = daemon.req /\ daemon'.proc = Null
        /\ daemon'.pc = IF daemon.req = Null THEN "idle" ELSE "answer"
    BY <1>1, <2>1, DoneFields
  <2>3. st' \in State /\ st'.active = st.active /\ st'.process \in {process, Null}
    BY <1>1, <2>1 DEF State, Phase
  <2> QED BY <2>2, <2>3
<1> QED BY <1>2, <1>3

LEMMA StartStep == ASSUME RelInv, Start PROVE RelInv'
<1>1. /\ daemon.pc = "start" /\ ~Alive(Managed)
      /\ Fault \/ UNCHANGED faults
      /\ UNCHANGED <<pointer, release, queue, result, restarts, breaks>>
  BY DEF RelInv, PortOwned, Start, asked, At
<1>2. CASE Spawned(daemon.slot, "primary") /\ UNCHANGED <<st, faults, gaps>>
  <2>1. daemon.slot \in Slot /\ "primary" \in Port
    BY DaemonFields DEF RelInv, Port
  <2>2. PICK p \in Pid :
           /\ p # Managed /\ proc' \in [Pid -> Process]
           /\ \A q \in Pid \ {p} : proc'[q] = proc[q]
           /\ daemon' \in DaemonRecord /\ daemon'.proc = p /\ p # Null
           /\ daemon'.pc = "wait" /\ daemon'.req = daemon.req
           /\ daemon'.slot = daemon.slot /\ daemon'.then = daemon.then
    BY <1>2, <2>1, SpawnedFields
  <2>3. ReleaseTypeOK'
    BY <1>1, <1>2, <2>2, TypeParts DEF ReleaseTypeOK, DaemonRecord
  <2>4. Serves' /\ Aims' /\ Recorded'
    BY <1>1, <1>2, <2>2 DEF RelInv, Serves, Aims, Recorded
  <2>5. Managed' = Managed /\ Managed \in Pid \cup {Null}
    BY <1>2, StateFields DEF RelInv, Managed
  <2>6. ~Alive(Managed)'
    BY <1>1, <2>2, <2>5 DEF Alive
  <2>7. PortOwned'
    <3> SUFFICES ASSUME "orphan" \notin gaps', NEW q \in Pid,
                        proc'[q].port = "primary" /\ proc'[q].life # "dead"
                 PROVE  q = daemon'.proc
      BY <2>2, <2>6 DEF PortOwned, Replacing
    <3>1. ASSUME q # p PROVE FALSE
      <4>1. q = Managed
        BY <1>1, <1>2, <2>2, <3>1 DEF RelInv, PortOwned, Replacing
      <4>2. Alive(Managed)
        BY <2>2, <3>1, <4>1, ReleaseAssumption DEF Alive
      <4> QED BY <1>1, <4>2
    <3> QED BY <2>2, <3>1
  <2> QED BY <2>3, <2>4, <2>7 DEF RelInv
<1>3. CASE /\ NotLaunched(st.process) /\ UNCHANGED proc
           /\ gaps' = IF st'.process # Null /\ st'.process.slot # pointer
                      THEN gaps \cup {"stale"} ELSE gaps
  <2>1. /\ st' \in State /\ st'.active = st.active /\ st'.process \in {st.process, Null}
        /\ daemon' \in DaemonRecord /\ daemon'.req = daemon.req
        /\ \/ daemon'.pc = "stop" /\ daemon'.then = "restore" /\ st' = st
           \/ daemon'.pc = IF daemon.req = Null THEN "idle" ELSE "answer"
    BY <1>1, <1>3, NotLaunchedFields
  <2>2. gaps \subseteq gaps' /\ gaps' \subseteq {"orphan", "stale"}
    BY <1>3, TypeParts
  <2>3. ReleaseTypeOK'
    BY <1>1, <1>3, <2>1, <2>2, TypeParts, FaultType DEF ReleaseTypeOK, DaemonRecord
  <2>4. Serves' /\ Aims'
    <3>1. CASE daemon'.pc = "stop" /\ daemon'.then = "restore"
      BY <1>1, <2>1, <2>2, <3>1, Launches DEF RelInv, Serves
    <3>2. CASE daemon'.pc = IF daemon.req = Null THEN "idle" ELSE "answer"
      BY <1>1, <2>1, <2>2, <3>2, Idles DEF RelInv, Serves
    <3> QED BY <2>1, <3>1, <3>2
  <2>5. Recorded'
    BY <1>1, <1>3, <2>1, <2>2 DEF RelInv, Recorded
  <2>6. PortOwned'
    <3>1. Fades /\ ~Replacing /\ ~Replacing' /\ daemon'.pc # "start"
      BY <1>1, <1>3, <2>1 DEF Fades, Replacing
    <3> QED BY <1>1, <2>2, <3>1, PortOwnedFades
  <2> QED BY <2>3, <2>4, <2>5, <2>6 DEF RelInv
<1> QED BY <1>2, <1>3 DEF Start

LEMMA RunningFields ==
    ASSUME RelInv, daemon.proc # Null
    PROVE  /\ Running \in State /\ Running.active = daemon.slot
           /\ Running.process = [pid |-> daemon.proc, slot |-> daemon.slot]
           /\ Running.process # Null
<1>1. daemon.proc \in Pid /\ daemon.slot \in Slot /\ st \in State
  BY DaemonFields, TypeParts DEF RelInv
<1>2. [pid |-> daemon.proc, slot |-> daemon.slot] \in [pid : Pid, slot : Slot]
  BY <1>1
<1> QED BY <1>1, <1>2, ReleaseAssumption DEF Running, State, Phase, Slot

LEMMA WaitHealthyStep == ASSUME RelInv, WaitHealthy PROVE RelInv'
<1>1. /\ daemon.pc = "wait" /\ daemon.proc # Null /\ ~Alive(Managed)
      /\ daemon.then \in {"ensure", "revive", "restart", "restore", "promote"}
      /\ UNCHANGED <<pointer, release, queue, result, restarts, gaps, breaks, faults>>
      /\ daemon \in DaemonRecord /\ daemon.req \in RequestId \cup {Null}
      /\ daemon.proc \in Pid
  BY DaemonFields DEF RelInv, Serves, Aims, PortOwned, Replacing, WaitHealthy, asked, bounds, At
<1>2. CASE /\ daemon.then \in {"promote", "restore"} /\ Goto("point")
           /\ UNCHANGED <<proc, st>>
  <2>1. /\ daemon' \in DaemonRecord /\ daemon'.pc = "point" /\ daemon'.req = daemon.req
        /\ daemon'.proc = daemon.proc /\ daemon'.then = daemon.then
    BY <1>2, GotoFields DEF RelInv, DaemonStep
  <2>2. ReleaseTypeOK'
    BY <1>1, <1>2, <2>1, TypeParts DEF ReleaseTypeOK, DaemonRecord
  <2>3. Serves' /\ Aims' /\ Recorded'
    BY <1>1, <1>2, <2>1 DEF RelInv, Serves, Aims, Recorded
  <2>4. PortOwned'
    BY <1>1, <1>2, <2>1, PortOwnedFades DEF Replacing, Fades, Managed, Alive
  <2> QED BY <2>2, <2>3, <2>4 DEF RelInv
<1>3. CASE /\ daemon.then \notin {"promote", "restore"}
           /\ st' = Running /\ daemon' = Done(daemon, TRUE) /\ UNCHANGED proc
  <2>1. /\ daemon' \in DaemonRecord /\ daemon'.req = daemon.req
        /\ daemon'.pc = IF daemon.req = Null THEN "idle" ELSE "answer"
    BY <1>1, <1>3, DoneFields
  <2>2. /\ st' \in State /\ st'.active = daemon.slot /\ st'.process.slot = daemon.slot
        /\ Managed' = daemon.proc
    BY <1>1, <1>3, RunningFields DEF Managed
  <2>3. ReleaseTypeOK'
    BY <1>1, <1>3, <2>1, <2>2, TypeParts DEF ReleaseTypeOK, DaemonRecord
  <2>4. Serves' /\ Aims'
    BY <1>1, <2>1, Idles DEF RelInv, Serves
  <2>5. Recorded'
    BY <1>1, <1>3, <2>1, <2>2 DEF RelInv, Recorded, Aims
  <2>6. PortOwned'
    BY <1>1, <1>3, <2>1, <2>2, PortOwnedFades DEF Replacing, Fades
  <2> QED BY <2>3, <2>4, <2>5, <2>6 DEF RelInv
<1>4. CASE proc' = Killed({daemon.proc}) /\ NotLaunched(Null)
  <2>1. /\ st' \in State /\ st'.active = st.active /\ st'.process \in {st.process, Null}
        /\ daemon' \in DaemonRecord /\ daemon'.req = daemon.req
        /\ \/ daemon'.pc = "stop" /\ daemon'.then = "restore"
           \/ /\ daemon'.pc = IF daemon.req = Null THEN "idle" ELSE "answer"
              /\ st'.process = Null
    BY <1>1, <1>4, NotLaunchedFields
  <2>2. proc' \in [Pid -> Process] /\ Fades /\ proc'[daemon.proc].life = "dead"
    BY <1>1, <1>4, KilledFields, KilledFades DEF RelInv
  <2>3. ReleaseTypeOK'
    BY <1>1, <2>1, <2>2, TypeParts DEF ReleaseTypeOK, DaemonRecord
  <2>4. Serves' /\ Aims'
    <3>1. CASE daemon'.pc = "stop" /\ daemon'.then = "restore"
      BY <1>1, <2>1, <3>1, Launches DEF RelInv, Serves
    <3>2. CASE daemon'.pc = IF daemon.req = Null THEN "idle" ELSE "answer"
      BY <1>1, <2>1, <3>2, Idles DEF RelInv, Serves
    <3> QED BY <2>1, <3>1, <3>2
  <2>5. Recorded'
    BY <1>1, <2>1 DEF RelInv, Recorded
  <2>6. PortOwned'
    BY <1>1, <2>1, <2>2, PortOwnedFades DEF Replacing
  <2> QED BY <2>3, <2>4, <2>5, <2>6 DEF RelInv
<1> QED BY <1>2, <1>3, <1>4 DEF WaitHealthy

LEMMA PointStep == ASSUME RelInv, Point PROVE RelInv'
<1>1. /\ daemon.pc = "point" /\ Goto("record") /\ pointer' = daemon.slot
      /\ UNCHANGED <<proc, st, release, queue, result, restarts, gaps, breaks, faults>>
      /\ daemon.slot \in Slot
  BY DaemonFields DEF RelInv, Point, asked, bounds, At
<1>2. /\ daemon' \in DaemonRecord /\ daemon'.pc = "record" /\ daemon'.req = daemon.req
      /\ daemon'.proc = daemon.proc /\ daemon'.slot = daemon.slot
      /\ daemon'.then = daemon.then
  BY <1>1, GotoFields DEF RelInv, DaemonStep
<1>3. ReleaseTypeOK'
  BY <1>1, <1>2, TypeParts DEF ReleaseTypeOK, DaemonRecord
<1>4. Serves' /\ Aims' /\ Recorded'
  BY <1>1, <1>2 DEF RelInv, Serves, Aims, Recorded
<1>5. PortOwned'
  <2>1. ~Alive(Managed) /\ Managed' = Managed /\ Alive(Managed)' = Alive(Managed)
    BY <1>1 DEF RelInv, PortOwned, Replacing, Managed, Alive
  <2> QED BY <1>1, <1>2, <2>1, PortOwnedFades DEF Replacing, Fades
<1> QED BY <1>3, <1>4, <1>5 DEF RelInv

LEMMA RecordStep == ASSUME RelInv, Record PROVE RelInv'
<1>1. /\ daemon.pc = "record" /\ daemon.proc # Null /\ daemon.slot = pointer
      /\ ~Alive(Managed)
      /\ UNCHANGED <<proc, pointer, release, queue, result, restarts, gaps, breaks, faults>>
      /\ daemon \in DaemonRecord
  BY TypeParts DEF RelInv, Serves, Aims, PortOwned, Replacing, Record, asked, bounds, At
<1>2. /\ daemon' \in DaemonRecord /\ daemon'.pc = "publish" /\ daemon'.req = daemon.req
  BY <1>1 DEF Record, DaemonRecord, DaemonStep
<1>3. /\ st' \in State /\ st'.active = pointer /\ st'.process.slot = pointer
      /\ Managed' = daemon.proc
  <2>1. PICK run \in State :
           run = Running /\ run.active = pointer /\ run.process # Null
           /\ run.process = [pid |-> daemon.proc, slot |-> pointer]
    BY <1>1, RunningFields
  <2>2. PICK previous \in Slot \cup {Null}, window \in {"open", "none"} :
           st' = [run EXCEPT !.candidate = Null, !.previous = previous, !.window = window]
    BY <1>1, <2>1 DEF Record, DaemonRecord
  <2>3. st' \in State /\ st'.active = run.active /\ st'.process = run.process
    BY <2>1, <2>2 DEF State
  <2> QED BY <2>1, <2>3 DEF Managed
<1>4. ReleaseTypeOK'
  BY <1>1, <1>2, <1>3, TypeParts DEF ReleaseTypeOK, DaemonRecord
<1>5. Serves' /\ Aims' /\ Recorded'
  BY <1>1, <1>2, <1>3 DEF RelInv, Serves, Aims, Recorded
<1>6. PortOwned'
  BY <1>1, <1>2, <1>3, PortOwnedFades DEF Replacing, Fades
<1> QED BY <1>4, <1>5, <1>6 DEF RelInv

-------------------------------------------------------------------------------
\* What the daemon does while nobody asks, and the timers.

LEMMA WatchLaunch ==
    ASSUME RelInv, NEW slot \in Slot, NEW then \in {"ensure", "revive", "restore"},
           daemon' = Launch(daemon, slot, then)
    PROVE  /\ daemon' \in DaemonRecord /\ daemon'.pc = "stop" /\ daemon'.slot = slot
           /\ daemon'.then = then /\ daemon'.req = daemon.req
<1>1. then \in Purpose /\ daemon \in DaemonRecord
  BY DaemonFields DEF RelInv, Purpose
<1> QED BY <1>1, LaunchFields

LEMMA WatchStep == ASSUME RelInv, Watch PROVE RelInv'
<1>1. /\ daemon.pc = "idle"
      /\ UNCHANGED <<proc, pointer, release, queue, result, gaps, breaks, faults>>
      /\ StartMissing \/ ExitedUnexpectedly \/ UnhealthyInWindow \/ MonitoringCompleted
  BY DEF Watch, asked, bounds, At
<1>2. /\ daemon \in DaemonRecord
      /\ daemon.req # Null => queue # <<>>
      /\ st \in State /\ pointer \in Slot /\ Other(pointer) \in Slot
      /\ st.previous \in Slot \cup {Null} /\ restarts \in 0..MaxRestarts
      /\ st.process # Null => st.process.slot \in Slot /\ Other(st.process.slot) \in Slot
  BY TypeParts, StateFields DEF RelInv, Serves, Other, Slot
<1>3. CASE StartMissing
  <2>1. daemon' = Launch(daemon, pointer, "ensure") /\ UNCHANGED <<st, restarts>>
    BY <1>3 DEF StartMissing
  <2>2. /\ daemon' \in DaemonRecord /\ daemon'.pc = "stop" /\ daemon'.slot = pointer
        /\ daemon'.then = "ensure" /\ daemon'.req = daemon.req
    BY <1>2, <2>1, WatchLaunch
  <2>3. ReleaseTypeOK'
    BY <1>1, <2>1, <2>2, TypeParts DEF ReleaseTypeOK, DaemonRecord
  <2>4. Serves' /\ Aims'
    BY <1>1, <1>2, <2>2, Launches
  <2>5. Recorded' /\ PortOwned'
    BY <1>1, <2>1, <2>2, Rests DEF Between, Fades
  <2> QED BY <2>3, <2>4, <2>5 DEF RelInv
<1>4. CASE UnhealthyInWindow
  <2>1. /\ daemon' = Launch(daemon, Previous, "restore") /\ UNCHANGED <<st, restarts>>
        /\ st.process # Null
    BY <1>4 DEF UnhealthyInWindow, Alive, Managed
  <2>2. Previous \in Slot
    BY <1>2, <2>1 DEF Previous
  <2>3. /\ daemon' \in DaemonRecord /\ daemon'.pc = "stop" /\ daemon'.then = "restore"
        /\ daemon'.req = daemon.req
    BY <2>1, <2>2, WatchLaunch
  <2>4. ReleaseTypeOK'
    BY <1>1, <2>1, <2>3, TypeParts DEF ReleaseTypeOK, DaemonRecord
  <2>5. Serves' /\ Aims'
    BY <1>1, <1>2, <2>3, Launches
  <2>6. Recorded' /\ PortOwned'
    BY <1>1, <2>1, <2>3, Rests DEF Between, Fades
  <2> QED BY <2>4, <2>5, <2>6 DEF RelInv
<1>5. CASE MonitoringCompleted
  <2>1. /\ daemon' = [daemon EXCEPT !.pc = "publish", !.then = "stable",
                                    !.slot = pointer, !.back = st.previous]
        /\ st' = [st EXCEPT !.previous = Null, !.window = "none"] /\ UNCHANGED restarts
        /\ st.previous \in Slot
    BY <1>2, <1>5 DEF MonitoringCompleted
  <2>2. /\ daemon' \in DaemonRecord /\ daemon'.pc = "publish" /\ daemon'.req = daemon.req
    BY <1>2, <2>1 DEF DaemonRecord, DaemonStep, Purpose
  <2>3. st' \in State /\ st'.process = st.process /\ st'.active = st.active
    BY <1>2, <2>1 DEF State
  <2>4. ReleaseTypeOK'
    BY <1>1, <2>1, <2>2, <2>3, TypeParts DEF ReleaseTypeOK, DaemonRecord
  <2>5. Serves' /\ Aims'
    BY <1>1, <1>2, <2>2 DEF RelInv, Serves, Aims
  <2>6. Recorded' /\ PortOwned'
    BY <1>1, <2>2, <2>3, Rests DEF Between, Fades
  <2> QED BY <2>4, <2>5, <2>6 DEF RelInv
<1>6. CASE ExitedUnexpectedly
  <2>1. /\ st.process # Null /\ st.process.slot \in Slot /\ ~Alive(Managed)
        /\ "stale" \notin gaps => st.process.slot = pointer
    BY <1>1, <1>2, <1>6 DEF ExitedUnexpectedly, RelInv, Recorded
  <2>2. /\ \/ st' = [st EXCEPT !.process = Null]
           \/ st' = [st EXCEPT !.process = Null, !.phase = "degraded"]
        /\ \/ UNCHANGED <<daemon, restarts>>
           \/ /\ st.previous \in Slot /\ UNCHANGED restarts
              /\ daemon' = Launch(daemon, st.previous, "restore")
           \/ /\ restarts < MaxRestarts /\ restarts' = restarts + 1
              /\ daemon' = Launch(daemon, st.process.slot, "revive")
    BY <1>2, <1>6, ReleaseAssumption DEF ExitedUnexpectedly
  <2>3. st' \in State /\ st'.process = Null /\ Managed' = Null
    BY <1>2, <2>2 DEF State, Phase, Managed
  <2>4. restarts' \in 0..MaxRestarts
    BY <1>2, <2>2, ReleaseAssumption
  <2>5. /\ daemon' \in DaemonRecord /\ daemon'.req = daemon.req
        /\ \/ daemon' = daemon
           \/ daemon'.pc = "stop" /\ daemon'.then = "restore"
           \/ /\ daemon'.pc = "stop" /\ daemon'.then = "revive"
              /\ daemon'.slot = st.process.slot
    <3>1. CASE UNCHANGED daemon
      BY <1>2, <3>1
    <3>2. CASE st.previous \in Slot /\ daemon' = Launch(daemon, st.previous, "restore")
      BY <3>2, WatchLaunch
    <3>3. CASE daemon' = Launch(daemon, st.process.slot, "revive")
      BY <2>1, <3>3, WatchLaunch
    <3> QED BY <2>2, <3>1, <3>2, <3>3
  <2>6. ReleaseTypeOK'
    BY <1>1, <2>3, <2>4, <2>5, TypeParts DEF ReleaseTypeOK, DaemonRecord
  <2>7. Serves' /\ Aims'
    <3>1. CASE daemon' = daemon
      BY <1>1, <3>1 DEF RelInv, Serves, Aims
    <3>2. CASE daemon'.pc = "stop" /\ daemon'.then \in {"restore", "revive"}
      BY <1>1, <1>2, <2>1, <2>3, <2>5, <3>2, Launches
    <3> QED BY <2>5, <3>1, <3>2
  <2>8. Recorded'
    BY <2>3 DEF Recorded
  <2>9. PortOwned'
    <3>1. ~Replacing /\ ~Replacing' /\ daemon'.pc # "start" /\ Fades /\ gaps \subseteq gaps'
      BY <1>1, <2>5 DEF Replacing, Fades
    <3> QED BY <2>1, <3>1, PortOwnedFades
  <2> QED BY <2>6, <2>7, <2>8, <2>9 DEF RelInv
<1> QED BY <1>1, <1>3, <1>4, <1>5, <1>6

LEMMA TimerSteps == ASSUME RelInv, WindowOver \/ RestartsAge PROVE RelInv'
<1>1. /\ UNCHANGED <<proc, pointer, release, queue, result, daemon, gaps, breaks, faults>>
      /\ \/ st' = [st EXCEPT !.window = "over"] /\ UNCHANGED restarts
         \/ restarts' = 0 /\ UNCHANGED st
  BY DEF WindowOver, RestartsAge, files, asked, bounds
<1>2. /\ st' \in State /\ st'.process = st.process /\ st'.active = st.active
      /\ Managed' = Managed /\ restarts' \in 0..MaxRestarts
  BY <1>1, TypeParts, ReleaseAssumption DEF State, Managed
<1>3. ReleaseTypeOK'
  BY <1>1, <1>2, TypeParts DEF ReleaseTypeOK, DaemonRecord
<1>4. Serves' /\ Aims' /\ Recorded' /\ PortOwned'
  BY <1>1, <1>2 DEF RelInv, Serves, Aims, Recorded, PortOwned, Replacing, Alive
<1> QED BY <1>3, <1>4 DEF RelInv

-------------------------------------------------------------------------------
\* The application.

LEMMA EndedFields ==
    ASSUME RelInv PROVE Ended \in ReleaseState /\ ~Ended.monitoring
  BY TypeParts DEF Ended, ReleaseState

LEMMA SubmitStep == ASSUME RelInv, NEW id \in RequestId, Submit(id) PROVE RelInv'
<1>1. UNCHANGED <<proc, pointer, st, result, daemon, restarts, gaps, breaks, faults>>
  BY DEF Submit, bounds
<1>2. pointer \in Slot /\ Other(pointer) \in Slot /\ RollbackTarget \in Slot
  BY TypeParts, StateFields DEF RelInv, RollbackTarget, ReleaseState
<1>3. PICK r \in Asked : queue' = Append(queue, r)
  <2>1. CASE \E gate \in BOOLEAN :
                queue' = Append(queue, [id |-> id, kind |-> "promote",
                                        target |-> Other(pointer), gate |-> gate])
    BY <1>2, <2>1 DEF Asked
  <2>2. CASE queue' = Append(queue, [id |-> id, kind |-> "rollback",
                                     target |-> RollbackTarget, gate |-> FALSE])
    BY <1>2, <2>2 DEF Asked
  <2>3. CASE queue' = Append(queue, [id |-> id, kind |-> "restart",
                                     target |-> pointer, gate |-> FALSE])
    BY <1>2, <2>3 DEF Asked
  <2> QED BY <2>1, <2>2, <2>3 DEF Submit
<1>4. queue' \in Seq(Asked) /\ queue' # <<>>
  BY <1>3, TypeParts
<1>5. release' \in ReleaseState /\ (release'.monitoring => release'.previous # Null)
  <2>1. [monitoring |-> FALSE, previous |-> pointer, active |-> pointer] \in ReleaseState
    BY <1>2 DEF ReleaseState
  <2>2. \/ release' = release \/ release' = Ended
        \/ release' = [monitoring |-> FALSE, previous |-> pointer, active |-> pointer]
    BY DEF Submit, Expects
  <2>3. release \in ReleaseState /\ (release.monitoring => release.previous # Null)
    BY TypeParts DEF RelInv, Serves
  <2>4. CASE release' = [monitoring |-> FALSE, previous |-> pointer, active |-> pointer]
    BY <2>1, <2>4
  <2>5. CASE release' = release
    BY <2>3, <2>5
  <2>6. CASE release' = Ended
    BY <2>6, EndedFields
  <2> QED BY <2>2, <2>4, <2>5, <2>6
<1>6. ReleaseTypeOK'
  BY <1>1, <1>4, <1>5, TypeParts DEF ReleaseTypeOK, DaemonRecord
<1>7. Serves' /\ Aims' /\ Recorded' /\ PortOwned'
  BY <1>1, <1>4, <1>5 DEF RelInv, Serves, Aims, Recorded, PortOwned, Replacing, Alive, Managed
<1> QED BY <1>6, <1>7 DEF RelInv

LEMMA AloneSteps == ASSUME RelInv, SwitchAlone \/ MonitorAlone PROVE RelInv'
<1>1. /\ daemon.pc = "down"
      /\ UNCHANGED <<proc, st, queue, result, daemon, restarts, gaps, breaks>>
      /\ Fault \/ UNCHANGED faults
  BY DEF SwitchAlone, MonitorAlone, asked, bounds, At
<1>2. /\ pointer \in Slot /\ Other(pointer) \in Slot /\ RollbackTarget \in Slot
      /\ release \in ReleaseState
      /\ release.monitoring => release.previous # Null /\ release.previous \in Slot
  BY TypeParts, StateFields DEF RelInv, Serves, RollbackTarget, ReleaseState
<1>3. pointer' \in Slot
  BY <1>2 DEF SwitchAlone, MonitorAlone
<1>4. release' \in ReleaseState /\ (release'.monitoring => release'.previous # Null)
  <2>1. \/ release' \in {release, Ended}
        \/ release' = [monitoring |-> TRUE, previous |-> pointer, active |-> pointer']
    BY DEF SwitchAlone, MonitorAlone, Expects
  <2>2. CASE release' = [monitoring |-> TRUE, previous |-> pointer, active |-> pointer']
    BY <1>2, <1>3, <2>2, ReleaseAssumption DEF ReleaseState, Slot
  <2> QED BY <1>2, <2>1, <2>2, EndedFields
<1>5. ReleaseTypeOK'
  BY <1>1, <1>3, <1>4, TypeParts, FaultType DEF ReleaseTypeOK, DaemonRecord
<1>6. Serves' /\ Aims' /\ Recorded' /\ PortOwned'
  BY <1>1, <1>4 DEF RelInv, Serves, Aims, Recorded, PortOwned, Replacing, Alive, Managed
<1> QED BY <1>5, <1>6 DEF RelInv

-------------------------------------------------------------------------------
LEMMA ReleaseInitInv == ReleaseInit => RelInv
<1> SUFFICES ASSUME ReleaseInit PROVE RelInv
  OBVIOUS
<1>1. /\ proc \in [Pid -> Process] /\ \A p \in Pid : proc[p].life = "dead"
      /\ pointer \in Slot /\ restarts \in 0..MaxRestarts /\ gaps = {}
      /\ breaks \in 0..MaxBreaks /\ faults \in 0..MaxFaults
      /\ result \in [RequestId -> {"none", "ok", "failed"}] /\ queue \in Seq(Asked)
  BY ReleaseAssumption DEF ReleaseInit, Dead, Process, Slot, Port
<1>2. daemon \in DaemonRecord /\ daemon.pc = "down" /\ daemon.req = Null
  BY DEF ReleaseInit, Down, DaemonRecord, DaemonStep, Slot, Purpose
<1>3. st \in State /\ st.process = Null /\ release \in ReleaseState /\ ~release.monitoring
  BY DEF ReleaseInit, State, Phase, ReleaseState, Slot
<1>4. ReleaseTypeOK
  BY <1>1, <1>2, <1>3 DEF ReleaseTypeOK, DaemonRecord
<1>5. Serves /\ Aims /\ Recorded /\ PortOwned
  BY <1>1, <1>2, <1>3 DEF Serves, Aims, Recorded, PortOwned, Replacing
<1> QED BY <1>4, <1>5 DEF RelInv

LEMMA ReleaseNextInv == RelInv /\ [ReleaseNext]_releaseVars => RelInv'
<1> SUFFICES ASSUME RelInv, [ReleaseNext]_releaseVars PROVE RelInv'
  OBVIOUS
<1>1. CASE UNCHANGED releaseVars
  BY <1>1 DEF releaseVars, files, asked, bounds, RelInv, ReleaseTypeOK, Serves, Aims,
              Recorded, PortOwned, Replacing, Alive, Managed
<1>2. CASE Daemon
  BY <1>2, StartDaemonStep, RecoverStep, DispatchStep, AnswerStep, UnlinkStep, StageStep,
     NoteCandidateStep, StagedStep, UnstageStep, StopCurrentStep, StartStep,
     WaitHealthyStep, PointStep, RecordStep, PublishStep, WatchStep DEF Daemon
<1>3. CASE Kill \/ Terminate
  BY <1>3, StopSteps
<1>4. CASE \E p \in Pid : Boot(p) \/ Fails(p)
  BY <1>4, ProcessSteps
<1>5. CASE WindowOver \/ RestartsAge
  BY <1>5, TimerSteps
<1>6. CASE \E id \in RequestId : Submit(id)
  BY <1>6, SubmitStep
<1>7. CASE SwitchAlone \/ MonitorAlone
  BY <1>7, AloneSteps
<1> QED BY <1>1, <1>2, <1>3, <1>4, <1>5, <1>6, <1>7 DEF ReleaseNext

LEMMA ReleaseInv == ReleaseSpec => []RelInv
  BY ReleaseInitInv, ReleaseNextInv, PTL DEF ReleaseSpec

\* When the daemon has come to rest, active_slot, state.json and the slot of the
\* process it manages name the same version, however often the daemon was killed, a
\* start failed or a request was repeated (supervisor/process_control.py and daemon.py).
THEOREM ReleaseConsistent == ReleaseSpec => []Consistent
<1>1. RelInv => Consistent
  <2> SUFFICES ASSUME RelInv, Settled, "stale" \notin gaps PROVE Agree
    BY DEF RelInv, Consistent
  <2>1. daemon.pc = "idle" /\ st.process # Null
    BY DEF Settled, At, Alive, Managed
  <2> QED BY <2>1 DEF RelInv, Recorded, Agree
<1> QED BY <1>1, ReleaseInv, PTL

\* While the daemon has never been stopped between starting a process and recording
\* it, nobody but the process it manages serves the application's port
\* (process_control.py: stop_process before launch, the port probed for the process).
THEOREM ReleaseServesOne == ReleaseSpec => []OneVersionServes
<1>1. RelInv => OneVersionServes
  <2> SUFFICES ASSUME RelInv, Settled, "orphan" \notin gaps,
                      NEW p \in Pid, Binds(p, "primary")
               PROVE  p = Managed
    BY DEF OneVersionServes
  <2>1. ~Replacing /\ proc[p].port = "primary" /\ proc[p].life # "dead"
    BY DEF Settled, At, Replacing, Binds
  <2> QED BY <2>1 DEF RelInv, PortOwned
<1> QED BY <1>1, ReleaseInv, PTL
===============================================================================
