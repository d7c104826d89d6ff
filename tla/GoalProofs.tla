------------------------------ MODULE GoalProofs ------------------------------
(***************************************************************************)
(* Proofs of the safety properties of Goal, for every plan, whatever its   *)
(* steps depend on and whichever of them are timed, ruled or need an       *)
(* approval, and for every number of requests and of triggers:             *)
(*   QueuedHasWake          as it stands;                                  *)
(*   ApprovedFirst          from  Sound, what a running step rests on, and *)
(*                                Approved, no approval outlives an edit;  *)
(*   OrderKept              from  Sound: an edit reopens everything that   *)
(*                                rests on it (InvalidatedIsStale).        *)
(* That Invalidated, a recursive function, finds everything is an          *)
(* induction over the natural numbers; it goes by their least element.     *)
(***************************************************************************)
EXTENDS Goal, FiniteSetTheorems, WellFoundedInduction, TLAPS

Below == {ss \in Nat \X Nat : ss[1] < ss[2]}

LEMMA Least ==
    ASSUME NEW S \in SUBSET Nat, S # {}
    PROVE  \E n \in S : \A m \in S : n <= m
<1>1. IsWellFoundedOn(Below, Nat)
  BY NatLessThanWellFounded DEF OpToRel, Below
<1>2. PICK n \in S : \A m \in S : <<m, n>> \notin Below
  BY <1>1, WFMin
<1>3. \A m \in S : n <= m
  <2> TAKE m \in S
  <2>1. m \in Nat /\ n \in Nat
    OBVIOUS
  <2>2. ~(m < n)
    BY <1>2, <2>1 DEF Below
  <2>. QED
    BY <2>1, <2>2
<1>. QED
  BY <1>3

\* A set with zero and with the successor of each of its members below a bound
\* reaches the bound.
LEMMA Upwards ==
    ASSUME NEW K \in Nat, NEW S, 0 \in S,
           \A n \in 0..K : n \in S /\ n < K => n + 1 \in S
    PROVE  0..K \subseteq S
<1> DEFINE Out == {n \in 0..K : n \notin S}
<1> SUFFICES ASSUME Out # {} PROVE FALSE
  OBVIOUS
<1>1. PICK n \in Out : \A m \in Out : n <= m
  <2>1. Out \in SUBSET Nat
    OBVIOUS
  <2> HIDE DEF Out
  <2>. QED
    BY <2>1, Least
<1>2. n \in 1..K
  OBVIOUS
<1>3. n - 1 \in 0..K /\ n - 1 \notin Out
  BY <1>1, <1>2
<1>4. n \in S
  BY <1>2, <1>3
<1>. QED
  BY <1>4
-------------------------------------------------------------------------------
(* What an edit reopens *)

Dependents(D) == {s \in Step : Deps[s] \cap D # {}}
Closed(D) == Dependents(D) \subseteq D

Reaches(f, C, n) ==
    f = [k \in 0..n |-> IF k = 0 THEN C ELSE f[k - 1] \cup Dependents(f[k - 1])]

LEMMA ReachExists ==
    ASSUME NEW C, NEW N \in Nat
    PROVE  \E f : Reaches(f, C, N)
<1> DEFINE S == {n \in 0..N : \E f : Reaches(f, C, n)}
<1>1. 0 \in S
  <2> DEFINE f == [k \in 0..0 |-> C]
  <2>1. Reaches(f, C, 0)
    BY DEF Reaches
  <2>. QED
    BY <2>1
<1>2. ASSUME NEW n \in 0..N, n \in S, n < N PROVE n + 1 \in S
  <2>1. PICK f : Reaches(f, C, n)
    BY <1>2
  <2> DEFINE g == [k \in 0..(n + 1) |->
                     IF k = n + 1 THEN f[n] \cup Dependents(f[n]) ELSE f[k]]
  <2>2. \A k \in 0..n : f[k] = IF k = 0 THEN C ELSE f[k - 1] \cup Dependents(f[k - 1])
    BY <2>1 DEF Reaches
  <2>3. \A k \in 0..(n + 1) :
            g[k] = IF k = 0 THEN C ELSE g[k - 1] \cup Dependents(g[k - 1])
    <3> TAKE k \in 0..(n + 1)
    <3>1. CASE k = 0
      <4>1. g[k] = f[0] /\ 0 \in 0..n
        BY <3>1
      <4>. QED
        BY <2>2, <3>1, <4>1
    <3>2. CASE k = n + 1
      BY <3>2
    <3>3. CASE k \in 1..n
      <4>1. g[k] = f[k] /\ g[k - 1] = f[k - 1] /\ k # 0 /\ k \in 0..n
        BY <3>3
      <4> HIDE DEF g
      <4>. QED
        BY <2>2, <4>1
    <3>. QED
      BY <3>1, <3>2, <3>3
  <2>4. g = [k \in 0..(n + 1) |-> g[k]]
    OBVIOUS
  <2>5. Reaches(g, C, n + 1)
    <3> HIDE DEF g
    <3>. QED
      BY <2>3, <2>4 DEF Reaches
  <2>6. n + 1 \in 0..N
    BY <1>2
  <2> HIDE DEF g
  <2>. QED
    BY <2>5, <2>6
<1>3. 0..N \subseteq S
  <2> HIDE DEF S
  <2>. QED
    BY <1>1, <1>2, Upwards
<1>. QED
  BY <1>3

\* Invalidated is the last member of a chain that begins with C and grows by the
\* dependents of what it has.
LEMMA InvalidatedUnfolds ==
    ASSUME NEW C \in SUBSET Step
    PROVE  \E f \in [0..Cardinality(Step) -> SUBSET Step] :
              /\ Invalidated(C) = f[Cardinality(Step)]
              /\ f[0] = C
              /\ \A n \in 0..Cardinality(Step) :
                    n < Cardinality(Step) => f[n + 1] = f[n] \cup Dependents(f[n])
<1> DEFINE K == Cardinality(Step)
<1>1. K \in Nat
  BY GoalAssumption, FS_CardinalityType
<1> DEFINE f == CHOOSE f : Reaches(f, C, K)
<1>2. Reaches(f, C, K)
  BY <1>1, ReachExists
<1>3. Invalidated(C) = f[K]
  BY DEF Invalidated, Reaches, Dependents
<1> HIDE DEF f
<1>4. f[0] = C
  BY <1>1, <1>2 DEF Reaches
<1>5. ASSUME NEW n \in 0..K, n < K PROVE f[n + 1] = f[n] \cup Dependents(f[n])
  <2>1. n + 1 \in 0..K /\ n + 1 # 0 /\ (n + 1) - 1 = n
    BY <1>1, <1>5
  <2> HIDE DEF K
  <2>. QED
    BY <1>2, <2>1 DEF Reaches
<1>6. 0..K \subseteq {n \in 0..K : f[n] \in SUBSET Step}
  <2> DEFINE S == {n \in 0..K : f[n] \in SUBSET Step}
  <2>1. 0 \in S
    BY <1>1, <1>4
  <2>2. \A n \in 0..K : n \in S /\ n < K => n + 1 \in S
    BY <1>1, <1>5 DEF Dependents
  <2> HIDE DEF S, K
  <2>3. 0..K \subseteq S
    BY <1>1, <2>1, <2>2, Upwards
  <2>. QED
    BY <2>3 DEF S
<1>7. f \in [0..K -> SUBSET Step]
  BY <1>2, <1>6 DEF Reaches
<1>. QED
  BY <1>3, <1>4, <1>5, <1>7

\* The chain grows at every link until it is closed, and it has more links than
\* there are steps.
LEMMA InvalidatedIsClosed ==
    ASSUME NEW C \in SUBSET Step
    PROVE  /\ C \subseteq Invalidated(C)
           /\ Invalidated(C) \subseteq Step
           /\ Closed(Invalidated(C))
<1> DEFINE K == Cardinality(Step)
<1>1. K \in Nat /\ IsFiniteSet(Step)
  BY GoalAssumption, FS_CardinalityType
<1>2. PICK f \in [0..K -> SUBSET Step] :
          /\ Invalidated(C) = f[K]
          /\ f[0] = C
          /\ \A n \in 0..K : n < K => f[n + 1] = f[n] \cup Dependents(f[n])
  BY InvalidatedUnfolds
<1> HIDE DEF K
<1>3. Invalidated(C) \subseteq Step
  BY <1>1, <1>2
<1>4. C \subseteq Invalidated(C)
  <2> DEFINE S == {n \in 0..K : C \subseteq f[n]}
  <2>1. 0 \in S
    BY <1>1, <1>2
  <2>2. \A n \in 0..K : n \in S /\ n < K => n + 1 \in S
    BY <1>1, <1>2
  <2> HIDE DEF S
  <2>3. 0..K \subseteq S
    BY <1>1, <2>1, <2>2, Upwards
  <2>. QED
    BY <1>1, <1>2, <2>3 DEF S
<1>5. SUFFICES ASSUME ~Closed(f[K]) PROVE FALSE
  BY <1>2, <1>3, <1>4
<1>6. ASSUME NEW n \in 0..K, n < K PROVE ~Closed(f[n])
  <2> SUFFICES ASSUME Closed(f[n]) PROVE FALSE
    OBVIOUS
  <2> DEFINE S == {m \in 0..K : m >= n => f[m] = f[n]}
  <2>1. 0 \in S
    BY <1>1
  <2>2. ASSUME NEW m \in 0..K, m \in S, m < K PROVE m + 1 \in S
    <3>1. f[m + 1] = f[m] \cup Dependents(f[m])
      BY <1>2, <2>2
    <3>2. CASE m >= n
      <4>1. f[m] = f[n] /\ m + 1 \in 0..K
        BY <1>1, <2>2, <3>2
      <4>2. f[m + 1] = f[n]
        BY <3>1, <4>1 DEF Closed
      <4>. QED
        BY <4>1, <4>2
    <3>3. CASE ~(m >= n)
      <4>1. m + 1 \in 0..K /\ (m + 1 >= n => m + 1 = n)
        BY <1>1, <2>2, <3>3
      <4>. QED
        BY <4>1
    <3>. QED
      BY <3>2, <3>3
  <2> HIDE DEF S
  <2>3. 0..K \subseteq S
    BY <1>1, <2>1, <2>2, Upwards
  <2>4. f[K] = f[n]
    BY <1>1, <1>6, <2>3 DEF S
  <2>. QED
    BY <1>5, <2>4
<1>7. 0..K \subseteq {n \in 0..K : Cardinality(f[n]) >= n}
  <2> DEFINE S == {n \in 0..K : Cardinality(f[n]) >= n}
  <2>0. \A n \in 0..K : IsFiniteSet(f[n]) /\ Cardinality(f[n]) \in Nat
    BY <1>1, <1>2, FS_Subset, FS_CardinalityType
  <2>1. 0 \in S
    BY <1>1, <2>0
  <2>2. ASSUME NEW n \in 0..K, n \in S, n < K PROVE n + 1 \in S
    <3>1. f[n + 1] = f[n] \cup Dependents(f[n]) /\ n + 1 \in 0..K
      BY <1>1, <1>2, <2>2
    <3>2. PICK s \in Step : s \in Dependents(f[n]) /\ s \notin f[n]
      BY <1>6, <2>2 DEF Closed, Dependents
    <3>3. Cardinality(f[n] \cup {s}) = Cardinality(f[n]) + 1
      BY <2>0, <3>2, FS_AddElement
    <3>4. Cardinality(f[n] \cup {s}) <= Cardinality(f[n + 1])
      <4>1. f[n] \cup {s} \in SUBSET f[n + 1]
        BY <3>1, <3>2
      <4>. QED
        BY <2>0, <3>1, <4>1, FS_Subset
    <3>5. Cardinality(f[n]) >= n /\ Cardinality(f[n]) \in Nat
            /\ Cardinality(f[n + 1]) \in Nat
      BY <2>0, <2>2, <3>1
    <3>6. Cardinality(f[n + 1]) >= n + 1
      <4> HIDE DEF S
      <4>. QED
        BY <1>1, <3>3, <3>4, <3>5
    <3>. QED
      BY <3>1, <3>6
  <2> HIDE DEF S
  <2>3. 0..K \subseteq S
    BY <1>1, <2>1, <2>2, Upwards
  <2>. QED
    BY <2>3 DEF S
<1>8. f[K] = Step
  <2>1. f[K] \in SUBSET Step /\ K \in 0..K
    BY <1>1, <1>2
  <2>2. Cardinality(f[K]) >= K
    BY <1>7, <2>1
  <2>3. Cardinality(f[K]) <= Cardinality(Step)
          /\ (Cardinality(f[K]) = Cardinality(Step) => f[K] = Step)
    BY <1>1, <2>1, FS_Subset
  <2>4. Cardinality(f[K]) \in Nat
    BY <1>1, <2>1, FS_Subset, FS_CardinalityType
  <2>. QED
    BY <1>1, <2>2, <2>3, <2>4 DEF K
<1>9. Closed(f[K])
  BY <1>8 DEF Closed, Dependents
<1>. QED
  BY <1>5, <1>9

\* An edit reopens a step and everything that rests on it, and nothing else: the
\* loop of modify in goal_service.py ends with the smallest set that is closed.
THEOREM InvalidatedIsStale ==
    ASSUME NEW s \in Step
    PROVE  Invalidated({s}) = Stale(s)
<1> DEFINE K == Cardinality(Step)
<1>1. K \in Nat
  BY GoalAssumption, FS_CardinalityType
<1>2. Stale(s) \subseteq Invalidated({s})
  BY InvalidatedIsClosed DEF Stale, Closed, Dependents
<1>3. ASSUME NEW D \in SUBSET Step, s \in D, Closed(D)
      PROVE  Invalidated({s}) \subseteq D
  <2>1. PICK f \in [0..K -> SUBSET Step] :
            /\ Invalidated({s}) = f[K]
            /\ f[0] = {s}
            /\ \A n \in 0..K : n < K => f[n + 1] = f[n] \cup Dependents(f[n])
    <3>1. {s} \in SUBSET Step
      OBVIOUS
    <3>. QED
      BY <3>1, InvalidatedUnfolds
  <2> HIDE DEF K
  <2> DEFINE S == {n \in 0..K : f[n] \subseteq D}
  <2>2. 0 \in S
    BY <1>1, <1>3, <2>1
  <2>3. \A n \in 0..K : n \in S /\ n < K => n + 1 \in S
    BY <1>1, <1>3, <2>1 DEF Closed, Dependents
  <2> HIDE DEF S
  <2>4. 0..K \subseteq S
    BY <1>1, <2>2, <2>3, Upwards
  <2>. QED
    BY <1>1, <2>1, <2>4 DEF S
<1>4. Invalidated({s}) \subseteq Stale(s)
  <2>1. Invalidated({s}) \subseteq Step
    <3>1. {s} \in SUBSET Step
      OBVIOUS
    <3>. QED
      BY <3>1, InvalidatedIsClosed
  <2>2. \A D \in SUBSET Step :
            s \in D /\ (\A u \in Step : Deps[u] \cap D # {} => u \in D)
              => Invalidated({s}) \subseteq D
    BY <1>3 DEF Closed, Dependents
  <2>. QED
    BY <2>1, <2>2 DEF Stale
<1>. QED
  BY <1>2, <1>4
-------------------------------------------------------------------------------
(* What every operator on plans keeps *)

\* What a running step rests on, and the current step is not over.
Sound(p) ==
    /\ p \in Plan
    /\ p.current \in Step => p.current \notin Finished(p)
    /\ \A s \in Step : p.step[s] = "running" => Deps[s] \ Timed \subseteq Finished(p)
    /\ \A s \in Approval : p.step[s] = "running" => s \in p.approved

Follows(p, q) == Sound(q) /\ q.approved = p.approved

\* The steps of S change: no new one runs, and only a timed one is reopened.
LEMMA StepsChange ==
    ASSUME NEW p, Sound(p), NEW q \in Plan, NEW S \in SUBSET Step,
           \A t \in Step \ S : q.step[t] = p.step[t],
           \A t \in S : q.step[t] # "running",
           \A t \in S \ Timed : t \in Finished(p) => t \in Finished(q),
           q.approved = p.approved,
           q.current \in Step => q.current \notin Finished(q)
    PROVE  Follows(p, q)
<1>1. \A t \in Step \ Timed : t \in Finished(p) => t \in Finished(q)
  BY DEF Finished
<1>2. ASSUME NEW s \in Step, q.step[s] = "running"
      PROVE  Deps[s] \ Timed \subseteq Finished(q)
  <2>1. p.step[s] = "running"
    BY <1>2
  <2>2. Deps[s] \ Timed \subseteq Finished(p)
    BY <2>1 DEF Sound
  <2>. QED
    BY <1>1, <2>2, GoalAssumption
<1>3. ASSUME NEW s \in Approval, q.step[s] = "running" PROVE s \in q.approved
  <2>1. s \in Step
    BY GoalAssumption
  <2>. QED
    BY <1>3, <2>1 DEF Sound
<1>. QED
  BY <1>2, <1>3 DEF Follows, Sound

\* Nothing of the steps changes.
LEMMA StepsKept ==
    ASSUME NEW p, Sound(p), NEW q \in Plan,
           q.step = p.step, q.approved = p.approved, q.current \in {p.current, NoStep}
    PROVE  Follows(p, q)
<1>1. q.current \in Step => q.current \notin Finished(q)
  BY GoalAssumption DEF Sound, Finished
<1>. QED
  BY <1>1 DEF Follows, Sound, Finished

LEMMA FollowsTwice ==
    ASSUME NEW p, NEW q, NEW r, Follows(p, q), Follows(q, r)
    PROVE  Follows(p, r)
BY DEF Follows

LEMMA StatusFollows ==
    ASSUME NEW p, Sound(p), NEW status \in PlanStatus
    PROVE  Follows(p, [p EXCEPT !.status = status])
<1>1. [p EXCEPT !.status = status] \in Plan
  BY DEF Sound, Plan
<1>. QED
  BY <1>1, StepsKept DEF Sound, Plan

LEMMA IdleFollows ==
    ASSUME NEW p, Sound(p)
    PROVE  Follows(p, Idle(p)) /\ Idle(p).current = NoStep /\ Idle(p).step = p.step
<1>1. Idle(p) \in Plan
  BY DEF Sound, Plan, Idle
<1>. QED
  BY <1>1, StepsKept DEF Sound, Plan, Idle

LEMMA DropFollows ==
    ASSUME NEW p, Sound(p), NEW S
    PROVE  /\ Follows(p, DropCurrent(p, S)) /\ DropCurrent(p, S).current \notin S \ {NoStep}
           /\ DropCurrent(p, S).step = p.step
<1>1. DropCurrent(p, S) \in Plan
  BY DEF Sound, Plan, DropCurrent
<1>2. DropCurrent(p, S).step = p.step /\ DropCurrent(p, S).approved = p.approved
        /\ DropCurrent(p, S).current \in {p.current, NoStep}
        /\ DropCurrent(p, S).current \notin S \ {NoStep}
  BY DEF Sound, Plan, DropCurrent
<1>. QED
  BY <1>1, <1>2, StepsKept

\* A step that is not over, or is timed, gets a status in which it does not run.
LEMMA WithStepFollows ==
    ASSUME NEW p, Sound(p), NEW s \in Step, s \notin Finished(p) \/ s \in Timed,
           NEW status \in StepStatus \ {"running"},
           status \in {"done", "skipped"} => p.current # s
    PROVE  Follows(p, WithStep(p, s, status))
<1> DEFINE q == WithStep(p, s, status)
<1>1. q \in Plan
  BY DEF Sound, Plan, WithStep
<1>2. /\ \A t \in Step \ {s} : q.step[t] = p.step[t]
      /\ q.step[s] = status /\ q.approved = p.approved /\ q.current = p.current
  BY DEF Sound, Plan, WithStep
<1> HIDE DEF q
<1>3. q.current \in Step => q.current \notin Finished(q)
  BY <1>2 DEF Sound, Finished
<1>4. Follows(p, q)
  <2> DEFINE S == {s}
  <2>1. S \in SUBSET Step /\ \A t \in Step \ S : q.step[t] = p.step[t]
    BY <1>2
  <2>2. \A t \in S : q.step[t] # "running"
    BY <1>2
  <2>3. \A t \in S \ Timed : t \in Finished(p) => t \in Finished(q)
    OBVIOUS
  <2> HIDE DEF S
  <2>. QED
    BY <1>1, <1>2, <1>3, <2>1, <2>2, <2>3, StepsChange
<1>. QED
  BY <1>4 DEF q

\* The same for the step that becomes the current one.
LEMMA WithCurrentFollows ==
    ASSUME NEW p, Sound(p), NEW s \in Step, s \notin Finished(p) \/ s \in Timed,
           NEW status \in StepStatus \ {"running", "done", "skipped"}
    PROVE  Follows(p, WithCurrent(p, s, status))
<1> DEFINE q == WithCurrent(p, s, status)
<1>1. q \in Plan
  BY DEF Sound, Plan, WithCurrent
<1>2. /\ \A t \in Step \ {s} : q.step[t] = p.step[t]
      /\ q.step[s] = status /\ q.approved = p.approved /\ q.current = s
  BY DEF Sound, Plan, WithCurrent
<1> HIDE DEF q
<1>3. q.current \in Step => q.current \notin Finished(q)
  BY <1>2 DEF Sound, Finished
<1>4. Follows(p, q)
  <2> DEFINE S == {s}
  <2>1. S \in SUBSET Step /\ \A t \in Step \ S : q.step[t] = p.step[t]
    BY <1>2
  <2>2. \A t \in S : q.step[t] # "running"
    BY <1>2
  <2>3. \A t \in S \ Timed : t \in Finished(p) => t \in Finished(q)
    OBVIOUS
  <2> HIDE DEF S
  <2>. QED
    BY <1>1, <1>2, <1>3, <2>1, <2>2, <2>3, StepsChange
<1>. QED
  BY <1>4 DEF q

\* A step is started with its dependencies met and its approval given.
LEMMA StartingFollows ==
    ASSUME NEW p, Sound(p), NEW s \in Step, s \notin Finished(p),
           DependenciesMet(p, s), ~NeedsApproval(p, s)
    PROVE  Follows(p, WithCurrent(p, s, "running"))
<1> DEFINE q == WithCurrent(p, s, "running")
<1>1. q \in Plan
  BY DEF Sound, Plan, WithCurrent, StepStatus
<1>2. /\ \A t \in Step \ {s} : q.step[t] = p.step[t]
      /\ q.step[s] = "running" /\ q.approved = p.approved /\ q.current = s
  BY DEF Sound, Plan, WithCurrent
<1> HIDE DEF q
<1>3. Finished(q) = Finished(p)
  BY <1>2 DEF Finished
<1>4. Sound(q)
  BY <1>1, <1>2, <1>3, GoalAssumption DEF Sound, DependenciesMet, NeedsApproval, Finished
<1>. QED
  BY <1>2, <1>4 DEF q, Follows

LEMMA FirstIsMember ==
    ASSUME NEW S \in SUBSET Step
    PROVE  First(S) \in S \cup {NoStep} /\ (S = {} <=> First(S) = NoStep)
<1>1. CASE S = {}
  BY <1>1 DEF First
<1>2. CASE S # {}
  <2>1. \E s \in S : \A t \in S : s <= t
    BY <1>2, GoalAssumption, Least
  <2>2. First(S) \in S
    BY <1>2, <2>1 DEF First
  <2>. QED
    BY <1>2, <2>2, GoalAssumption
<1>. QED
  BY <1>1, <1>2

LEMMA NextIsRunnable ==
    ASSUME NEW p, NextRunnable(p) # NoStep
    PROVE  /\ NextRunnable(p) \in Step \ Finished(p)
           /\ DependenciesMet(p, NextRunnable(p))
<1>1. NextRunnable(p) \in {s \in Step : Runnable(p, s)}
  BY FirstIsMember DEF NextRunnable
<1>. QED
  BY <1>1 DEF Runnable, Finished

\* Watches are of timed steps, and set for a moment.
WatchesOK(w) ==
    w \in [Step -> SUBSET Moment] /\ \A s \in Step \ Timed : w[s] = {}

LEMMA NextDueType ==
    ASSUME NEW p \in Plan, NEW s \in Step
    PROVE  NextDue(p, s) \in Moment \cup {"none"}
BY DEF NextDue, Occurrence, Plan, Moment

LEMMA ScheduledFollows ==
    ASSUME NEW p, Sound(p)
    PROVE  Follows(p, Scheduled(p)) /\ Scheduled(p).step = p.step
<1>1. Scheduled(p) \in Plan
  <2>1. [s \in Step |-> IF s \in Watched(p) THEN NextDue(p, s) ELSE p.due[s]]
          \in [Step -> Moment \cup {"none"}]
    BY NextDueType DEF Sound, Plan
  <2>. QED
    BY <2>1 DEF Sound, Plan, Scheduled
<1>2. Scheduled(p).step = p.step /\ Scheduled(p).approved = p.approved
        /\ Scheduled(p).current = p.current
  BY DEF Sound, Plan, Scheduled
<1>. QED
  BY <1>1, <1>2, StepsKept

LEMMA PlantedOK ==
    ASSUME NEW p, Sound(p), NEW w, WatchesOK(w)
    PROVE  WatchesOK(Planted(p, w))
<1>1. \A s \in Watched(p) : s \in Timed /\ NextDue(p, s) \in Moment
  BY NextDueType, GoalAssumption DEF Sound, Watched
<1>. QED
  BY <1>1 DEF WatchesOK, Planted

LEMMA NoWatchesOK == WatchesOK(NoWatches)
BY DEF WatchesOK, NoWatches

\* The verdict of _advance.
Outcomes == {"advance", "wait", "complete"}

LEMMA AdvanceFollows ==
    ASSUME NEW p, Sound(p)
    PROVE  Follows(p, Advance(p).plan) /\ Advance(p).outcome \in Outcomes
<1> DEFINE next == NextRunnable(p)
           active == [p EXCEPT !.status = "active"]
<1>1. Follows(p, active) /\ Finished(active) = Finished(p)
  BY StatusFollows DEF PlanStatus, Finished, Sound, Plan
<1>2. Follows(p, Idle(p)) /\ Idle(p).step = p.step /\ Idle(p).current = NoStep
  BY IdleFollows
<1> HIDE DEF active, next
<1>3. CASE next # NoStep
  <2>1. next \in Step \ Finished(active)
    BY <1>1, <1>3, NextIsRunnable DEF next
  <2>2. Follows(active, WithCurrent(active, next, "waiting_user"))
    BY <1>1, <2>1, WithCurrentFollows DEF Follows, StepStatus
  <2>3. Follows(active, WithCurrent(active, next, "ready"))
    BY <1>1, <2>1, WithCurrentFollows DEF Follows, StepStatus
  <2>4. Advance(p) \in {Wait(WithCurrent(active, next, "waiting_user")),
                        Verdict(WithCurrent(active, next, "ready"), "advance", FALSE)}
    BY <1>3 DEF Advance, active, next
  <2>5. Advance(p).plan \in {WithCurrent(active, next, "waiting_user"),
                             WithCurrent(active, next, "ready")}
          /\ Advance(p).outcome \in Outcomes
    BY <2>4 DEF Wait, Verdict, Outcomes
  <2>. QED
    BY <1>1, <2>2, <2>3, <2>5, FollowsTwice
<1>4. CASE next = NoStep /\ Upcoming(p) # {}
  <2>1. Advance(p) = Verdict(Idle(p), "wait", TRUE)
    BY <1>4 DEF Advance, next
  <2>2. Advance(p).plan = Scheduled(Idle(p)) /\ Advance(p).outcome = "wait"
    BY <2>1 DEF Verdict
  <2>3. Follows(Idle(p), Scheduled(Idle(p)))
    BY <1>2, ScheduledFollows DEF Follows
  <2>. QED
    BY <1>2, <2>2, <2>3, FollowsTwice DEF Outcomes
<1>5. CASE next = NoStep /\ Upcoming(p) = {} /\ Invited(p) # {}
  <2> DEFINE q == [Idle(p) EXCEPT !.step =
                     [s \in Step |-> IF s \in Invited(p) THEN "waiting_user" ELSE @[s]]]
  <2>1. Advance(p) = Wait(q)
    BY <1>5 DEF Advance, next
  <2>2. Idle(p) \in Plan /\ Sound(Idle(p))
    BY <1>2 DEF Follows, Sound
  <2>3. q \in Plan
    BY <2>2 DEF Plan, StepStatus
  <2>4. q.step = [s \in Step |-> IF s \in Invited(p) THEN "waiting_user" ELSE Idle(p).step[s]]
          /\ q.approved = Idle(p).approved /\ q.current = NoStep
    BY <1>2, <2>2 DEF Plan
  <2>5. Advance(p).plan = q /\ Advance(p).outcome = "wait"
    BY <2>1 DEF Wait, Verdict
  <2> HIDE DEF q
  <2>6. Invited(p) \in SUBSET Step /\ \A s \in Invited(p) : s \notin Finished(Idle(p))
    BY <1>2 DEF Invited, Finished
  <2>7. Follows(Idle(p), q)
    <3>1. \A t \in Step \ Invited(p) : q.step[t] = Idle(p).step[t]
      BY <2>4
    <3>2. \A t \in Invited(p) : q.step[t] # "running"
      BY <2>4, <2>6
    <3>. QED
      BY <2>2, <2>3, <2>4, <2>6, <3>1, <3>2, GoalAssumption, StepsChange
  <2>. QED
    BY <1>2, <2>5, <2>7, FollowsTwice DEF Outcomes
<1>6. CASE next = NoStep /\ Upcoming(p) = {} /\ Invited(p) = {}
  <2> DEFINE done == [Idle(p) EXCEPT !.status = "completed"]
             stuck == [p EXCEPT !.status = "blocked"]
  <2>1. Advance(p) \in {Wait(Idle(p)), Verdict(done, "complete", FALSE), Wait(stuck)}
    BY <1>6 DEF Advance, next
  <2>2. Follows(Idle(p), done) /\ Follows(p, stuck)
    BY <1>2, StatusFollows DEF Follows, PlanStatus
  <2> HIDE DEF done, stuck
  <2>3. Advance(p).plan \in {Idle(p), done, stuck} /\ Advance(p).outcome \in Outcomes
    BY <2>1 DEF Wait, Verdict, Outcomes
  <2>. QED
    BY <1>2, <2>2, <2>3, FollowsTwice
<1>. QED
  BY <1>3, <1>4, <1>5, <1>6

LEMMA SettleFollows ==
    ASSUME NEW p, Sound(p), NEW w, WatchesOK(w), Settle(Advance(p), w)
    PROVE  Follows(p, plan') /\ WatchesOK(watches')
<1>1. Follows(p, Advance(p).plan)
  BY AdvanceFollows
<1>2. plan' = Advance(p).plan /\ watches' \in {Planted(Advance(p).plan, w), w}
  BY DEF Settle
<1>3. WatchesOK(Planted(Advance(p).plan, w))
  BY <1>1, PlantedOK DEF Follows
<1>. QED
  BY <1>1, <1>2, <1>3

LEMMA GoOnFollows ==
    ASSUME NEW p, Sound(p), NEW w, WatchesOK(w), GoOn(p, w)
    PROVE  Follows(p, plan') /\ WatchesOK(watches')
<1>1. Follows(p, Scheduled(p)) /\ WatchesOK(Planted(p, w))
  BY ScheduledFollows, PlantedOK
<1>2. CASE p.status = "active" /\ task = "blocked_user"
  <2>1. Settle(Advance(Scheduled(p)), Planted(p, w))
    BY <1>2 DEF GoOn
  <2>. QED
    BY <1>1, <2>1, SettleFollows, FollowsTwice DEF Follows
<1>3. CASE ~(p.status = "active" /\ task = "blocked_user")
  BY <1>1, <1>3 DEF GoOn
<1>. QED
  BY <1>2, <1>3

LEMMA EditedFollows ==
    ASSUME NEW p, Sound(p), Edited(p)
    PROVE  Follows(p, plan') /\ WatchesOK(watches')
<1>1. Follows(p, Scheduled(p)) /\ WatchesOK(Planted(p, NoWatches))
  BY ScheduledFollows, PlantedOK, NoWatchesOK
<1>2. CASE task = "queued" /\ p.status = "active"
  <2>1. Settle(Advance(Scheduled(p)), Planted(p, NoWatches))
    BY <1>2 DEF Edited
  <2>. QED
    BY <1>1, <2>1, SettleFollows, FollowsTwice DEF Follows
<1>3. CASE ~(task = "queued" /\ p.status = "active")
  BY <1>3, GoOnFollows, NoWatchesOK DEF Edited
<1>. QED
  BY <1>2, <1>3

\* A running step that is not itself reopened keeps what it rests on.
LEMMA InvalidateSound ==
    ASSUME NEW p, Sound(p), NEW S \in SUBSET Step, Closed(S)
    PROVE  Sound(Invalidate(p, S)) /\ Invalidate(p, S).approved = p.approved \ S
<1> DEFINE q == Invalidate(p, S)
<1>1. q \in Plan
  BY DEF Sound, Plan, Invalidate, StepStatus, Moment
<1>2. /\ \A t \in Step \ S : q.step[t] = p.step[t]
      /\ \A t \in S : q.step[t] \in {"ready", "pending"}
      /\ q.approved = p.approved \ S /\ q.current = p.current
  BY DEF Sound, Plan, Invalidate
<1> HIDE DEF q
<1>3. q.current \in Step => q.current \notin Finished(q)
  BY <1>2 DEF Sound, Finished
<1>4. ASSUME NEW s \in Step, q.step[s] = "running"
      PROVE  Deps[s] \ Timed \subseteq Finished(q)
  <2>1. s \notin S /\ p.step[s] = "running"
    BY <1>2, <1>4
  <2>2. Deps[s] \ Timed \subseteq Finished(p) /\ Deps[s] \cap S = {}
    BY <2>1 DEF Sound, Closed, Dependents
  <2>. QED
    BY <1>2, <2>2 DEF Finished
<1>5. ASSUME NEW s \in Approval, q.step[s] = "running" PROVE s \in q.approved
  <2>1. s \in Step
    BY GoalAssumption
  <2>2. s \notin S /\ p.step[s] = "running"
    BY <1>2, <1>5, <2>1
  <2>. QED
    BY <1>2, <2>2 DEF Sound
<1>. QED
  BY <1>1, <1>2, <1>3, <1>4, <1>5 DEF q, Sound

\* What holds of the plan, of the approvals and of the watches.
Planned == Sound(plan) /\ plan.approved \subseteq granted /\ WatchesOK(watches)

LEMMA FollowsIsPlanned ==
    ASSUME Planned, Follows(plan, plan'), granted \subseteq granted', WatchesOK(watches')
    PROVE  Planned'
BY DEF Planned, Follows, Sound, WatchesOK, Finished

LEMMA ChangeContentPlanned ==
    ASSUME Planned, NEW s \in Step, ChangeContent(s)
    PROVE  Planned'
<1> DEFINE S == Invalidated({s})
           p == Invalidate(plan, S)
           q == [p EXCEPT !.key[s] = 0]
           r == DropCurrent(q, S)
<1>0. {s} \in SUBSET Step
  OBVIOUS
<1>1. S \in SUBSET Step /\ Closed(S)
  BY <1>0, InvalidatedIsClosed
<1>2. S = Stale(s)
  BY InvalidatedIsStale
<1>3. Edited(r) /\ granted' = granted \ Stale(s)
  BY DEF ChangeContent
<1> HIDE DEF S
<1>4. Sound(p) /\ p.approved = plan.approved \ S
  BY <1>1, InvalidateSound DEF Planned
<1> HIDE DEF p
<1>5. q \in Plan /\ q.step = p.step /\ q.approved = p.approved /\ q.current = p.current
  BY <1>4, GoalAssumption DEF Sound, Plan
<1> HIDE DEF q
<1>6. Follows(p, q)
  BY <1>4, <1>5, StepsKept
<1>7. Follows(q, r)
  BY <1>6, DropFollows DEF Follows
<1> HIDE DEF r
<1>8. Follows(r, plan') /\ WatchesOK(watches')
  BY <1>3, <1>7, EditedFollows DEF Follows
<1>9. Sound(plan') /\ plan'.approved = plan.approved \ S
  BY <1>4, <1>6, <1>7, <1>8 DEF Follows
<1>10. plan'.approved \subseteq granted'
  BY <1>2, <1>3, <1>9 DEF Planned
<1>. QED
  BY <1>8, <1>9, <1>10 DEF Planned, Sound, WatchesOK, Finished

LEMMA ReschedulePlanned ==
    ASSUME Planned, NEW s \in Step, Reschedule(s)
    PROVE  Planned'
<1>1. s \in Timed /\ Edited(Reset(plan, s)) /\ granted' = granted
  BY DEF Reschedule, history
<1>2. Follows(plan, Reset(plan, s))
  <2>1. CASE s \in Finished(plan)
    <3>1. [plan EXCEPT !.due[s] = "none"] \in Plan
      BY DEF Planned, Sound, Plan
    <3>2. Follows(plan, [plan EXCEPT !.due[s] = "none"])
      BY <3>1, StepsKept DEF Planned, Sound, Plan
    <3>. QED
      BY <2>1, <3>2 DEF Reset
  <2>2. CASE s \notin Finished(plan)
    <3> DEFINE q == [plan EXCEPT !.due[s] = "future"]
    <3>1. q \in Plan /\ q.step = plan.step /\ q.approved = plan.approved
            /\ q.current = plan.current
      BY DEF Planned, Sound, Plan, Moment
    <3>2. Follows(plan, q)
      BY <3>1, StepsKept DEF Planned
    <3>3. Follows(q, WithStep(q, s, "pending"))
      BY <1>1, <3>2, WithStepFollows DEF Follows, StepStatus
    <3>4. Reset(plan, s) = WithStep(q, s, "pending")
      BY <2>2 DEF Reset, WithStep
    <3>. QED
      BY <3>2, <3>3, <3>4, FollowsTwice
  <2>. QED
    BY <2>1, <2>2
<1>3. Follows(Reset(plan, s), plan') /\ WatchesOK(watches')
  BY <1>1, <1>2, EditedFollows DEF Follows
<1>. QED
  BY <1>1, <1>2, <1>3, FollowsTwice, FollowsIsPlanned
-------------------------------------------------------------------------------
(* The plan, the approvals and the watches in every step *)

PlanKept == UNCHANGED <<plan, watches, granted>>

LEMMA KeptIsPlanned ==
    ASSUME Planned, PlanKept
    PROVE  Planned'
BY DEF Planned, PlanKept, Sound, WatchesOK, Finished

LEMMA UserPlanned ==
    ASSUME Planned, User
    PROVE  Planned'
<1>0. Sound(plan) /\ WatchesOK(watches)
  BY DEF Planned
<1>1. CASE Confirm
  <2> DEFINE p == [plan EXCEPT !.status = "active"]
             q == Scheduled(p)
  <2>1. Follows(plan, p)
    BY <1>0, StatusFollows DEF PlanStatus
  <2>2. Follows(p, q) /\ WatchesOK(Planted(p, watches))
    BY <1>0, <2>1, ScheduledFollows, PlantedOK DEF Follows
  <2>3. Settle(Advance(q), Planted(p, watches)) /\ granted' = granted
    BY <1>1 DEF Confirm, history
  <2> HIDE DEF p, q
  <2>4. Follows(q, plan') /\ WatchesOK(watches')
    BY <2>2, <2>3, SettleFollows DEF Follows
  <2>. QED
    BY <2>1, <2>2, <2>3, <2>4, FollowsTwice, FollowsIsPlanned
<1>2. CASE Reject \/ End \/ Pause
  <2>1. \E status \in PlanStatus : plan' = [plan EXCEPT !.status = status]
    BY <1>2 DEF Reject, End, Pause, PlanStatus
  <2>2. watches' = NoWatches /\ granted' = granted
    BY <1>2 DEF Reject, End, Pause, history
  <2>. QED
    BY <1>0, <2>1, <2>2, StatusFollows, NoWatchesOK, FollowsIsPlanned
<1>3. CASE Resume
  <2> DEFINE p == [plan EXCEPT !.status = "active"]
  <2>1. Follows(plan, p)
    BY <1>0, StatusFollows DEF PlanStatus
  <2>2. GoOn(p, watches) /\ granted' = granted
    BY <1>3 DEF Resume, history
  <2> HIDE DEF p
  <2>3. Follows(p, plan') /\ WatchesOK(watches')
    BY <1>0, <2>1, <2>2, GoOnFollows DEF Follows
  <2>. QED
    BY <2>1, <2>2, <2>3, FollowsTwice, FollowsIsPlanned
<1>4. CASE SendInput \/ CancelTask
  BY <1>4, KeptIsPlanned DEF SendInput, CancelTask, PlanKept, history
<1>5. ASSUME NEW s \in Step, Modify(s) PROVE Planned'
  BY <1>5, ChangeContentPlanned, ReschedulePlanned DEF Modify
<1>6. ASSUME NEW s \in Step, StartStep(s) PROVE Planned'
  <2>1. s \notin Finished(plan) /\ plan' = WithCurrent(plan, s, "ready")
          /\ watches' = watches /\ granted' = granted
    BY <1>6 DEF StartStep, history
  <2>. QED
    BY <1>0, <2>1, WithCurrentFollows, FollowsIsPlanned DEF StepStatus
<1>7. ASSUME NEW s \in Step, ApproveStep(s) PROVE Planned'
  <2> DEFINE p == WithCurrent(plan, s, "ready")
             q == [p EXCEPT !.approved = @ \cup {s}]
  <2>1. s \notin Finished(plan) /\ plan' = q
          /\ watches' = watches /\ granted' = granted \cup {s}
    BY <1>7 DEF ApproveStep
  <2>2. Follows(plan, p)
    BY <1>0, <2>1, WithCurrentFollows DEF StepStatus
  <2> HIDE DEF p
  <2>3. q \in Plan /\ q.step = p.step /\ q.current = p.current
          /\ q.approved = p.approved \cup {s}
    BY <2>2 DEF Follows, Sound, Plan
  <2> HIDE DEF q
  <2>4. Sound(q) /\ q.approved \subseteq granted'
    BY <2>1, <2>2, <2>3 DEF Follows, Sound, Finished, Planned
  <2>. QED
    BY <1>0, <2>1, <2>4 DEF Planned, Sound, WatchesOK, Finished
<1>8. ASSUME NEW s \in Step, AnswerQuestion(s) PROVE Planned'
  <2>1. plan.step[s] = "waiting_user" /\ plan' = WithCurrent(plan, s, "ready")
          /\ watches' = watches /\ granted' = granted
    BY <1>8 DEF AnswerQuestion, QuestionOpen, history
  <2>2. s \notin Finished(plan)
    BY <2>1 DEF Finished
  <2>. QED
    BY <1>0, <2>1, <2>2, WithCurrentFollows, FollowsIsPlanned DEF StepStatus
<1>9. ASSUME NEW s \in Step, RejectQuestion(s) PROVE Planned'
  <2> DEFINE p == DropCurrent(plan, {s})
  <2>1. plan.step[s] = "waiting_user" /\ plan' = WithStep(p, s, "skipped")
          /\ watches' = watches /\ granted' = granted
    BY <1>9 DEF RejectQuestion, QuestionOpen, history
  <2>2. Follows(plan, p) /\ p.current # s /\ p.step = plan.step
    BY <1>0, GoalAssumption, DropFollows
  <2> HIDE DEF p
  <2>3. s \notin Finished(p)
    BY <2>1, <2>2 DEF Finished
  <2>4. Follows(p, plan')
    BY <2>1, <2>2, <2>3, WithStepFollows DEF Follows, StepStatus
  <2>. QED
    BY <1>0, <2>1, <2>2, <2>4, FollowsTwice, FollowsIsPlanned
<1>. QED
  BY <1>1, <1>2, <1>3, <1>4, <1>5, <1>6, <1>7, <1>8, <1>9 DEF User

LEMMA ScannerPlanned ==
    ASSUME Planned, GTypeOK, Scanner
    PROVE  Planned'
<1>0. Sound(plan) /\ WatchesOK(watches) /\ fires \in 0..MaxFires /\ MaxFires \in Nat
  BY GoalAssumption DEF Planned, GTypeOK
<1>1. CASE Scan
  <2> DEFINE S == {s \in Timed : Listening(s)}
             F == S \cap ripe
             key == [s \in Step |-> IF s \in F THEN fires' ELSE plan.key[s]]
             due == [s \in Step |-> IF s \in F \ Weekly THEN "none"
                                    ELSE IF s \in S THEN Armed(s) ELSE plan.due[s]]
  <2>1. plan' = [plan EXCEPT !.key = key, !.due = due]
          /\ watches' = watches /\ granted' = granted
          /\ (F # {} => fires < MaxFires /\ fires' = fires + 1)
    BY <1>1 DEF Scan, Fire, history
  <2>2. key \in [Step -> 0..MaxFires]
    BY <1>0, <2>1 DEF Sound, Plan
  <2>3. due \in [Step -> Moment \cup {"none"}]
    <3>1. \A s \in Step : Armed(s) \in Moment \cup {"none"}
      BY <1>0 DEF Armed, Occurrence, Sound, Plan, Moment
    <3>. QED
      BY <1>0, <3>1 DEF Sound, Plan
  <2> HIDE DEF key, due, F, S
  <2>4. plan' \in Plan /\ plan'.step = plan.step /\ plan'.approved = plan.approved
          /\ plan'.current = plan.current
    BY <1>0, <2>1, <2>2, <2>3 DEF Sound, Plan
  <2>. QED
    BY <1>0, <2>1, <2>4, StepsKept, FollowsIsPlanned
<1>2. ASSUME NEW s \in Step, TimePasses(s) PROVE Planned'
  <2>1. s \in Timed /\ granted' = granted
          /\ plan' = [plan EXCEPT !.due[s] = IF @ = "future" THEN "past" ELSE @]
          /\ watches' = [watches EXCEPT ![s] = IF @ = {} THEN {} ELSE {"past"}]
    BY <1>2 DEF TimePasses, history
  <2>2. plan' \in Plan /\ plan'.step = plan.step /\ plan'.approved = plan.approved
          /\ plan'.current = plan.current
    BY <1>0, <2>1 DEF Sound, Plan, Moment
  <2>3. WatchesOK(watches')
    BY <1>0, <2>1 DEF WatchesOK, Moment
  <2>. QED
    BY <1>0, <2>1, <2>2, <2>3, StepsKept, FollowsIsPlanned
<1>3. ASSUME NEW s \in Step, EventArrives(s) PROVE Planned'
  <2>1. fires < MaxFires /\ fires' = fires + 1 /\ watches' = watches /\ granted' = granted
          /\ plan' = [plan EXCEPT !.key[s] = fires', !.due[s] = "none"]
    BY <1>3 DEF EventArrives, Fire, history
  <2>2. fires' \in 0..MaxFires
    BY <1>0, <2>1
  <2>3. plan' \in Plan /\ plan'.step = plan.step /\ plan'.approved = plan.approved
          /\ plan'.current = plan.current
    BY <1>0, <2>1, <2>2 DEF Sound, Plan
  <2>. QED
    BY <1>0, <2>1, <2>3, StepsKept, FollowsIsPlanned
<1>4. ASSUME NEW s \in Step, WatchDue(s) PROVE Planned'
  <2> DEFINE status == IF s \in Autonomous THEN "ready" ELSE "waiting_user"
             q == WithStep(plan, s, status)
             p == [q EXCEPT !.due[s] = Occurrence(s),
                            !.current = IF @ = NoStep /\ s \in Autonomous THEN s ELSE @]
             w == [watches EXCEPT ![s] = @ \ {"past"}]
  <2>1. "past" \in watches[s] /\ granted' = granted
          /\ \/ plan' = plan /\ watches' = watches
             \/ plan' = plan /\ watches' = w
             \/ plan' = Scheduled(p) /\ watches' = Planted(p, w)
    BY <1>4 DEF WatchDue, history
  <2>2. s \in Timed
    BY <1>0, <2>1 DEF WatchesOK
  <2>3. status \in StepStatus \ {"running", "done", "skipped"}
    BY DEF StepStatus
  <2>4. Follows(plan, q) /\ q.step[s] = status
    BY <1>0, <2>2, <2>3, WithStepFollows DEF WithStep, Sound, Plan
  <2> HIDE DEF status, q
  <2>5. p \in Plan /\ p.step = q.step /\ p.approved = q.approved
          /\ p.current \in {q.current, s}
    BY <2>4 DEF Follows, Sound, Plan, Occurrence, Moment
  <2> HIDE DEF p
  <2>6. Follows(q, p)
    BY <2>3, <2>4, <2>5 DEF Follows, Sound, Finished
  <2>7. WatchesOK(w)
    BY <1>0 DEF WatchesOK
  <2> HIDE DEF w
  <2>8. Follows(p, Scheduled(p)) /\ WatchesOK(Planted(p, w))
    BY <2>6, <2>7, ScheduledFollows, PlantedOK DEF Follows
  <2>9. Follows(plan, Scheduled(p)) /\ Follows(plan, plan)
    BY <1>0, <2>4, <2>6, <2>8, FollowsTwice DEF Follows
  <2>. QED
    BY <1>0, <2>1, <2>7, <2>8, <2>9, FollowsIsPlanned
<1>. QED
  BY <1>1, <1>2, <1>3, <1>4 DEF Scanner

LEMMA DecisionPlanned ==
    ASSUME Planned, Decision
    PROVE  Planned'
<1>0. Sound(plan) /\ WatchesOK(watches)
  BY DEF Planned
<1>1. CASE Ignore \/ \E j \in fired : DropDecision(j) \/ TakeDecision(j)
  BY <1>1, KeptIsPlanned DEF Ignore, DropDecision, TakeDecision, PlanKept, history
<1>2. CASE CompleteGoal
  <2>1. plan' = [Idle(plan) EXCEPT !.status = "completed"]
          /\ watches' = NoWatches /\ granted' = granted
    BY <1>2 DEF CompleteGoal, history
  <2>2. Follows(plan, Idle(plan))
    BY <1>0, IdleFollows
  <2>3. Follows(Idle(plan), plan')
    BY <2>1, <2>2, StatusFollows DEF Follows, PlanStatus
  <2>. QED
    BY <1>0, <2>1, <2>2, <2>3, FollowsTwice, NoWatchesOK, FollowsIsPlanned
<1>3. ASSUME NEW s \in Step, BeginStep(s) PROVE Planned'
  <2>1. s \notin Finished(plan) /\ watches' = watches /\ granted' = granted
          /\ plan' \in {WithCurrent(plan, s, "waiting_user"), WithCurrent(plan, s, "ready")}
    BY <1>3 DEF BeginStep, history
  <2>2. Follows(plan, WithCurrent(plan, s, "waiting_user"))
          /\ Follows(plan, WithCurrent(plan, s, "ready"))
    BY <1>0, <2>1, WithCurrentFollows DEF StepStatus
  <2>. QED
    BY <1>0, <2>1, <2>2, FollowsIsPlanned
<1>4. ASSUME NEW s \in Step, WaitUser(s) PROVE Planned'
  <2> DEFINE p == DropCurrent(plan, {s})
  <2>1. s \notin Finished(plan) /\ plan' = WithStep(p, s, "waiting_user")
          /\ watches' = watches /\ granted' = granted
    BY <1>4 DEF WaitUser, history
  <2>2. Follows(plan, p) /\ p.step = plan.step
    BY <1>0, DropFollows
  <2> HIDE DEF p
  <2>3. Follows(p, plan')
    BY <2>1, <2>2, WithStepFollows DEF Follows, StepStatus, Finished
  <2>. QED
    BY <1>0, <2>1, <2>2, <2>3, FollowsTwice, FollowsIsPlanned
<1>5. ASSUME NEW s \in Step, ModifyByModel(s) PROVE Planned'
  BY <1>5, ChangeContentPlanned DEF ModifyByModel
<1>. QED
  BY <1>1, <1>2, <1>3, <1>4, <1>5 DEF Decision

\* The step a run takes on is not over, and its dependencies are.
LEMMA ChosenCanStart ==
    ASSUME Sound(plan), CanTakeOn
    PROVE  /\ Chosen \in Step \ Finished(plan)
           /\ DependenciesMet(plan, Chosen)
           /\ ~NeedsApproval(plan, Chosen)
<1>1. Chosen # NoStep /\ ~NeedsApproval(plan, Chosen)
  BY DEF CanTakeOn
<1>2. CASE Chosen = NextRunnable(plan)
  BY <1>1, <1>2, NextIsRunnable
<1>3. CASE Chosen # NextRunnable(plan)
  <2>1. Chosen = plan.current /\ plan.current \in Step /\ DependenciesMet(plan, Chosen)
    BY <1>1, <1>3 DEF Chosen, Sound, Plan
  <2>. QED
    BY <1>1, <2>1 DEF Sound
<1>. QED
  BY <1>2, <1>3

LEMMA CreditedFollows ==
    ASSUME NEW p, Sound(p), NEW s \in Step
    PROVE  /\ Follows(p, Credited(p, s))
           /\ Credited(p, s).step = p.step /\ Credited(p, s).current = p.current
<1>1. CASE proved = {}
  BY <1>1 DEF Credited, Follows
<1>2. CASE proved # {}
  <2> DEFINE q == [p EXCEPT !.evidence = @ \cup {s}]
  <2>1. q \in Plan /\ q.step = p.step /\ q.approved = p.approved /\ q.current = p.current
    BY DEF Sound, Plan
  <2>2. Credited(p, s) = q
    BY <1>2 DEF Credited
  <2> HIDE DEF q
  <2>. QED
    BY <2>1, <2>2, StepsKept
<1>. QED
  BY <1>1, <1>2

LEMMA FinishFollows ==
    ASSUME NEW p, Sound(plan), Follows(plan, p), WatchesOK(watches),
           Settle(Finish(p), watches)
    PROVE  Follows(plan, plan') /\ WatchesOK(watches')
<1>1. CASE p.status \in {"active", "blocked"}
  BY <1>1, SettleFollows, FollowsTwice DEF Finish, Follows
<1>2. CASE p.status \notin {"active", "blocked"}
  <2>1. plan' = plan /\ watches' = watches
    BY <1>2 DEF Finish, Settle, Wait, Verdict
  <2>. QED
    BY <2>1 DEF Follows
<1>. QED
  BY <1>1, <1>2

LEMMA FinishOutcome ==
    ASSUME NEW p, Sound(p)
    PROVE  Finish(p).outcome \in Outcomes
BY AdvanceFollows DEF Finish, Outcomes, Wait, Verdict

LEMMA SucceedPlanned ==
    ASSUME Planned, Succeed
    PROVE  Planned' /\ OnStepFinished.outcome \in Outcomes
<1>0. Sound(plan) /\ WatchesOK(watches) /\ Follows(plan, plan)
  BY DEF Planned, Follows
<1>1. Settle(OnStepFinished, watches) /\ granted' = granted
  BY DEF Succeed, RunActs
<1> DEFINE s == plan.current
           c == Credited(plan, s)
           p == Idle(c)
<1>2. CASE s = NoStep
  <2>1. OnStepFinished = Finish(plan)
    BY <1>2 DEF OnStepFinished
  <2>. QED
    BY <1>0, <1>1, <2>1, FinishFollows, FinishOutcome, FollowsIsPlanned
<1>3. CASE s # NoStep
  <2>1. s \in Step \ Finished(plan)
    BY <1>0, <1>3 DEF Sound, Plan
  <2>2. Follows(plan, p) /\ p.step = plan.step /\ p.current = NoStep
    <3> HIDE DEF s
    <3>1. Follows(plan, c) /\ c.step = plan.step
      BY <1>0, <2>1, CreditedFollows
    <3> HIDE DEF c
    <3>2. Follows(c, p) /\ p.step = c.step /\ p.current = NoStep
      BY <3>1, IdleFollows DEF Follows
    <3>. QED
      BY <3>1, <3>2, FollowsTwice
  <2> HIDE DEF p, s
  <2>3. Sound(p) /\ s \notin Finished(p) /\ s # p.current
    BY <2>1, <2>2, GoalAssumption DEF Follows, Finished
  <2>4. \A status \in {"failed", "waiting_time", "done"} : Follows(p, WithStep(p, s, status))
    BY <2>1, <2>3, WithStepFollows DEF StepStatus
  <2>5. CASE s \in Unproven(p)
    <3> DEFINE q == [WithStep(p, s, "failed") EXCEPT !.status = "blocked"]
    <3>1. OnStepFinished = Wait(q)
      BY <1>3, <2>5 DEF OnStepFinished, p, s
    <3>2. Follows(WithStep(p, s, "failed"), q)
      BY <2>4, StatusFollows DEF Follows, PlanStatus
    <3> HIDE DEF q
    <3>3. plan' = q /\ watches' = watches /\ OnStepFinished.outcome = "wait"
      BY <1>1, <3>1 DEF Settle, Wait, Verdict
    <3>. QED
      BY <1>0, <1>1, <2>2, <2>4, <3>2, <3>3, FollowsTwice, FollowsIsPlanned DEF Outcomes
  <2>6. CASE s \notin Unproven(p) /\ Recurs(s)
    <3> DEFINE r == WithStep(p, s, "waiting_time")
               q == [r EXCEPT !.due[s] = "future"]
    <3>1. OnStepFinished = Verdict(q, "wait", TRUE)
      BY <1>3, <2>6 DEF OnStepFinished, p, s
    <3>2. Follows(p, r)
      BY <2>4
    <3> HIDE DEF r
    <3>3. q \in Plan /\ q.step = r.step /\ q.approved = r.approved /\ q.current = r.current
      BY <3>2 DEF Follows, Sound, Plan, Moment
    <3> HIDE DEF q
    <3>4. Follows(r, q)
      BY <3>2, <3>3, StepsKept DEF Follows
    <3>5. Follows(q, Scheduled(q)) /\ Follows(Scheduled(q), Scheduled(q))
      BY <3>4, ScheduledFollows DEF Follows
    <3>6. plan' = Scheduled(q) /\ watches' = Planted(Scheduled(q), watches)
            /\ OnStepFinished.outcome = "wait"
      BY <1>1, <3>1 DEF Settle, Verdict
    <3>7. WatchesOK(watches')
      BY <1>0, <3>5, <3>6, PlantedOK DEF Follows
    <3>. QED
      BY <1>1, <2>2, <3>2, <3>4, <3>5, <3>6, <3>7, FollowsTwice, FollowsIsPlanned
      DEF Outcomes
  <2>7. CASE s \notin Unproven(p) /\ ~Recurs(s)
    <3> DEFINE q == WithStep(p, s, "done")
    <3>1. OnStepFinished = Finish(q)
      BY <1>3, <2>7 DEF OnStepFinished, p, s
    <3>2. Follows(plan, q)
      BY <2>2, <2>4, FollowsTwice
    <3> HIDE DEF q
    <3>3. Follows(plan, plan') /\ WatchesOK(watches') /\ Finish(q).outcome \in Outcomes
      BY <1>0, <1>1, <3>1, <3>2, FinishFollows, FinishOutcome DEF Follows
    <3>. QED
      BY <1>1, <3>1, <3>3, FollowsIsPlanned
  <2>. QED
    BY <2>5, <2>6, <2>7
<1>. QED
  BY <1>2, <1>3

LEMMA RunPlanned ==
    ASSUME Planned, Run
    PROVE  Planned'
<1>0. Sound(plan) /\ WatchesOK(watches)
  BY DEF Planned
<1>1. CASE JobStarts \/ JobSkips \/ NothingToTakeOn \/ NoticePause \/ NoticeCancel
           \/ AskModel \/ Act \/ ActNot \/ RunOut \/ Conflict \/ RunFails
  BY <1>1, KeptIsPlanned
  DEF JobStarts, JobSkips, NothingToTakeOn, NoticePause, NoticeCancel, AskModel, Act, ActNot,
      RunOut, Conflict, RunFails, LeaveWaiting, RunActs, PlanKept
<1>2. CASE OnRunStarted
  <2>1. CanTakeOn /\ plan' = WithCurrent(plan, Chosen, "running")
          /\ watches' = watches /\ granted' = granted
    BY <1>2 DEF OnRunStarted, RunActs
  <2>2. Follows(plan, plan')
    BY <1>0, <2>1, ChosenCanStart, StartingFollows
  <2>. QED
    BY <1>0, <2>1, <2>2, FollowsIsPlanned
<1>3. CASE Succeed
  BY <1>3, SucceedPlanned
<1>4. CASE AskUser
  <2> DEFINE s == plan.current
             p == IF s = NoStep THEN plan ELSE Idle(WithStep(plan, s, "waiting_user"))
             next == NextRunnable(p)
  <2>1. plan' = (IF next = NoStep THEN p ELSE WithCurrent(p, next, "ready"))
          /\ watches' = watches /\ granted' = granted
    BY <1>4 DEF AskUser, RunActs
  <2>2. Follows(plan, p)
    <3>1. CASE s = NoStep
      BY <1>0, <3>1 DEF Follows
    <3>2. CASE s # NoStep
      <4>1. s \in Step \ Finished(plan)
        BY <1>0, <3>2 DEF Sound, Plan
      <4>2. Follows(plan, WithStep(plan, s, "waiting_user"))
        BY <1>0, <4>1, WithStepFollows DEF StepStatus
      <4>3. Follows(WithStep(plan, s, "waiting_user"), Idle(WithStep(plan, s, "waiting_user")))
        BY <4>2, IdleFollows DEF Follows
      <4>. QED
        BY <3>2, <4>2, <4>3, FollowsTwice
    <3>. QED
      BY <3>1, <3>2
  <2> HIDE DEF p
  <2>3. ASSUME next # NoStep PROVE Follows(p, WithCurrent(p, next, "ready"))
    BY <2>2, <2>3, NextIsRunnable, WithCurrentFollows DEF Follows, StepStatus
  <2>4. Follows(plan, plan')
    BY <2>1, <2>2, <2>3, FollowsTwice
  <2>. QED
    BY <1>0, <2>1, <2>4, FollowsIsPlanned
<1>5. ASSUME NEW status, GiveUp(status) PROVE Planned'
  <2>1. plan' \in {plan, [plan EXCEPT !.status = "blocked"]}
          /\ watches' = watches /\ granted' = granted
    BY <1>5 DEF GiveUp, RunActs
  <2>2. Follows(plan, plan) /\ Follows(plan, [plan EXCEPT !.status = "blocked"])
    BY <1>0, StatusFollows DEF Follows, PlanStatus
  <2>. QED
    BY <1>0, <2>1, <2>2, FollowsIsPlanned
<1>. QED
  BY <1>1, <1>2, <1>3, <1>4, <1>5 DEF Run
-------------------------------------------------------------------------------
(* The task and its wake-ups in every step *)

Woken == task \in TaskStatus /\ wakes \in Nat /\ QueuedHasWake

LEMMA KeptIsWoken ==
    ASSUME Woken, TaskKept
    PROVE  Woken'
BY DEF Woken, TaskKept, QueuedHasWake

LEMMA RousedIsWoken ==
    ASSUME Woken, Rouse
    PROVE  Woken'
<1>1. CASE task = "blocked_user"
  BY <1>1 DEF Woken, Rouse, Enqueue, QueuedHasWake, TaskStatus
<1>2. CASE task # "blocked_user"
  BY <1>2, KeptIsWoken DEF Rouse
<1>. QED
  BY <1>1, <1>2

LEMMA EnqueuedIsWoken ==
    ASSUME Woken, Enqueue, task' \in TaskStatus
    PROVE  Woken'
BY DEF Woken, Enqueue, QueuedHasWake

LEMMA AsleepIsWoken ==
    ASSUME Woken, wakes' = wakes, task' \in TaskStatus \ {"queued"} \/ task' = task
    PROVE  Woken'
BY DEF Woken, QueuedHasWake

LEMMA GoOnWoken ==
    ASSUME Woken, NEW p, NEW w, GoOn(p, w)
    PROVE  Woken'
<1>1. TaskKept \/ (task' = "queued" /\ Enqueue)
  BY DEF GoOn
<1>. QED
  BY <1>1, KeptIsWoken, EnqueuedIsWoken DEF TaskStatus

LEMMA ChangeContentWoken ==
    ASSUME Woken, NEW s, ChangeContent(s) \/ Reschedule(s)
    PROVE  Woken'
<1>1. \E p : Edited(p)
  BY DEF ChangeContent, Reschedule
<1>2. ASSUME NEW p, Edited(p) PROVE Woken'
  BY <1>2, GoOnWoken, KeptIsWoken DEF Edited
<1>. QED
  BY <1>1, <1>2

LEMMA UserWoken ==
    ASSUME Woken, User
    PROVE  Woken'
<1>0. task \in TaskStatus
  BY DEF Woken
<1>1. CASE Confirm
  <2>1. \/ task' \in {"queued", task} /\ Enqueue
        \/ task' = "blocked_user" /\ wakes' = wakes
    BY <1>1 DEF Confirm
  <2>. QED
    BY <1>0, <2>1, EnqueuedIsWoken, AsleepIsWoken DEF TaskStatus
<1>2. CASE Reject \/ End \/ Pause \/ CancelTask
  <2>1. wakes' = wakes /\ task' \in {task, "cancelled", "blocked_user"}
    BY <1>2 DEF Reject, End, Pause, CancelTask, Cancelled
  <2>. QED
    BY <1>0, <2>1, AsleepIsWoken DEF TaskStatus, Terminal
<1>3. CASE Resume
  BY <1>3, GoOnWoken DEF Resume
<1>4. CASE SendInput
  BY <1>4, RousedIsWoken DEF SendInput
<1>5. ASSUME NEW s \in Step, Modify(s) PROVE Woken'
  BY <1>5, ChangeContentWoken DEF Modify
<1>6. ASSUME NEW s \in Step, StartStep(s) \/ ApproveStep(s) PROVE Woken'
  BY <1>6, RousedIsWoken DEF StartStep, ApproveStep
<1>7. ASSUME NEW s \in Step, AnswerQuestion(s) PROVE Woken'
  <2>1. Rouse \/ (Enqueue /\ task' = task)
    BY <1>7 DEF AnswerQuestion
  <2>. QED
    BY <1>0, <2>1, RousedIsWoken, EnqueuedIsWoken
<1>8. ASSUME NEW s \in Step, RejectQuestion(s) PROVE Woken'
  BY <1>8, KeptIsWoken DEF RejectQuestion, TaskKept
<1>. QED
  BY <1>1, <1>2, <1>3, <1>4, <1>5, <1>6, <1>7, <1>8 DEF User

LEMMA ScannerWoken ==
    ASSUME Woken, Scanner
    PROVE  Woken'
<1>1. CASE Scan
  BY <1>1, KeptIsWoken DEF Scan, TaskKept
<1>2. ASSUME NEW s \in Step, TimePasses(s) \/ EventArrives(s) PROVE Woken'
  BY <1>2, KeptIsWoken DEF TimePasses, EventArrives, TaskKept
<1>3. ASSUME NEW s \in Step, WatchDue(s) PROVE Woken'
  BY <1>3, KeptIsWoken, RousedIsWoken DEF WatchDue
<1>. QED
  BY <1>1, <1>2, <1>3 DEF Scanner

LEMMA DecisionWoken ==
    ASSUME Woken, Decision
    PROVE  Woken'
<1>0. task \in TaskStatus
  BY DEF Woken
<1>1. CASE Ignore \/ \E j \in fired : DropDecision(j) \/ TakeDecision(j)
  BY <1>1, KeptIsWoken DEF Ignore, DropDecision, TakeDecision, TaskKept
<1>2. CASE CompleteGoal
  BY <1>2, AsleepIsWoken DEF CompleteGoal, TaskStatus, Terminal
<1>3. ASSUME NEW s \in Step, BeginStep(s) PROVE Woken'
  <2>1. TaskKept \/ Rouse \/ (Enqueue /\ task' = task)
    BY <1>3 DEF BeginStep
  <2>. QED
    BY <1>0, <2>1, KeptIsWoken, RousedIsWoken, EnqueuedIsWoken
<1>4. ASSUME NEW s \in Step, WaitUser(s) PROVE Woken'
  BY <1>4, KeptIsWoken DEF WaitUser, TaskKept
<1>5. ASSUME NEW s \in Step, ModifyByModel(s) PROVE Woken'
  BY <1>5, ChangeContentWoken DEF ModifyByModel
<1>. QED
  BY <1>1, <1>2, <1>3, <1>4, <1>5 DEF Decision

LEMMA RunWoken ==
    ASSUME Woken, Planned, Run
    PROVE  Woken'
<1>0. task \in TaskStatus
  BY DEF Woken
<1>1. CASE JobStarts
  BY <1>1 DEF JobStarts, Woken, QueuedHasWake, TaskStatus
<1>2. CASE JobSkips
  BY <1>2 DEF JobSkips, Woken, QueuedHasWake
<1>3. CASE OnRunStarted \/ NoticeCancel \/ AskModel \/ Act \/ ActNot
  BY <1>3, KeptIsWoken DEF OnRunStarted, NoticeCancel, AskModel, Act, ActNot, TaskKept
<1>4. CASE NothingToTakeOn \/ NoticePause
  BY <1>4, AsleepIsWoken DEF NothingToTakeOn, NoticePause, LeaveWaiting, TaskStatus
<1>5. CASE RunOut \/ Conflict \/ RunFails
  <2>1. Enqueue /\ task' \in {"queued", task}
    BY <1>5 DEF RunOut, Conflict, RunFails
  <2>. QED
    BY <1>0, <2>1, EnqueuedIsWoken DEF TaskStatus
<1>6. CASE Succeed
  <2>1. OnStepFinished.outcome \in Outcomes
    BY <1>6, SucceedPlanned
  <2>2. task' = StatusAfter(OnStepFinished.outcome)
          /\ wakes' = IF OnStepFinished.outcome = "advance" THEN wakes + 1 ELSE wakes
    BY <1>6 DEF Succeed
  <2>3. \/ task' = "queued" /\ Enqueue
        \/ task' \in {"blocked_user", "succeeded"} /\ wakes' = wakes
    BY <2>1, <2>2 DEF StatusAfter, Outcomes, Enqueue
  <2>. QED
    BY <2>3, EnqueuedIsWoken, AsleepIsWoken DEF TaskStatus, Terminal
<1>7. CASE AskUser
  <2>1. \/ task' = "queued" /\ Enqueue
        \/ task' = "blocked_user" /\ wakes' = wakes
    BY <1>7 DEF AskUser, Enqueue
  <2>. QED
    BY <2>1, EnqueuedIsWoken, AsleepIsWoken DEF TaskStatus
<1>8. CASE GiveUp("partial") \/ GiveUp("failed")
  BY <1>8, AsleepIsWoken DEF GiveUp, TaskStatus, Terminal
<1>. QED
  BY <1>1, <1>2, <1>3, <1>4, <1>5, <1>6, <1>7, <1>8 DEF Run
-------------------------------------------------------------------------------
(* Time, triggers, the run and what is remembered keep their shape *)

ClockOK == passed \subseteq Timed /\ ripe \subseteq passed
JobsOK ==
    /\ fired \subseteq Jobs /\ deciding \in fired \cup {NoJob}
    /\ fires \in 0..MaxFires /\ asked \subseteq Step
RunOK ==
    /\ run \in [pc : {"none", "started", "loop", "model"}, step : Step \cup {NoStep}]
    /\ run.pc \in {"loop", "model"} => run.step \in Step
HistoryOK == proved \subseteq Step /\ granted \subseteq Approval /\ ops \in 0..MaxOps

Shape == ClockOK /\ JobsOK /\ RunOK /\ HistoryOK

LEMMA UserShape ==
    ASSUME Shape, User
    PROVE  Shape'
<1>0. UserActs
  BY DEF User, Confirm, Reject, End, Pause, Resume, SendInput, CancelTask, Modify,
         StartStep, ApproveStep, AnswerQuestion, RejectQuestion
<1>1. RunOK' /\ ops' \in 0..MaxOps
  BY <1>0, GoalAssumption DEF Shape, RunOK, HistoryOK, UserActs
<1>2. ClockOK'
  <2>1. UNCHANGED clock \/ \E s \in Step : passed' = passed \ {s} /\ ripe' = ripe \ {s}
    BY DEF User, Confirm, Reject, End, Pause, Resume, SendInput, CancelTask, Modify,
           ChangeContent, Reschedule, StartStep, ApproveStep, AnswerQuestion,
           RejectQuestion, clock
  <2>. QED
    BY <2>1 DEF Shape, ClockOK, clock
<1>3. JobsOK'
  <2>1. fired' = fired /\ deciding' = deciding /\ fires' = fires /\ asked' \subseteq asked
    BY DEF User, Confirm, Reject, End, Pause, Resume, SendInput, CancelTask, Modify,
           StartStep, ApproveStep, AnswerQuestion, RejectQuestion, triggers
  <2>. QED
    BY <2>1 DEF Shape, JobsOK
<1>4. proved' = proved /\ granted' \subseteq Approval
  <2>1. ASSUME NEW s \in Step, ApproveStep(s) PROVE proved' = proved /\ granted' \subseteq Approval
    BY <2>1 DEF ApproveStep, NeedsApproval, Shape, HistoryOK
  <2>2. ASSUME NEW s \in Step, Modify(s) PROVE proved' = proved /\ granted' \subseteq granted
    BY <2>2 DEF Modify, ChangeContent, Reschedule, history
  <2>3. CASE UNCHANGED history
    BY <2>3 DEF history, Shape, HistoryOK
  <2>4. UNCHANGED history \/ \E s \in Step : ApproveStep(s) \/ Modify(s)
    BY DEF User, Confirm, Reject, End, Pause, Resume, SendInput, CancelTask,
           StartStep, AnswerQuestion, RejectQuestion
  <2>. QED
    BY <2>1, <2>2, <2>3, <2>4 DEF Shape, HistoryOK
<1>. QED
  BY <1>1, <1>2, <1>3, <1>4 DEF Shape, HistoryOK

LEMMA FiredIsJob ==
    ASSUME Shape, NEW S \in SUBSET Step, Fire(S)
    PROVE  fires' \in 0..MaxFires /\ fired' \subseteq Jobs /\ fired \subseteq fired'
<1>1. fires' \in 1..MaxFires
  BY GoalAssumption DEF Shape, JobsOK, Fire
<1>. QED
  BY <1>1 DEF Shape, JobsOK, Fire, Jobs

LEMMA ScannerShape ==
    ASSUME Shape, Scanner
    PROVE  Shape'
<1>1. CASE Scan
  <2> DEFINE S == {s \in Timed : Listening(s)}
             F == S \cap ripe
  <2>1. F \in SUBSET Step
    BY GoalAssumption
  <2>2. (fires' = fires /\ fired' = fired) \/ Fire(F)
    BY <1>1 DEF Scan
  <2>3. ripe' = ripe \ F
    BY <1>1 DEF Scan
  <2>4. UNCHANGED <<passed, deciding, asked, run, ops, proved, granted>>
    BY <1>1 DEF Scan, NobodyActs, history
  <2> HIDE DEF F, S
  <2>5. JobsOK'
    BY <2>1, <2>2, <2>4, FiredIsJob DEF Shape, JobsOK
  <2>. QED
    BY <2>3, <2>4, <2>5 DEF Shape, ClockOK, RunOK, HistoryOK
<1>2. ASSUME NEW s \in Step, EventArrives(s) PROVE Shape'
  <2>1. Fire({s}) /\ UNCHANGED <<passed, ripe, deciding, asked, run, ops, proved, granted>>
    BY <1>2 DEF EventArrives, NobodyActs, history, clock
  <2>2. {s} \in SUBSET Step
    OBVIOUS
  <2>3. JobsOK'
    BY <2>1, <2>2, FiredIsJob DEF Shape, JobsOK
  <2>. QED
    BY <2>1, <2>3 DEF Shape, ClockOK, RunOK, HistoryOK
<1>3. ASSUME NEW s \in Step, TimePasses(s) PROVE Shape'
  BY <1>3 DEF TimePasses, NobodyActs, history, triggers,
              Shape, ClockOK, JobsOK, RunOK, HistoryOK
<1>4. ASSUME NEW s \in Step, WatchDue(s) PROVE Shape'
  BY <1>4 DEF WatchDue, NobodyActs, history, clock, triggers,
              Shape, ClockOK, JobsOK, RunOK, HistoryOK
<1>. QED
  BY <1>1, <1>2, <1>3, <1>4 DEF Scanner

LEMMA DecisionShape ==
    ASSUME Shape, Decision
    PROVE  Shape'
<1>1. DecisionKept
  BY DEF Decision, Deciding, DropDecision, TakeDecision, Ignore, CompleteGoal, BeginStep,
         WaitUser, ModifyByModel
<1>2. ClockOK' /\ RunOK' /\ ops' \in 0..MaxOps /\ fires' \in 0..MaxFires
  BY <1>1 DEF DecisionKept, NobodyActs, clock, Shape, ClockOK, RunOK, HistoryOK, JobsOK
<1>3. proved' = proved /\ granted' \subseteq granted
  BY DEF Decision, DropDecision, TakeDecision, Ignore, CompleteGoal, BeginStep,
         WaitUser, ModifyByModel, ChangeContent, history
<1>4. fired' \subseteq Jobs /\ deciding' \in fired' \cup {NoJob}
  <2>1. ASSUME NEW j \in fired, DropDecision(j) \/ TakeDecision(j)
        PROVE  fired' \subseteq Jobs /\ deciding' \in fired' \cup {NoJob}
    BY <2>1 DEF DropDecision, TakeDecision, Shape, JobsOK
  <2>2. CASE Deciding
    BY <2>2 DEF Deciding, Shape, JobsOK
  <2>. QED
    BY <2>1, <2>2 DEF Decision, Ignore, CompleteGoal, BeginStep, WaitUser, ModifyByModel
<1>5. asked' \subseteq Step
  <2>1. ASSUME NEW s \in Step, WaitUser(s) PROVE asked' \subseteq Step
    <3>1. deciding \in Jobs
      BY <2>1 DEF WaitUser, Deciding, Shape, JobsOK
    <3>2. deciding[1] \in Step
      BY <3>1 DEF Jobs
    <3>. QED
      BY <2>1, <3>2 DEF WaitUser, Shape, JobsOK
  <2>2. asked' = asked \/ \E s \in Step : WaitUser(s)
    BY DEF Decision, DropDecision, TakeDecision, Ignore, CompleteGoal, BeginStep,
           ModifyByModel
  <2>. QED
    BY <2>1, <2>2 DEF Shape, JobsOK
<1>. QED
  BY <1>2, <1>3, <1>4, <1>5 DEF Shape, HistoryOK, JobsOK

LEMMA RunShape ==
    ASSUME Shape, Planned, Run
    PROVE  Shape'
<1>0. RunActs
  BY DEF Run, JobStarts, JobSkips, OnRunStarted, NothingToTakeOn, NoticePause, NoticeCancel,
         AskModel, Act, ActNot, RunOut, Succeed, AskUser, Conflict, RunFails, GiveUp,
         LeaveWaiting
<1>1. ClockOK' /\ JobsOK' /\ granted' \subseteq Approval /\ ops' \in 0..MaxOps
  BY <1>0 DEF RunActs, clock, triggers, Shape, ClockOK, JobsOK, HistoryOK
<1>2. CASE Act
  BY <1>1, <1>2 DEF Act, RunGoes, Shape, RunOK, HistoryOK
<1>3. CASE OnRunStarted
  <2>1. Chosen \in Step
    BY <1>3, ChosenCanStart DEF OnRunStarted, Planned
  <2>. QED
    BY <1>1, <1>3, <2>1 DEF OnRunStarted, Shape, RunOK, HistoryOK
<1>4. CASE JobStarts
  BY <1>1, <1>4 DEF JobStarts, RunGoes, Shape, RunOK, HistoryOK
<1>5. CASE JobSkips
  BY <1>1, <1>5 DEF JobSkips, Shape, RunOK, HistoryOK
<1>6. CASE AskModel \/ ActNot
  BY <1>1, <1>6 DEF AskModel, ActNot, RunGoes, Shape, RunOK, HistoryOK
<1>7. CASE NothingToTakeOn \/ NoticePause \/ NoticeCancel \/ RunOut \/ Succeed \/ AskUser
           \/ Conflict \/ RunFails \/ \E status \in {"partial", "failed"} : GiveUp(status)
  <2>1. run' = NoRun /\ proved' = proved
    BY <1>7 DEF NothingToTakeOn, NoticePause, NoticeCancel, RunOut, Succeed, AskUser,
                Conflict, RunFails, GiveUp, LeaveWaiting, RunEnds
  <2>. QED
    BY <1>1, <2>1 DEF NoRun, Shape, RunOK, HistoryOK
<1>. QED
  BY <1>2, <1>3, <1>4, <1>5, <1>6, <1>7 DEF Run
-------------------------------------------------------------------------------
(* The theorems *)

Inv == Planned /\ Woken /\ Shape

LEMMA InvIsTyped == Inv => GTypeOK
BY DEF Inv, Planned, Sound, WatchesOK, Woken, Shape, ClockOK, JobsOK, RunOK, HistoryOK, GTypeOK

LEMMA InitInv == Init => Inv
<1> SUFFICES ASSUME Init PROVE Inv
  OBVIOUS
<1>1. plan \in Plan
  BY GoalAssumption DEF Init, Plan, PlanStatus, StepStatus
<1>2. Sound(plan) /\ plan.approved = {}
  BY <1>1, GoalAssumption DEF Init, Sound, Finished
<1>3. WatchesOK(watches)
  BY DEF Init, WatchesOK
<1>4. Woken
  BY DEF Init, Woken, TaskStatus, QueuedHasWake
<1>5. Shape
  BY GoalAssumption DEF Init, Shape, ClockOK, JobsOK, RunOK, HistoryOK, NoRun
<1>. QED
  BY <1>2, <1>3, <1>4, <1>5 DEF Inv, Planned

LEMMA StepInv == Inv /\ [Next]_gVars => Inv'
<1> SUFFICES ASSUME Inv, [Next]_gVars PROVE Inv'
  OBVIOUS
<1>0. Planned /\ Woken /\ Shape /\ GTypeOK
  BY InvIsTyped DEF Inv
<1>1. CASE User
  BY <1>0, <1>1, UserPlanned, UserWoken, UserShape DEF Inv
<1>2. CASE Scanner
  BY <1>0, <1>2, ScannerPlanned, ScannerWoken, ScannerShape DEF Inv
<1>3. CASE Decision
  BY <1>0, <1>3, DecisionPlanned, DecisionWoken, DecisionShape DEF Inv
<1>4. CASE Run
  BY <1>0, <1>4, RunPlanned, RunWoken, RunShape DEF Inv
<1>5. CASE UNCHANGED gVars
  <2>1. Planned' /\ Woken'
    BY <1>0, <1>5, KeptIsPlanned, KeptIsWoken DEF gVars, history, PlanKept, TaskKept
  <2>2. Shape'
    BY <1>0, <1>5 DEF gVars, clock, triggers, history, Shape, ClockOK, JobsOK, RunOK, HistoryOK
  <2>. QED
    BY <2>1, <2>2 DEF Inv
<1>. QED
  BY <1>1, <1>2, <1>3, <1>4, <1>5 DEF Next

LEMMA SpecInv == Spec => []Inv
BY InitInv, StepInv, PTL DEF Spec

\* A queued task has a wake-up on its way, whoever queued it (goal_service.py,
\* goal_decision.py, watchers.py, runtime.py).
THEOREM QueuedHasWakeCorrect == Spec => []QueuedHasWake
<1>1. Inv => QueuedHasWake
  BY DEF Inv, Woken
<1>. QED
  BY <1>1, SpecInv, PTL

\* A step that asks for an approval runs only with an approval given for what it,
\* and everything it rests on, says now (modify and approve_step of
\* goal_service.py, on_run_started).
THEOREM ApprovedFirstCorrect == Spec => []ApprovedFirst
<1>1. Inv => ApprovedFirst
  BY DEF Inv, Planned, Sound, ApprovedFirst
<1>. QED
  BY <1>1, SpecInv, PTL

\* No step runs while a step it depends on is open again, however far away the
\* edit was made (modify of goal_service.py).
THEOREM OrderKeptCorrect == Spec => []OrderKept
<1>1. Inv => OrderKept
  BY InvIsTyped DEF Inv, Planned, Sound, OrderKept
<1>. QED
  BY <1>1, SpecInv, PTL
===============================================================================
