----------------------------- MODULE EpochProofs -----------------------------
(***************************************************************************)
(* What holds of the epochs and segments of a thread for any number of     *)
(* turns, segments, epochs and poll threads, and all values of the limits. *)
(***************************************************************************)
EXTENDS Epoch, TLAPS

\* Every way an action rewrites a row gives a row again.
LEMMA TurnUpdates ==
    ASSUME NEW r \in TurnRow
    PROVE  /\ \A x \in {"stale", "done"} : [r EXCEPT !.status = x] \in TurnRow
           /\ \A b \in BOOLEAN :
                [r EXCEPT !.status = "running", !.late = b] \in TurnRow
  BY DEF TurnRow

LEMMA ClaimedRow ==
    ASSUME NEW r \in JobRow
    PROVE  LET q == [r EXCEPT !.status = "running", !.live = TRUE, !.token = @ + 1] IN
           q \in JobRow /\ q.status = "running"
<1>1. r.token + 1 \in Nat
  BY DEF JobRow
<1> QED BY <1>1 DEF JobRow

LEMMA ExpiredRow ==
    ASSUME NEW r \in JobRow
    PROVE  [r EXCEPT !.live = FALSE] \in JobRow /\ [r EXCEPT !.live = FALSE].status = r.status
  BY DEF JobRow

LEMMA SettledRow ==
    ASSUME TypeOK, NEW j \in Job, NEW x \in {"pending", "completed", "deadletter"}
    PROVE  /\ Closed(j, x) \in JobRow
           /\ Closed(j, x).status = x
           /\ \A n \in 0 .. MaxRetries - 1 :
                /\ [Closed(j, x) EXCEPT !.retries = n] \in JobRow
                /\ [Closed(j, x) EXCEPT !.retries = n].status = x
<1>1. job[j] \in JobRow
  BY DEF TypeOK
<1>2. Closed(j, x) \in JobRow /\ Closed(j, x).status = x
  BY <1>1 DEF Closed, JobRow
<1> DEFINE r == Closed(j, x)
<1> HIDE DEF r
<1>3. r \in JobRow /\ r.status = x =>
        \A n \in 0 .. MaxRetries - 1 :
           [r EXCEPT !.retries = n] \in JobRow /\ [r EXCEPT !.retries = n].status = x
  BY DEF JobRow
<1> QED BY <1>2, <1>3 DEF r

LEMMA FreshRows ==
    /\ Pending \in JobRow /\ NoRow \in JobRow /\ NoRun \in RunRow
    /\ NoWork \in Work /\ NoTurn \in TurnRow /\ NoSegment \in SegmentRow
    /\ Active \in EpochRow /\ NoEpoch \in EpochRow
    /\ \A e \in EpochNo \cup {0} : OpenSegment(e) \in SegmentRow
    /\ Pending.status = "pending" /\ Active.status = "active"
    /\ \A e \in EpochNo \cup {0} : OpenSegment(e).status = "open" /\ OpenSegment(e).epoch = e
<1> USE EpochAssumption
<1>1. NoRow \in JobRow /\ NoRun \in RunRow /\ NoWork \in Work
  BY DEF NoRow, NoRun, NoWork, JobRow, RunRow, Work
<1>2. NoTurn \in TurnRow /\ NoSegment \in SegmentRow /\ NoEpoch \in EpochRow
  BY DEF NoTurn, NoSegment, NoEpoch, TurnRow, SegmentRow, EpochRow
<1>3. Pending \in JobRow /\ Pending.status = "pending"
  BY <1>1 DEF Pending, NoRow, JobRow
<1>4. Active \in EpochRow /\ Active.status = "active"
  BY <1>2 DEF Active, NoEpoch, EpochRow
<1>5. \A e \in EpochNo \cup {0} : /\ OpenSegment(e) \in SegmentRow
                               /\ OpenSegment(e).status = "open" /\ OpenSegment(e).epoch = e
  BY <1>2 DEF OpenSegment, NoSegment, SegmentRow
<1> QED BY <1>1, <1>2, <1>3, <1>4, <1>5

LEMMA FrozenRow ==
    ASSUME TypeOK, NEW s \in Segment
    PROVE  /\ Freeze(s) \in SegmentRow /\ Freeze(s).status = "sealing"
           /\ Freeze(s).epoch = seg[s].epoch
  BY DEF TypeOK, Freeze, TurnsOf, SegmentRow
-------------------------------------------------------------------------------
(***************************************************************************)
(* The inductive invariant.  That a thread has one active epoch rests on   *)
(* epochs being numbered upwards; that a checkpoint never touches the      *)
(* active epoch, on its job being added only for an epoch that was rolled  *)
(* over.                                                                   *)
(***************************************************************************)
NoneAfterActive ==
    \A d, e \in EpochNo : ActiveEpoch(e) /\ d > e => epoch[d].status = "none"
NoneWithoutActive ==
    (\E e \in EpochNo : ActiveEpoch(e)) \/ \A e \in EpochNo : epoch[e].status = "none"
OpenInActive ==
    \A s \in Segment : seg[s].status = "open" =>
        seg[s].epoch \in EpochNo /\ ActiveEpoch(seg[s].epoch)
OneOpen ==
    \A s, o \in Segment : seg[s].status = "open" /\ seg[o].status = "open" => o = s
OneSealing ==
    \A s, o \in Segment : seg[s].status = "sealing" /\ seg[o].status = "sealing" => o = s
Fronts == NoneAfterActive /\ NoneWithoutActive /\ OpenInActive /\ OneOpen /\ OneSealing

Rolled(e) == epoch[e].status \in {"sealing", "sealed"}
CheckedIsRolled ==
    \A e \in EpochNo : job[<<"check", e>>].status # "none" => Rolled(e)
WorkIsJob ==
    \A w \in Worker : work[w].phase # "idle" =>
        work[w].job \in Job /\ job[work[w].job].status # "none"
Jobs == CheckedIsRolled /\ WorkIsJob

IInv == TypeOK /\ Fronts /\ Jobs

LEMMA InitIInv == Init => IInv
<1> SUFFICES ASSUME Init PROVE IInv
  OBVIOUS
<1> USE EpochAssumption
<1>1. TypeOK
  <2>1. /\ turn \in [Turn -> TurnRow] /\ seg \in [Segment -> SegmentRow]
        /\ epoch \in [EpochNo -> EpochRow]
    BY FreshRows DEF Init
  <2>2. /\ job \in [Job -> JobRow] /\ run \in [Job -> RunRow] /\ work \in [Worker -> Work]
    BY FreshRows DEF Init
  <2>3. /\ idle \in BOOLEAN /\ ws \in {"clear", "waiting", "unresolved"}
        /\ hidden \subseteq Turn
    BY DEF Init
  <2>4. rare \in 0 .. MaxRare
    BY EpochAssumption, SMT DEF Init, EpochAssumption
  <2> QED BY <2>1, <2>2, <2>3, <2>4 DEF TypeOK
<1>2. Fronts
  BY DEF Init, Fronts, NoneAfterActive, NoneWithoutActive, OpenInActive, OneOpen, OneSealing,
         ActiveEpoch, NoSegment, NoEpoch
<1>3. Jobs
  BY DEF Init, Jobs, CheckedIsRolled, WorkIsJob, Job, NoRow, NoWork
<1> QED BY <1>1, <1>2, <1>3 DEF IInv

LEMMA IInvOneFront == IInv => OneFront
<1> SUFFICES ASSUME IInv PROVE OneFront
  OBVIOUS
<1>1. \A d, e \in EpochNo : ActiveEpoch(d) /\ ActiveEpoch(e) => d = e
  <2> SUFFICES ASSUME NEW d \in EpochNo, NEW e \in EpochNo, ActiveEpoch(d), ActiveEpoch(e)
               PROVE  d = e
    OBVIOUS
  <2>1. ~(d > e) /\ ~(e > d)
    BY DEF IInv, Fronts, NoneAfterActive, ActiveEpoch
  <2> QED BY <2>1, EpochAssumption
<1> QED BY <1>1 DEF IInv, Fronts, OpenInActive, OneOpen, OneSealing, OneFront
-------------------------------------------------------------------------------
(* What the steps of seg, epoch, job and work have in common. *)

\* The life of a segment and of an epoch as the invariant sees it.
SameSegments ==
    \A s \in Segment : seg'[s].status = seg[s].status /\ seg'[s].epoch = seg[s].epoch

LEMMA SameFronts == IInv /\ SameSegments /\ UNCHANGED epoch => Fronts'
  BY DEF IInv, Fronts, SameSegments, NoneAfterActive, NoneWithoutActive, OpenInActive,
         OneOpen, OneSealing, ActiveEpoch

LEMMA MarkedRow ==
    ASSUME NEW r \in SegmentRow
    PROVE  LET q == [r EXCEPT !.pending = TRUE] IN
           q \in SegmentRow /\ q.status = r.status /\ q.epoch = r.epoch
  BY DEF SegmentRow

\* A row that exists stays; a checkpoint job is added for a rolled epoch only.
JobsGrow ==
    /\ \A j \in Job : job[j].status # "none" => job'[j].status # "none"
    /\ \A e \in EpochNo : job'[<<"check", e>>].status # "none" =>
          job[<<"check", e>>].status # "none" \/ Rolled(e)'
EpochsRoll == \A e \in EpochNo : Rolled(e) => Rolled(e)'
\* A worker keeps the job it has, drops it, or claims one.
WorkMoves ==
    \A w \in Worker : work'[w].phase # "idle" =>
        \/ work[w].phase # "idle" /\ work'[w].job = work[w].job
        \/ work'[w].job \in Job /\ job'[work'[w].job].status # "none"

LEMMA JobsKept == IInv /\ JobsGrow /\ EpochsRoll /\ WorkMoves => Jobs'
  BY DEF IInv, Jobs, JobsGrow, EpochsRoll, WorkMoves, CheckedIsRolled, WorkIsJob

\* Steps that move neither segments, nor epochs, nor jobs.
LEMMA QuietStep ==
    ASSUME IInv, TypeOK', SameSegments, UNCHANGED <<epoch, job, work>>
    PROVE  IInv'
<1>1. Fronts'
  BY SameFronts
<1>2. Jobs'
  BY JobsKept DEF IInv, JobsGrow, EpochsRoll, WorkMoves, Rolled
<1> QED BY <1>1, <1>2 DEF IInv

\* A segment is frozen, and gets a successor in the same epoch.
LEMMA SealStep ==
    ASSUME IInv, NEW s \in Segment, Sealable(s), NEW jobs \in [Job -> JobRow],
           \A j \in Job : job[j].status # "none" => jobs[j].status # "none",
           \A e \in EpochNo : jobs[<<"check", e>>].status # "none" =>
              job[<<"check", e>>].status # "none" \/ Rolled(e),
           SealOnto(jobs, s), UNCHANGED <<turn, epoch, idle, ws, hidden, run, work, rare>>
    PROVE  IInv'
<1>1. PICK n \in Segment :
        /\ IsNext(n)
        /\ seg' = [seg EXCEPT ![s] = Freeze(s), ![n] = OpenSegment(seg[s].epoch)]
        /\ job' = [jobs EXCEPT ![<<"seal", s>>] = Pending]
  BY DEF SealOnto
<1>2. /\ n # s /\ seg[n].status = "none" /\ seg[s].status = "open"
      /\ \A o \in Segment : seg[o].status # "sealing"
  BY <1>1 DEF IsNext, Sealable
<1>3. seg[s].epoch \in EpochNo /\ ActiveEpoch(seg[s].epoch)
  BY <1>2 DEF IInv, Fronts, OpenInActive
<1>4. /\ seg' \in [Segment -> SegmentRow]
      /\ seg'[s].status = "sealing"
      /\ seg'[n].status = "open" /\ seg'[n].epoch = seg[s].epoch
      /\ \A o \in Segment \ {s, n} : seg'[o] = seg[o]
  BY <1>1, <1>2, <1>3, FreshRows, FrozenRow DEF IInv, TypeOK
<1>5. TypeOK'
  <2>1. job' \in [Job -> JobRow]
    BY <1>1, FreshRows
  <2> QED BY <1>4, <2>1 DEF IInv, TypeOK
<1>6. Fronts'
  <2>1. NoneAfterActive' /\ NoneWithoutActive'
    BY DEF IInv, Fronts, NoneAfterActive, NoneWithoutActive, ActiveEpoch
  <2>2. \A o \in Segment \ {s} : seg[o].status # "open"
    BY <1>2 DEF IInv, Fronts, OneOpen
  <2>3. \A o \in Segment \ {n} : seg'[o].status # "open"
    BY <1>4, <2>2
  <2>4. OpenInActive' /\ OneOpen'
    BY <1>3, <1>4, <2>3 DEF OpenInActive, OneOpen, ActiveEpoch
  <2>5. OneSealing'
    BY <1>2, <1>4 DEF OneSealing
  <2> QED BY <2>1, <2>4, <2>5 DEF Fronts
<1>7. Jobs'
  <2>1. JobsGrow
    BY <1>1, FreshRows DEF JobsGrow, Job, Rolled
  <2> QED BY <2>1, JobsKept DEF IInv, EpochsRoll, WorkMoves, Rolled
<1> QED BY <1>5, <1>6, <1>7 DEF IInv

\* An epoch is rolled over: its open segment is frozen or, if empty, deleted.
LEMMA RollStep ==
    ASSUME IInv, NEW e \in EpochNo, ActiveEpoch(e), ~RolloverStale(e), Roll(e)
    PROVE  /\ seg' \in [Segment -> SegmentRow] /\ epoch' \in [EpochNo -> EpochRow]
           /\ job' \in [Job -> JobRow]
           /\ Fronts' /\ JobsGrow /\ EpochsRoll
<1> DEFINE empty == {s \in SegsOf(e) : seg[s].status = "open" /\ TurnsOf(s) = {}}
           full == {s \in SegsOf(e) : seg[s].status = "open" /\ TurnsOf(s) # {}}
           gone == [NoSegment EXCEPT !.status = "gone"]
<1>1. PICK n \in Segment :
        /\ e + 1 \in EpochNo /\ IsNext(n)
        /\ seg' = [s \in Segment |->
                     CASE s = n -> OpenSegment(e + 1)
                       [] s \in empty -> gone
                       [] s \in full -> Freeze(s)
                       [] OTHER -> seg[s]]
        /\ epoch' = [epoch EXCEPT ![e] = [@ EXCEPT !.status = "sealing",
                                                   !.sources = SourcesOf(e)],
                                  ![e + 1] = Active]
        /\ job' = [j \in Job |-> IF Kind(j) = "seal" /\ Target(j) \in full
                                 THEN Pending ELSE job[j]]
  BY DEF Roll
<1>2. gone \in SegmentRow /\ gone.status = "gone"
  BY FreshRows DEF NoSegment, SegmentRow
<1> HIDE DEF gone
<1>3. /\ seg \in [Segment -> SegmentRow] /\ epoch \in [EpochNo -> EpochRow]
      /\ job \in [Job -> JobRow]
  BY DEF IInv, TypeOK
<1>4. e \in Nat /\ e + 1 # e /\ epoch[e].status = "active"
  BY EpochAssumption, SMT DEF EpochAssumption, ActiveEpoch
<1>5. \A s \in Segment : seg[s].status = "open" => seg[s].epoch = e
  BY IInvOneFront DEF IInv, Fronts, OpenInActive, OneFront
<1>6. \A s \in Segment : seg[s].status # "sealing"
  BY DEF RolloverStale
<1>7. \A s \in Segment : s \in empty \cup full <=> seg[s].status = "open"
  BY <1>5 DEF SegsOf
<1>8. seg[n].status = "none"
  BY <1>1 DEF IsNext
<1>9. n \notin empty /\ n \notin full /\ empty \cap full = {}
  BY <1>1, <1>7, <1>8
<1> HIDE DEF empty, full
<1>10. /\ seg'[n].status = "open" /\ seg'[n].epoch = e + 1
       /\ \A s \in Segment \ {n} :
            /\ seg'[s].status # "open"
            /\ seg'[s].status = "sealing" => seg[s].status = "open"
  <2>1. seg'[n] = OpenSegment(e + 1)
    BY <1>1, <1>9
  <2>2. ASSUME NEW s \in Segment \ {n}
        PROVE  /\ seg'[s].status # "open"
               /\ seg'[s].status = "sealing" => seg[s].status = "open"
    <3>1. CASE s \in empty
      <4>1. seg'[s] = gone
        BY <1>1, <1>9, <3>1
      <4> QED BY <1>2, <4>1
    <3>2. CASE s \notin empty /\ s \in full
      <4>1. seg'[s] = Freeze(s)
        BY <1>1, <1>9, <3>2
      <4> QED BY <1>7, <3>2, <4>1, FrozenRow DEF IInv
    <3>3. CASE s \notin empty /\ s \notin full
      <4>1. seg'[s] = seg[s]
        BY <1>1, <3>3
      <4> QED BY <1>6, <1>7, <3>3, <4>1
    <3> QED BY <3>1, <3>2, <3>3
  <2> QED BY <1>1, <2>1, <2>2, FreshRows
<1>11. seg' \in [Segment -> SegmentRow]
  BY <1>1, <1>2, <1>3, FreshRows, FrozenRow DEF IInv
<1>12. SourcesOf(e) \subseteq Segment
  BY DEF SourcesOf, SegsOf
<1>13. /\ epoch' \in [EpochNo -> EpochRow]
       /\ epoch'[e].status = "sealing" /\ epoch'[e + 1].status = "active"
       /\ \A d \in EpochNo \ {e, e + 1} : epoch'[d] = epoch[d]
  <2>1. [epoch[e] EXCEPT !.status = "sealing", !.sources = SourcesOf(e)] \in EpochRow
    BY <1>3, <1>12 DEF EpochRow
  <2>2. [epoch[e] EXCEPT !.status = "sealing", !.sources = SourcesOf(e)].status = "sealing"
    BY <1>3 DEF EpochRow
  <2> QED BY <1>1, <1>3, <1>4, <2>1, <2>2, FreshRows
<1>14. job' \in [Job -> JobRow]
  BY <1>1, <1>3, FreshRows
<1>15. \A d \in EpochNo : d > e => epoch[d].status = "none"
  BY <1>4 DEF IInv, Fronts, NoneAfterActive, ActiveEpoch
<1>16. Fronts'
  <2>1. \A d \in EpochNo : epoch'[d].status = "active" => d = e + 1
    <3>1. \A d \in EpochNo : epoch[d].status = "active" => d = e
      BY <1>4, IInvOneFront DEF OneFront, ActiveEpoch
    <3> QED BY <1>13, <3>1
  <2>2. NoneAfterActive'
    <3>1. \A d \in EpochNo : d > e + 1 => d > e /\ d # e /\ d # e + 1
      BY <1>4, EpochAssumption, SMT DEF EpochAssumption
    <3>2. \A d \in EpochNo : d > e + 1 => epoch'[d].status = "none"
      BY <1>13, <1>15, <3>1
    <3> QED BY <2>1, <3>2 DEF NoneAfterActive, ActiveEpoch
  <2>3. NoneWithoutActive'
    BY <1>1, <1>13 DEF NoneWithoutActive, ActiveEpoch
  <2>4. OpenInActive' /\ OneOpen'
    BY <1>1, <1>10, <1>13 DEF OpenInActive, OneOpen, ActiveEpoch
  <2>5. OneSealing'
    BY <1>10 DEF OneSealing, IInv, Fronts, OneOpen
  <2> QED BY <2>2, <2>3, <2>4, <2>5 DEF Fronts
<1>17. JobsGrow
  <2>1. \A d \in EpochNo : job'[<<"check", d>>] = job[<<"check", d>>]
    BY <1>1 DEF Kind, Job
  <2> QED BY <1>1, <2>1, FreshRows DEF JobsGrow
<1>18. EpochsRoll
  <2>1. epoch[e + 1].status = "none"
    BY <1>1, <1>4, <1>15
  <2> QED BY <1>4, <1>13, <2>1 DEF EpochsRoll, Rolled
<1> QED BY <1>11, <1>13, <1>14, <1>16, <1>17, <1>18
-------------------------------------------------------------------------------
(* The steps, one lemma for each part of the module. *)

LEMMA TurnStep ==
    ASSUME IInv, NEW t \in Turn
    PROVE  /\ \A x \in {"fresh", "done"} : CreateTurn(t, x) => IInv'
           /\ RunTurn(t) \/ FinishTurn(t) \/ GrowStale(t) \/ Forget(t) => IInv'
<1> USE EpochAssumption
<1>1. ASSUME NEW x \in {"fresh", "done"}, NEW s \in Segment
      PROVE  [status |-> x, seg |-> s, late |-> FALSE] \in TurnRow
  BY DEF TurnRow
<1>2. ASSUME NEW x \in {"fresh", "done"}, CreateTurn(t, x) PROVE IInv'
  <2> DEFINE row(s) == [status |-> x, seg |-> s, late |-> FALSE]
  <2>1. /\ idle' = FALSE /\ UNCHANGED <<ws, hidden, job, run, work, rare>>
        /\ Attribute(t, x)
    BY <1>2 DEF CreateTurn
  <2>2. CASE \E s \in Segment : turn' = [turn EXCEPT ![t] = row(s)] /\ UNCHANGED <<seg, epoch>>
    <3>1. TypeOK'
      BY <1>1, <2>1, <2>2 DEF IInv, TypeOK
    <3> QED BY <2>1, <2>2, <3>1, QuietStep DEF SameSegments
  <2>3. ASSUME NEW s \in Segment,
               \A e \in EpochNo : ~ActiveEpoch(e),
               IsNext(s),
               epoch' = [epoch EXCEPT ![1] = Active],
               seg' = [seg EXCEPT ![s] = OpenSegment(1)],
               turn' = [turn EXCEPT ![t] = row(s)]
        PROVE  IInv'
    <3>1. 1 \in EpochNo
      BY DEF EpochAssumption
    <3>2. TypeOK'
      BY <1>1, <2>1, <2>3, <3>1, FreshRows DEF IInv, TypeOK
    <3>3. \A e \in EpochNo : epoch[e].status = "none"
      BY <2>3 DEF IInv, Fronts, NoneWithoutActive
    <3>4. \A o \in Segment : seg[o].status # "open"
      BY <2>3 DEF IInv, Fronts, OpenInActive
    <3>5. /\ epoch'[1].status = "active" /\ \A e \in EpochNo \ {1} : epoch'[e] = epoch[e]
          /\ seg'[s].status = "open" /\ seg'[s].epoch = 1
          /\ \A o \in Segment \ {s} : seg'[o] = seg[o]
      BY <2>3, <3>1, FreshRows DEF IInv, TypeOK
    <3>6. NoneAfterActive' /\ NoneWithoutActive'
      <4>1. \A e \in EpochNo : e > 1 => e # 1
        BY SMT DEF EpochAssumption
      <4>2. \A e \in EpochNo : epoch'[e].status = "active" => e = 1
        BY <3>3, <3>5
      <4>3. NoneAfterActive'
        BY <3>3, <3>5, <4>1, <4>2 DEF NoneAfterActive, ActiveEpoch
      <4> QED BY <3>1, <3>5, <4>3 DEF NoneWithoutActive, ActiveEpoch
    <3>7. OpenInActive' /\ OneOpen'
      BY <3>1, <3>4, <3>5 DEF OpenInActive, OneOpen, ActiveEpoch
    <3>8. OneSealing'
      BY <3>5 DEF OneSealing, IInv, Fronts
    <3>9. Jobs'
      BY <2>1, <3>3, JobsKept DEF IInv, JobsGrow, EpochsRoll, WorkMoves, Rolled
    <3> QED BY <3>2, <3>6, <3>7, <3>8, <3>9 DEF IInv, Fronts
  <2> QED BY <2>1, <2>2, <2>3 DEF Attribute
<1>3. ASSUME RunTurn(t) \/ GrowStale(t) PROVE IInv'
  <2>1. /\ UNCHANGED <<seg, epoch, ws, hidden, job, run, work>> /\ rare' \in 0 .. MaxRare
        /\ idle' \in BOOLEAN
    <3>1. rare \in 0 .. MaxRare /\ idle \in BOOLEAN
      BY DEF IInv, TypeOK
    <3>2. CASE RunTurn(t)
      BY <3>1, <3>2 DEF RunTurn
    <3>3. CASE GrowStale(t)
      BY <3>1, <3>3 DEF GrowStale, EpochAssumption
    <3> QED BY <1>3, <3>2, <3>3
  <2>2. turn[t] \in TurnRow
    BY DEF IInv, TypeOK
  <2>3. turn' \in [Turn -> TurnRow]
    <3>1. \E r \in TurnRow : turn' = [turn EXCEPT ![t] = r]
      BY <1>3, <2>2, TurnUpdates DEF RunTurn, GrowStale
    <3> QED BY <3>1 DEF IInv, TypeOK
  <2>4. TypeOK'
    BY <2>1, <2>3 DEF IInv, TypeOK
  <2> QED BY <2>1, <2>4, QuietStep DEF SameSegments
<1>4. ASSUME FinishTurn(t) PROVE IInv'
  <2>1. /\ UNCHANGED <<epoch, ws, hidden, job, run, work, rare>> /\ idle' = FALSE
        /\ turn' = [turn EXCEPT ![t] = [turn[t] EXCEPT !.status = "done"]]
        /\ seg' = seg \/ seg' = [seg EXCEPT ![turn[t].seg].pending = TRUE]
    BY <1>4 DEF FinishTurn
  <2>2. turn' \in [Turn -> TurnRow]
    BY <2>1, TurnUpdates DEF IInv, TypeOK
  <2>3. seg' \in [Segment -> SegmentRow] /\ SameSegments
    <3>1. seg \in [Segment -> SegmentRow]
      BY DEF IInv, TypeOK
    <3>2. CASE turn[t].seg \in Segment /\ seg' # seg
      <4>1. PICK s \in Segment : seg' = [seg EXCEPT ![s] = [seg[s] EXCEPT !.pending = TRUE]]
        BY <2>1, <3>2
      <4> QED BY <3>1, <4>1, MarkedRow DEF SameSegments
    <3>3. CASE turn[t].seg \notin Segment \/ seg' = seg
      <4>1. seg' = seg
        BY <2>1, <3>1, <3>3
      <4> QED BY <3>1, <4>1 DEF SameSegments
    <3> QED BY <3>2, <3>3
  <2>4. TypeOK'
    BY <2>1, <2>2, <2>3 DEF IInv, TypeOK
  <2> QED BY <2>1, <2>3, <2>4, QuietStep
<1>5. ASSUME Forget(t) PROVE IInv'
  <2>1. TypeOK'
    BY <1>5 DEF Forget, IInv, TypeOK
  <2> QED BY <1>5, <2>1, QuietStep DEF Forget, SameSegments
<1> QED BY <1>2, <1>3, <1>4, <1>5

LEMMA ThreadStep ==
    ASSUME IInv
    PROVE  /\ GoIdle => IInv'
           /\ \A v \in {"clear", "waiting", "unresolved"} : ChangeWorkingState(v) => IInv'
           /\ \A s \in Segment : MarkPending(s) => IInv'
<1> USE EpochAssumption
<1>1. ASSUME GoIdle PROVE IInv'
  <2>1. TypeOK'
    BY <1>1 DEF GoIdle, IInv, TypeOK
  <2> QED BY <1>1, <2>1, QuietStep DEF GoIdle, SameSegments
<1>2. ASSUME NEW v \in {"clear", "waiting", "unresolved"}, ChangeWorkingState(v) PROVE IInv'
  <2>1. rare' \in 0 .. MaxRare
    BY <1>2 DEF ChangeWorkingState, IInv, TypeOK
  <2>2. TypeOK'
    BY <1>2, <2>1 DEF ChangeWorkingState, IInv, TypeOK
  <2> QED BY <1>2, <2>2, QuietStep DEF ChangeWorkingState, SameSegments
<1>3. ASSUME NEW s \in Segment, MarkPending(s) PROVE IInv'
  <2>1. seg' \in [Segment -> SegmentRow] /\ SameSegments
    BY <1>3 DEF MarkPending, IInv, TypeOK, SegmentRow, SameSegments
  <2>2. TypeOK'
    BY <1>3, <2>1 DEF MarkPending, IInv, TypeOK
  <2> QED BY <1>3, <2>1, <2>2, QuietStep DEF MarkPending
<1> QED BY <1>1, <1>2, <1>3

\* Rows added for jobs that are missing, where no checkpoint comes too early.
LEMMA Added ==
    ASSUME IInv, NEW J, \A e \in EpochNo : <<"check", e>> \in J => Rolled(e)
    PROVE  /\ AddMissing(J) \in [Job -> JobRow]
           /\ \A j \in Job : job[j].status # "none" => AddMissing(J)[j].status # "none"
           /\ \A e \in EpochNo : AddMissing(J)[<<"check", e>>].status # "none" =>
                 job[<<"check", e>>].status # "none" \/ Rolled(e)
  BY FreshRows DEF AddMissing, IInv, TypeOK, Job

LEMMA FreezeStep ==
    ASSUME IInv
    PROVE  /\ \A s \in Segment : SealByScanner(s) \/ SealByUser(s) => IInv'
           /\ Reconcile => IInv'
<1>1. ASSUME NEW s \in Segment, SealByScanner(s) \/ SealByUser(s) PROVE IInv'
  <2>1. job \in [Job -> JobRow]
    BY DEF IInv, TypeOK
  <2> QED BY <1>1, <2>1, SealStep DEF SealByScanner, SealByUser
<1>2. ASSUME Reconcile PROVE IInv'
  <2>1. \A e \in EpochNo : <<"check", e>> \in Missing => Rolled(e)
    BY DEF Missing, Rolled
  <2>2. CASE \E s \in Segment : Sealable(s) /\ SealOnto(AddMissing(Missing), s)
    BY <1>2, <2>1, <2>2, Added, SealStep DEF Reconcile
  <2>3. CASE job' = AddMissing(Missing) /\ UNCHANGED seg
    <3>1. UNCHANGED <<turn, epoch, idle, ws, hidden, run, work, rare>>
      BY <1>2 DEF Reconcile
    <3>2. TypeOK'
      BY <2>1, <2>3, <3>1, Added DEF IInv, TypeOK
    <3>3. Fronts'
      BY <2>3, <3>1, SameFronts DEF SameSegments
    <3>4. JobsGrow
      BY <2>1, <2>3, <3>1, Added DEF JobsGrow, Rolled
    <3>5. Jobs'
      BY <3>1, <3>4, JobsKept DEF IInv, EpochsRoll, WorkMoves, Rolled
    <3> QED BY <3>2, <3>3, <3>5 DEF IInv
  <2> QED BY <1>2, <2>2, <2>3 DEF Reconcile
<1> QED BY <1>1, <1>2

LEMMA RolloverByUser == IInv /\ (\E e \in EpochNo : RollByUser(e)) => IInv'
<1> SUFFICES ASSUME IInv, NEW e \in EpochNo, RollByUser(e) PROVE IInv'
  OBVIOUS
<1>1. /\ ActiveEpoch(e) /\ ~RolloverStale(e) /\ Roll(e)
      /\ rare < MaxRare /\ rare' = rare + 1
      /\ UNCHANGED <<turn, idle, ws, hidden, run, work>>
  BY DEF RollByUser
<1>2. rare' \in 0 .. MaxRare
  BY <1>1, EpochAssumption, SMT DEF IInv, TypeOK, EpochAssumption
<1>3. TypeOK'
  BY <1>1, <1>2, RollStep DEF IInv, TypeOK
<1>4. WorkMoves
  BY <1>1, RollStep DEF WorkMoves, JobsGrow, IInv, Jobs, WorkIsJob
<1>5. Jobs'
  BY <1>1, <1>4, RollStep, JobsKept
<1> QED BY <1>1, <1>3, <1>5, RollStep DEF IInv

\* What a handler does to its own worker.
LEMMA WorkUpdates ==
    ASSUME IInv, NEW w \in Worker
    PROVE  /\ Drop(w) => /\ work' \in [Worker -> Work]
                         /\ \A v \in Worker \ {w} : work'[v] = work[v]
                         /\ work'[w].phase = "idle"
           /\ \A p \in {"summarise", "commit", "completed", "failed", "refused"} :
                Goto(w, p) => /\ work' \in [Worker -> Work]
                              /\ \A v \in Worker \ {w} : work'[v] = work[v]
                              /\ work'[w].job = work[w].job
<1>1. ASSUME Drop(w) PROVE work' \in [Worker -> Work] /\ work'[w].phase = "idle"
  BY <1>1, FreshRows DEF Drop, IInv, TypeOK, NoWork
<1>2. ASSUME NEW p \in {"summarise", "commit", "completed", "failed", "refused"}, Goto(w, p)
      PROVE  work' \in [Worker -> Work] /\ work'[w].job = work[w].job
  <2>1. work[w] \in Work
    BY DEF IInv, TypeOK
  <2>2. [work[w] EXCEPT !.phase = p] \in Work /\ [work[w] EXCEPT !.phase = p].job = work[w].job
    BY <2>1 DEF Work
  <2>3. work' = [work EXCEPT ![w] = [work[w] EXCEPT !.phase = p]]
    BY <1>2 DEF Goto
  <2> QED BY <2>2, <2>3 DEF IInv, TypeOK
<1>3. \A v \in Worker \ {w} : Drop(w) => work'[v] = work[v]
  BY DEF Drop, IInv, TypeOK
<1>4. \A v \in Worker \ {w} : \A p : Goto(w, p) => work'[v] = work[v]
  BY DEF Goto, IInv, TypeOK
<1> QED BY <1>1, <1>2, <1>3, <1>4

WorkerMoves(w) ==
    Drop(w) \/ \E p \in {"summarise", "commit", "completed", "failed", "refused"} : Goto(w, p)

LEMMA WorkerMovesOn ==
    ASSUME IInv, NEW w \in Worker, WorkerMoves(w), work[w].phase # "idle",
           \A j \in Job : job[j].status # "none" => job'[j].status # "none"
    PROVE  WorkMoves /\ work' \in [Worker -> Work]
<1>1. \A v \in Worker \ {w} : work'[v] = work[v]
  BY WorkUpdates DEF WorkerMoves
<1>2. work'[w].phase = "idle" \/ work'[w].job = work[w].job
  <2>1. CASE Drop(w)
    BY <2>1, WorkUpdates
  <2>2. CASE \E p \in {"summarise", "commit", "completed", "failed", "refused"} : Goto(w, p)
    <3>1. PICK p \in {"summarise", "commit", "completed", "failed", "refused"} : Goto(w, p)
      BY <2>2
    <3> QED BY <3>1, WorkUpdates
  <2> QED BY <2>1, <2>2 DEF WorkerMoves
<1>3. work' \in [Worker -> Work]
  BY WorkUpdates DEF WorkerMoves
<1>4. WorkMoves
  BY <1>1, <1>2 DEF WorkMoves
<1> QED BY <1>3, <1>4

\* Workers and rows of the outbox move, segments and epochs do not.
LEMMA OutboxStep ==
    ASSUME IInv, WorkMoves, work' \in [Worker -> Work], JobsGrow, job' \in [Job -> JobRow],
           run' \in [Job -> RunRow], rare' \in 0 .. MaxRare,
           UNCHANGED <<turn, seg, epoch, idle, ws, hidden>>
    PROVE  IInv'
<1>1. TypeOK'
  BY DEF IInv, TypeOK
<1>2. Fronts'
  BY SameFronts DEF SameSegments
<1>3. EpochsRoll
  BY DEF EpochsRoll, Rolled
<1> QED BY <1>1, <1>2, <1>3, JobsKept DEF IInv

\* One row of the outbox is written, and none becomes "none".
LEMMA OneRowGrows ==
    ASSUME IInv, NEW j \in Job, NEW r \in JobRow, job[j].status # "none", r.status # "none",
           job' = [job EXCEPT ![j] = r]
    PROVE  job' \in [Job -> JobRow] /\ JobsGrow
  BY DEF IInv, TypeOK, JobsGrow, Job

LEMMA NoRowGrows == IInv /\ UNCHANGED job => job' \in [Job -> JobRow] /\ JobsGrow
  BY DEF IInv, TypeOK, JobsGrow

LEMMA RunWritten ==
    ASSUME IInv, NEW j, NEW r \in RunRow, run' = run \/ run' = [run EXCEPT ![j] = r]
    PROVE  run' \in [Job -> RunRow]
  BY DEF IInv, TypeOK

LEMMA RareCounted ==
    ASSUME IInv, rare' = rare \/ (rare < MaxRare /\ rare' = rare + 1)
    PROVE  rare' \in 0 .. MaxRare
<1>1. rare \in 0 .. MaxRare
  BY DEF IInv, TypeOK
<1> QED BY <1>1, EpochAssumption, SMT DEF EpochAssumption

LEMMA ClaimStep ==
    ASSUME IInv, NEW w \in Worker, NEW j \in Job, Claim(w, j)
    PROVE  IInv'
<1> DEFINE r == [job[j] EXCEPT !.status = "running", !.live = TRUE, !.token = job[j].token + 1]
           c == [job |-> j, token |-> job[j].token + 1, retries |-> job[j].retries,
                 phase |-> "claimed"]
<1>1. /\ job[j].status # "none"
      /\ job' = [job EXCEPT ![j] = r] /\ work' = [work EXCEPT ![w] = c]
      /\ UNCHANGED <<turn, seg, epoch, idle, ws, hidden, run, rare>>
  BY DEF Claim
<1>2. job[j] \in JobRow
  BY DEF IInv, TypeOK
<1>3. r \in JobRow /\ r.status = "running"
  BY <1>2, ClaimedRow
<1>4. c \in Work /\ c.job = j
  BY <1>2 DEF JobRow, Work
<1> HIDE DEF r, c
<1>5. job' \in [Job -> JobRow] /\ JobsGrow
  BY <1>1, <1>3, OneRowGrows
<1>6. work' \in [Worker -> Work]
  BY <1>1, <1>4 DEF IInv, TypeOK
<1>7. WorkMoves
  <2>1. job'[j].status = "running"
    BY <1>1, <1>3 DEF IInv, TypeOK
  <2>2. work'[w] = c /\ \A v \in Worker \ {w} : work'[v] = work[v]
    BY <1>1 DEF IInv, TypeOK
  <2> QED BY <1>4, <2>1, <2>2 DEF WorkMoves
<1> QED BY <1>1, <1>5, <1>6, <1>7, OutboxStep DEF IInv, TypeOK

LEMMA HandlerStep ==
    ASSUME IInv, NEW w \in Worker
    PROVE  /\ OpenRun(w) => IInv'
           /\ \A ok \in BOOLEAN : Summarise(w, ok) => IInv'
           /\ \A p \in {"failed", "refused"} : HandlerFails(w, p) => IInv'
           /\ Crash(w) => IInv'
<1>1. ASSUME WorkerMoves(w), work[w].phase # "idle", run' \in [Job -> RunRow],
             rare' \in 0 .. MaxRare, UNCHANGED <<turn, seg, epoch, idle, ws, hidden, job>>
      PROVE  IInv'
  <2>1. job' \in [Job -> JobRow] /\ JobsGrow
    BY <1>1, NoRowGrows
  <2> QED BY <1>1, <2>1, WorkerMovesOn, OutboxStep
<1>2. run \in [Job -> RunRow] /\ rare \in 0 .. MaxRare
  BY DEF IInv, TypeOK
<1>3. ASSUME RunFailed(w) PROVE run' \in [Job -> RunRow]
  <2>1. [status |-> "failed", token |-> 0] \in RunRow
    BY DEF RunRow
  <2> QED BY <1>3, <2>1, RunWritten DEF RunFailed
<1>4. ASSUME OpenRun(w) PROVE IInv'
  <2>1. /\ work[w].phase = "claimed" /\ WorkerMoves(w)
        /\ UNCHANGED <<turn, seg, epoch, idle, ws, hidden, job, rare>>
    BY <1>4 DEF OpenRun, WorkerMoves
  <2>2. [status |-> "running", token |-> work[w].token] \in RunRow
    BY DEF IInv, TypeOK, Work, RunRow
  <2>3. run' \in [Job -> RunRow]
    BY <1>4, <2>2, RunWritten DEF OpenRun
  <2> QED BY <1>1, <1>2, <2>1, <2>3
<1>5. ASSUME NEW ok \in BOOLEAN, Summarise(w, ok) PROVE IInv'
  BY <1>1, <1>2, <1>3, <1>5 DEF Summarise, WorkerMoves
<1>6. ASSUME NEW p \in {"failed", "refused"}, HandlerFails(w, p) PROVE IInv'
  <2>1. /\ work[w].phase # "idle" /\ WorkerMoves(w)
        /\ RunFailed(w) /\ rare < MaxRare /\ rare' = rare + 1
        /\ UNCHANGED <<turn, seg, epoch, idle, ws, hidden, job>>
    BY <1>6 DEF HandlerFails, WorkerMoves
  <2> QED BY <1>1, <1>3, <2>1, RareCounted
<1>7. ASSUME Crash(w) PROVE IInv'
  <2>1. /\ work[w].phase # "idle" /\ WorkerMoves(w)
        /\ rare < MaxRare /\ rare' = rare + 1
        /\ UNCHANGED <<turn, seg, epoch, idle, ws, hidden, job, run>>
    BY <1>7 DEF Crash, WorkerMoves
  <2> QED BY <1>1, <1>2, <2>1, RareCounted
<1> QED BY <1>4, <1>5, <1>6, <1>7

LEMMA LeaseStep ==
    ASSUME IInv
    PROVE  /\ \A w \in Worker : Stall(w) => IInv'
           /\ \A j \in Job : LeaseExpires(j) => IInv'
<1>1. ASSUME NEW j \in Job, job[j].status = "running",
             job' = [job EXCEPT ![j] = [job[j] EXCEPT !.live = FALSE]],
             rare' = rare \/ (rare < MaxRare /\ rare' = rare + 1),
             UNCHANGED <<turn, seg, epoch, idle, ws, hidden, run, work>>
      PROVE  IInv'
  <2>1. /\ [job[j] EXCEPT !.live = FALSE] \in JobRow
        /\ [job[j] EXCEPT !.live = FALSE].status = "running"
    BY <1>1, ExpiredRow DEF IInv, TypeOK
  <2>2. job' \in [Job -> JobRow] /\ JobsGrow
    BY <1>1, <2>1, OneRowGrows
  <2>3. WorkMoves
    BY <1>1, <2>2 DEF WorkMoves
  <2>4. run' \in [Job -> RunRow] /\ work' \in [Worker -> Work]
    BY <1>1 DEF IInv, TypeOK
  <2> QED BY <1>1, <2>2, <2>3, <2>4, RareCounted, OutboxStep
<1>2. ASSUME NEW w \in Worker, Stall(w) PROVE IInv'
  <2>1. work[w].job \in Job /\ job[work[w].job].status = "running"
    BY <1>2 DEF Stall, ClaimMatches, Holds, IInv, Jobs, WorkIsJob
  <2>2. /\ job' = [job EXCEPT ![work[w].job] = [job[work[w].job] EXCEPT !.live = FALSE]]
        /\ rare < MaxRare /\ rare' = rare + 1
        /\ UNCHANGED <<turn, seg, epoch, idle, ws, hidden, run, work>>
    BY <1>2 DEF Stall
  <2> QED BY <1>1, <2>1, <2>2
<1>3. ASSUME NEW j \in Job, LeaseExpires(j) PROVE IInv'
  BY <1>1, <1>3 DEF LeaseExpires
<1> QED BY <1>2, <1>3

LEMMA FinishStep ==
    ASSUME IInv, NEW w \in Worker, FinishJob(w)
    PROVE  IInv'
<1> DEFINE j == work[w].job
<1>1. /\ work[w].phase \in {"completed", "failed", "refused"} /\ Drop(w)
      /\ UNCHANGED <<turn, seg, epoch, idle, ws, hidden, rare>>
  BY DEF FinishJob
<1>2. j \in Job /\ job[j].status # "none"
  BY <1>1 DEF IInv, Jobs, WorkIsJob
<1>3. run' \in [Job -> RunRow]
  <2>1. [status |-> "deadletter", token |-> 0] \in RunRow
    BY DEF RunRow
  <2> QED BY <2>1, RunWritten DEF FinishJob
<1>4. CASE ~LastAttempt(w)
  <2>1. work[w].retries + 1 \in 0 .. MaxRetries - 1
    <3>1. work[w].retries \in 0 .. MaxRetries - 1
      BY DEF IInv, TypeOK, Work
    <3> QED BY <1>4, <3>1, EpochAssumption, SMT DEF LastAttempt, EpochAssumption
  <2>2. \/ job' = job
        \/ \E r \in JobRow : r.status # "none" /\ job' = [job EXCEPT ![j] = r]
    BY <1>2, <2>1, SettledRow DEF FinishJob, IInv
  <2> QED BY <1>1, <1>2, <1>3, <2>2, OneRowGrows, NoRowGrows, WorkerMovesOn, OutboxStep, RareCounted
          DEF WorkerMoves, JobsGrow
<1>5. CASE LastAttempt(w)
  <2>1. \/ job' = job
        \/ \E r \in JobRow : r.status # "none" /\ job' = [job EXCEPT ![j] = r]
    BY <1>1, <1>2, <1>5, SettledRow DEF FinishJob, IInv
  <2> QED BY <1>1, <1>2, <1>3, <2>1, OneRowGrows, NoRowGrows, WorkerMovesOn, OutboxStep, RareCounted
          DEF WorkerMoves, JobsGrow
<1> QED BY <1>4, <1>5

LEMMA SummaryStep ==
    ASSUME IInv, NEW w \in Worker, CommitSummary(w)
    PROVE  IInv'
<1> DEFINE j == work[w].job
           s == Target(j)
<1>1. /\ work[w].phase = "commit" /\ Kind(j) = "seal" /\ WorkerMoves(w)
      /\ UNCHANGED <<turn, epoch, idle, ws, hidden, rare>>
  BY DEF CommitSummary, WorkerMoves
<1>2. j \in Job /\ s \in Segment
  <2>1. j \in Job
    BY <1>1 DEF IInv, Jobs, WorkIsJob
  <2> QED BY <1>1, <2>1 DEF Job, Kind, Target
<1>3. CASE UNCHANGED <<seg, run, job>>
  BY <1>1, <1>3, NoRowGrows, WorkerMovesOn, OutboxStep DEF IInv, TypeOK, JobsGrow
<1>4. CASE /\ seg[s].status = "sealing"
           /\ seg' = [seg EXCEPT ![s].status = "sealed"]
           /\ run' = [run EXCEPT ![j].status = "succeeded"]
           /\ job' = AddMissing(EpochJobs(seg[s].epoch))
  <2>1. \A e \in EpochNo : <<"check", e>> \in EpochJobs(seg[s].epoch) => Rolled(e)
    BY DEF EpochJobs, Rolled
  <2>2. job' \in [Job -> JobRow] /\ JobsGrow
    BY <1>1, <1>4, <2>1, Added DEF JobsGrow, Rolled
  <2>3. run' \in [Job -> RunRow]
    <3>1. [run[j] EXCEPT !.status = "succeeded"] \in RunRow
      BY <1>2 DEF IInv, TypeOK, RunRow
    <3> QED BY <1>4, <3>1, RunWritten
  <2>4. /\ seg' \in [Segment -> SegmentRow] /\ seg'[s].status = "sealed"
        /\ \A o \in Segment \ {s} : seg'[o] = seg[o]
    <3>1. seg[s] \in SegmentRow
      BY <1>2 DEF IInv, TypeOK
    <3>2. /\ [seg[s] EXCEPT !.status = "sealed"] \in SegmentRow
          /\ [seg[s] EXCEPT !.status = "sealed"].status = "sealed"
      BY <3>1 DEF SegmentRow
    <3> QED BY <1>2, <1>4, <3>2 DEF IInv, TypeOK
  <2>5. WorkMoves /\ work' \in [Worker -> Work]
    BY <1>1, <2>2, WorkerMovesOn DEF JobsGrow
  <2>6. Fronts'
    BY <1>1, <2>4 DEF IInv, Fronts, NoneAfterActive, NoneWithoutActive, OpenInActive,
                      OneOpen, OneSealing, ActiveEpoch
  <2>7. TypeOK'
    BY <1>1, <2>2, <2>3, <2>4, <2>5 DEF IInv, TypeOK
  <2>8. EpochsRoll
    BY <1>1 DEF EpochsRoll, Rolled
  <2> QED BY <2>2, <2>5, <2>6, <2>7, <2>8, JobsKept DEF IInv
<1> QED BY <1>3, <1>4 DEF CommitSummary

\* The checkpoint job was added for an epoch that was rolled over, so its commit
\* leaves the active epoch alone.
LEMMA CheckpointStep ==
    ASSUME IInv, NEW w \in Worker, CommitCheckpoint(w)
    PROVE  IInv'
<1> DEFINE j == work[w].job
           e == Target(j)
<1>1. /\ work[w].phase = "commit" /\ Kind(j) = "check" /\ WorkerMoves(w)
      /\ UNCHANGED <<turn, seg, idle, ws, hidden, job, rare>>
  BY DEF CommitCheckpoint, WorkerMoves
<1>2. e \in EpochNo /\ j \in Job /\ j = <<"check", e>> /\ job[j].status # "none"
  <2>1. j \in Job /\ job[j].status # "none"
    BY <1>1 DEF IInv, Jobs, WorkIsJob
  <2> QED BY <1>1, <2>1 DEF Job, Kind, Target
<1>3. job' \in [Job -> JobRow] /\ JobsGrow
  BY <1>1, NoRowGrows
<1>4. WorkMoves /\ work' \in [Worker -> Work]
  BY <1>1, <1>3, WorkerMovesOn DEF JobsGrow
<1>5. CASE UNCHANGED <<epoch, run>>
  BY <1>1, <1>3, <1>4, <1>5, OutboxStep DEF IInv, TypeOK
<1>6. CASE /\ epoch' = [epoch EXCEPT ![e] = [epoch[e] EXCEPT !.status = "sealed",
                                                            !.digest = SealedIn(e)]]
           /\ run' = [run EXCEPT ![j].status = "succeeded"]
  <2>1. run' \in [Job -> RunRow]
    <3>1. [run[j] EXCEPT !.status = "succeeded"] \in RunRow
      BY <1>2 DEF IInv, TypeOK, RunRow
    <3> QED BY <1>6, <3>1, RunWritten
  <2>2. /\ epoch' \in [EpochNo -> EpochRow] /\ epoch'[e].status = "sealed"
        /\ \A d \in EpochNo \ {e} : epoch'[d] = epoch[d]
    <3>1. SealedIn(e) \subseteq Segment
      BY DEF SealedIn, SegsOf
    <3>2. epoch[e] \in EpochRow
      BY <1>2 DEF IInv, TypeOK
    <3>3. LET r == [epoch[e] EXCEPT !.status = "sealed", !.digest = SealedIn(e)] IN
          r \in EpochRow /\ r.status = "sealed"
      BY <3>1, <3>2 DEF EpochRow
    <3> QED BY <1>2, <1>6, <3>3 DEF IInv, TypeOK
  <2>3. Rolled(e)
    BY <1>2 DEF IInv, Jobs, CheckedIsRolled
  <2>4. \A d \in EpochNo : ActiveEpoch(d)' <=> ActiveEpoch(d)
    BY <2>2, <2>3 DEF ActiveEpoch, Rolled
  <2>5. \A d \in EpochNo : epoch'[d].status = "none" <=> epoch[d].status = "none"
    BY <2>2, <2>3 DEF Rolled
  <2>6. Fronts'
    <3>1. NoneAfterActive'
      BY <2>4, <2>5 DEF IInv, Fronts, NoneAfterActive
    <3>2. NoneWithoutActive'
      <4>1. \E d \in EpochNo : ActiveEpoch(d)
        BY <1>2, <2>3 DEF IInv, Fronts, NoneWithoutActive, Rolled
      <4> QED BY <2>4, <4>1 DEF NoneWithoutActive
    <3>3. OpenInActive' /\ OneOpen' /\ OneSealing'
      BY <1>1, <2>4 DEF IInv, Fronts, OpenInActive, OneOpen, OneSealing
    <3> QED BY <3>1, <3>2, <3>3 DEF Fronts
  <2>7. TypeOK'
    BY <1>1, <1>3, <1>4, <2>1, <2>2 DEF IInv, TypeOK
  <2>8. EpochsRoll
    BY <2>2 DEF EpochsRoll, Rolled
  <2> QED BY <1>3, <1>4, <2>6, <2>7, <2>8, JobsKept DEF IInv
<1> QED BY <1>5, <1>6 DEF CommitCheckpoint

LEMMA RolloverStep ==
    ASSUME IInv, NEW w \in Worker, HandleRollover(w)
    PROVE  IInv'
<1>1. /\ work[w].phase = "claimed" /\ WorkerMoves(w)
      /\ UNCHANGED <<turn, idle, ws, hidden, run, rare>>
  BY DEF HandleRollover, WorkerMoves
<1>2. CASE UNCHANGED <<seg, epoch, job>>
  BY <1>1, <1>2, NoRowGrows, WorkerMovesOn, OutboxStep DEF IInv, TypeOK, JobsGrow
<1>3. CASE \E e \in EpochNo : ActiveEpoch(e) /\ ~RolloverStale(e) /\ Roll(e)
  <2>1. /\ seg' \in [Segment -> SegmentRow] /\ epoch' \in [EpochNo -> EpochRow]
        /\ job' \in [Job -> JobRow] /\ Fronts' /\ JobsGrow /\ EpochsRoll
    BY <1>3, RollStep
  <2>2. WorkMoves /\ work' \in [Worker -> Work]
    BY <1>1, <2>1, WorkerMovesOn DEF JobsGrow
  <2>3. TypeOK'
    BY <1>1, <2>1, <2>2 DEF IInv, TypeOK
  <2> QED BY <2>1, <2>2, <2>3, JobsKept DEF IInv
<1> QED BY <1>2, <1>3 DEF HandleRollover

LEMMA StepIInv == IInv /\ [Next]_epochVars => IInv'
<1> SUFFICES ASSUME IInv, [Next]_epochVars PROVE IInv'
  OBVIOUS
<1>1. CASE \E t \in Turn : \/ CreateTurn(t, "fresh") \/ CreateTurn(t, "done")
                           \/ RunTurn(t) \/ FinishTurn(t) \/ GrowStale(t) \/ Forget(t)
  BY <1>1, TurnStep
<1>2. CASE \/ GoIdle
           \/ \E v \in {"clear", "waiting", "unresolved"} : ChangeWorkingState(v)
           \/ \E s \in Segment : MarkPending(s)
  BY <1>2, ThreadStep
<1>3. CASE Reconcile \/ \E s \in Segment : SealByScanner(s) \/ SealByUser(s)
  BY <1>3, FreezeStep
<1>4. CASE \E e \in EpochNo : RollByUser(e)
  BY <1>4, RolloverByUser
<1>5. CASE \E w \in Worker, j \in Job : Claim(w, j)
  BY <1>5, ClaimStep
<1>6. ASSUME NEW w \in Worker, Handle(w) PROVE IInv'
  <2>1. CASE OpenRun(w) \/ \E ok \in BOOLEAN : Summarise(w, ok)
    BY <2>1, HandlerStep
  <2>2. CASE CommitSummary(w) \/ CommitCheckpoint(w) \/ HandleRollover(w)
    BY <2>2, SummaryStep, CheckpointStep, RolloverStep
  <2>3. CASE FinishJob(w)
    BY <2>3, FinishStep
  <2> QED BY <1>6, <2>1, <2>2, <2>3 DEF Handle
<1>7. CASE \E w \in Worker : HandlerFails(w, "failed") \/ HandlerFails(w, "refused") \/ Crash(w)
  BY <1>7, HandlerStep
<1>8. CASE (\E w \in Worker : Stall(w)) \/ \E j \in Job : LeaseExpires(j)
  BY <1>8, LeaseStep
<1>9. CASE UNCHANGED epochVars
  <2>1. TypeOK'
    BY <1>9 DEF epochVars, IInv, TypeOK
  <2> QED BY <1>9, <2>1, QuietStep DEF epochVars, SameSegments
<1> QED BY <1>1, <1>2, <1>3, <1>4, <1>5, <1>6, <1>7, <1>8, <1>9 DEF Next

\* One front: whoever seals and rolls, and however jobs are repeated or overtaken,
\* a thread has one active epoch, one open segment, in that epoch, and one
\* segment being sealed; and every row keeps its type.
THEOREM OneFrontCorrect == Spec => []OneFront
<1> QED BY InitIInv, StepIInv, IInvOneFront, PTL DEF Spec
-------------------------------------------------------------------------------
(***************************************************************************)
(* Checkpoints.  The segments of an epoch that was rolled over are those   *)
(* it froze as its sources, for ever; a checkpoint is committed only by a  *)
(* worker that has seen all of them sealed, and sealed they stay.          *)
(***************************************************************************)
SourcesFixed == \A e \in EpochNo : Rolled(e) => epoch[e].sources = SegsOf(e)
ReadyToCommit ==
    \A w \in Worker : \A e \in EpochNo :
        work[w].phase = "commit" /\ work[w].job = <<"check", e>> =>
           SegsOf(e) # {} /\ SealedIn(e) = SegsOf(e)
SummariseSeals ==
    \A w \in Worker : work[w].phase = "summarise" => Kind(work[w].job) = "seal"
Whole == SourcesFixed /\ ReadyToCommit /\ SummariseSeals /\ CheckpointWhole

\* What a step can do to the segments of an epoch that was rolled over.
Settling(e) == SegsOf(e)' = SegsOf(e) /\ SealedIn(e) \subseteq SealedIn(e)'

LEMMA SegmentsSettle ==
    ASSUME IInv, NEW e \in EpochNo, [Next]_epochVars, Rolled(e)
    PROVE  Settling(e)
<1>1. CASE SameSegments
  BY <1>1 DEF SameSegments, Settling, SegsOf, SealedIn
<1>2. ASSUME NEW s \in Segment, NEW n \in Segment, seg[n].status = "none",
             seg[s].status = "open", n # s,
             seg' = [seg EXCEPT ![s] = Freeze(s), ![n] = OpenSegment(seg[s].epoch)]
      PROVE  Settling(e)
  <2>1. seg[s].epoch \in EpochNo /\ seg[s].epoch # e
    BY <1>2 DEF IInv, Fronts, OpenInActive, ActiveEpoch, Rolled
  <2>2. /\ seg'[s].epoch # e /\ seg'[n].epoch # e
        /\ \A o \in Segment \ {s, n} : seg'[o] = seg[o]
    BY <1>2, <2>1, FrozenRow, FreshRows DEF IInv, TypeOK
  <2> QED BY <1>2, <2>1, <2>2 DEF Settling, SegsOf, SealedIn
<1>3. ASSUME NEW s \in Segment, NEW jobs, Sealable(s), SealOnto(jobs, s) PROVE Settling(e)
  BY <1>2, <1>3 DEF Sealable, SealOnto, IsNext
<1>4. ASSUME NEW d \in EpochNo, ActiveEpoch(d), Roll(d) PROVE Settling(e)
  <2> DEFINE empty == {s \in SegsOf(d) : seg[s].status = "open" /\ TurnsOf(s) = {}}
             full == {s \in SegsOf(d) : seg[s].status = "open" /\ TurnsOf(s) # {}}
  <2>1. PICK n \in Segment :
          /\ d + 1 \in EpochNo /\ IsNext(n)
          /\ seg' = [s \in Segment |->
                       CASE s = n -> OpenSegment(d + 1)
                         [] s \in empty -> [NoSegment EXCEPT !.status = "gone"]
                         [] s \in full -> Freeze(s)
                         [] OTHER -> seg[s]]
    BY <1>4 DEF Roll
  <2>2. e # d /\ e # d + 1
    <3>1. ~(e > d)
      BY <1>4 DEF IInv, Fronts, NoneAfterActive, Rolled
    <3> QED BY <1>4, <3>1, EpochAssumption, SMT DEF EpochAssumption, ActiveEpoch, Rolled
  <2>3. seg[n].status = "none" /\ empty \cap full = {}
    BY <2>1 DEF IsNext
  <2>4. \A s \in empty \cup full : s \in Segment /\ seg[s].epoch = d /\ s # n
    BY <2>3 DEF SegsOf
  <2> HIDE DEF empty, full
  <2>5. \A s \in Segment : (s = n \/ s \in empty \cup full) \/ seg'[s] = seg[s]
    BY <2>1
  <2>6. seg'[n].epoch = d + 1 /\ n \notin empty \cup full
    <3>1. seg'[n] = OpenSegment(d + 1)
      BY <2>1, <2>4
    <3> QED BY <2>1, <2>4, <3>1, FreshRows
  <2>7. \A s \in full : seg'[s].epoch = d
    <3> SUFFICES ASSUME NEW s \in full PROVE seg'[s].epoch = d
      OBVIOUS
    <3>1. seg'[s] = Freeze(s)
      BY <2>1, <2>3, <2>4
    <3> QED BY <2>4, <3>1, FrozenRow DEF IInv
  <2>8. \A s \in empty : seg'[s].status = "gone"
    <3> SUFFICES ASSUME NEW s \in empty PROVE seg'[s].status = "gone"
      OBVIOUS
    <3>1. seg'[s] = [NoSegment EXCEPT !.status = "gone"]
      BY <2>1, <2>3, <2>4
    <3> QED BY <3>1 DEF NoSegment
  <2> QED BY <2>2, <2>3, <2>4, <2>5, <2>6, <2>7, <2>8 DEF Settling, SegsOf, SealedIn
<1>5. ASSUME NEW t \in Turn, NEW x \in {"fresh", "done"}, CreateTurn(t, x) PROVE Settling(e)
  <2>1. \E d \in EpochNo : ActiveEpoch(d)
    BY DEF IInv, Fronts, NoneWithoutActive, Rolled
  <2>2. UNCHANGED seg
    BY <1>5, <2>1 DEF CreateTurn, Attribute
  <2> QED BY <1>1, <2>2 DEF SameSegments
<1>6. ASSUME NEW t \in Turn, FinishTurn(t) PROVE Settling(e)
  <2>1. seg \in [Segment -> SegmentRow]
    BY DEF IInv, TypeOK
  <2>2. seg' = seg \/ \E s \in Segment : seg' = [seg EXCEPT ![s] = [seg[s] EXCEPT !.pending = TRUE]]
    BY <1>6, <2>1 DEF FinishTurn
  <2>3. SameSegments
    BY <2>1, <2>2, MarkedRow DEF SameSegments
  <2> QED BY <1>1, <2>3
<1>7. ASSUME NEW s \in Segment, MarkPending(s) PROVE Settling(e)
  <2>1. SameSegments
    BY <1>7, MarkedRow DEF MarkPending, SameSegments, IInv, TypeOK
  <2> QED BY <1>1, <2>1
<1>8. ASSUME NEW w \in Worker, CommitSummary(w) PROVE Settling(e)
  <2>1. seg' = seg \/ \E s \in Segment : seg' = [seg EXCEPT ![s] = [seg[s] EXCEPT !.status = "sealed"]]
                                        /\ seg[s].status = "sealing"
    <3>1. work[w].job \in Job /\ Kind(work[w].job) = "seal"
      BY <1>8 DEF CommitSummary, IInv, Jobs, WorkIsJob
    <3>2. Target(work[w].job) \in Segment
      BY <3>1 DEF Job, Kind, Target
    <3> QED BY <1>8, <3>2 DEF CommitSummary
  <2>2. \A s \in Segment : seg'[s] = seg[s] \/
          /\ seg[s].status = "sealing" /\ seg'[s].status = "sealed"
          /\ seg'[s].epoch = seg[s].epoch
    <3>1. seg \in [Segment -> SegmentRow]
      BY DEF IInv, TypeOK
    <3> QED BY <2>1, <3>1 DEF SegmentRow
  <2> QED BY <2>2 DEF Settling, SegsOf, SealedIn
<1>9. CASE UNCHANGED seg
  BY <1>1, <1>9 DEF SameSegments
<1>10. CASE Reconcile \/ \E s \in Segment : SealByScanner(s) \/ SealByUser(s)
  BY <1>3, <1>9, <1>10 DEF Reconcile, SealByScanner, SealByUser
<1>11. CASE (\E d \in EpochNo : RollByUser(d)) \/ \E w \in Worker : HandleRollover(w)
  BY <1>4, <1>9, <1>11 DEF RollByUser, HandleRollover
<1>12. CASE GoIdle \/ \E v \in {"clear", "waiting", "unresolved"} : ChangeWorkingState(v)
  BY <1>9, <1>12 DEF GoIdle, ChangeWorkingState
<1>13. CASE \E t \in Turn : RunTurn(t) \/ GrowStale(t) \/ Forget(t)
  BY <1>9, <1>13 DEF RunTurn, GrowStale, Forget
<1>14. CASE \E w \in Worker : \/ \E j \in Job : Claim(w, j)
                              \/ OpenRun(w) \/ CommitCheckpoint(w) \/ FinishJob(w)
                              \/ \E ok \in BOOLEAN : Summarise(w, ok)
                              \/ \E p : HandlerFails(w, p)
                              \/ Crash(w) \/ Stall(w)
  BY <1>9, <1>14 DEF Claim, OpenRun, CommitCheckpoint, FinishJob, Summarise, HandlerFails, Crash, Stall
<1>15. CASE \E j \in Job : LeaseExpires(j)
  BY <1>9, <1>15 DEF LeaseExpires
<1>16. CASE UNCHANGED epochVars
  BY <1>9, <1>16 DEF epochVars
<1> QED BY <1>5, <1>6, <1>7, <1>8, <1>10, <1>11, <1>12, <1>13, <1>14, <1>15, <1>16 DEF Next, Handle

\* What a step can do to the row of an epoch.
RollsOver(e) ==
    /\ ActiveEpoch(e) /\ epoch'[e].status = "sealing"
    /\ epoch'[e].sources = SegsOf(e)'
Concludes(e) ==
    /\ epoch'[e].sources = epoch[e].sources /\ epoch'[e].digest = SealedIn(e)
    /\ \E w \in Worker : work[w].phase = "commit" /\ work[w].job = <<"check", e>>
EpochMoves(e) ==
    \/ epoch'[e] = epoch[e]
    \/ ~Rolled(e)' /\ ~Rolled(e)
    \/ RollsOver(e)
    \/ Concludes(e)

LEMMA EpochRollsOver ==
    ASSUME IInv, NEW d \in EpochNo, ActiveEpoch(d), Roll(d), NEW e \in EpochNo
    PROVE  EpochMoves(e)
<1> DEFINE empty == {s \in SegsOf(d) : seg[s].status = "open" /\ TurnsOf(s) = {}}
           full == {s \in SegsOf(d) : seg[s].status = "open" /\ TurnsOf(s) # {}}
<1>1. PICK n \in Segment :
        /\ d + 1 \in EpochNo /\ IsNext(n)
        /\ seg' = [s \in Segment |->
                     CASE s = n -> OpenSegment(d + 1)
                       [] s \in empty -> [NoSegment EXCEPT !.status = "gone"]
                       [] s \in full -> Freeze(s)
                       [] OTHER -> seg[s]]
        /\ epoch' = [epoch EXCEPT ![d] = [epoch[d] EXCEPT !.status = "sealing",
                                                          !.sources = SourcesOf(d)],
                                  ![d + 1] = Active]
  BY DEF Roll
<1>2. d + 1 # d /\ epoch[d + 1].status = "none"
  <2>1. d + 1 > d /\ d + 1 # d
    BY EpochAssumption, SMT DEF EpochAssumption
  <2> QED BY <1>1, <2>1 DEF IInv, Fronts, NoneAfterActive
<1>3. epoch \in [EpochNo -> EpochRow]
  BY DEF IInv, TypeOK
<1>4. CASE e = d + 1
  BY <1>1, <1>2, <1>3, <1>4, FreshRows DEF EpochMoves, Rolled
<1>5. CASE e # d /\ e # d + 1
  BY <1>1, <1>3, <1>5 DEF EpochMoves
<1>6. CASE e = d
  <2>1. epoch'[e].status = "sealing" /\ epoch'[e].sources = SourcesOf(e)
    BY <1>1, <1>2, <1>3, <1>6 DEF EpochRow
  <2>2. seg[n].status = "none" /\ empty \cap full = {}
    BY <1>1 DEF IsNext
  <2>3. \A s \in empty \cup full : s \in Segment /\ seg[s].epoch = d /\ s # n
    BY <2>2 DEF SegsOf
  <2>4. \A s \in Segment : s \in SourcesOf(e) <=> s \in SegsOf(d) /\ s \notin empty
    BY <1>6 DEF SourcesOf
  <2>5. \A s \in Segment : s \in full => s \in SegsOf(d) /\ s \notin empty
    BY <2>2
  <2> HIDE DEF empty, full
  <2>6. seg'[n].epoch = d + 1 /\ n \notin SegsOf(d)
    <3>1. seg'[n] = OpenSegment(d + 1)
      BY <1>1, <2>3
    <3> QED BY <1>1, <2>2, <3>1, FreshRows DEF SegsOf
  <2>7. \A s \in full : seg'[s].epoch = d /\ seg'[s].status = "sealing"
    <3> SUFFICES ASSUME NEW s \in full PROVE seg'[s].epoch = d /\ seg'[s].status = "sealing"
      OBVIOUS
    <3>1. seg'[s] = Freeze(s)
      BY <1>1, <2>2, <2>3
    <3> QED BY <2>3, <3>1, FrozenRow DEF IInv
  <2>8. \A s \in empty : seg'[s].status = "gone"
    <3> SUFFICES ASSUME NEW s \in empty PROVE seg'[s].status = "gone"
      OBVIOUS
    <3>1. seg'[s] = [NoSegment EXCEPT !.status = "gone"]
      BY <1>1, <2>2, <2>3
    <3> QED BY <3>1 DEF NoSegment
  <2>9. \A s \in Segment : (s = n \/ s \in empty \cup full) \/ seg'[s] = seg[s]
    BY <1>1
  <2>10. SegsOf(e)' = SourcesOf(e)
    <3>1. \A s \in Segment : s \in SegsOf(e)' <=> s \in SourcesOf(e)
      BY <1>2, <1>6, <2>4, <2>5, <2>6, <2>7, <2>8, <2>9 DEF SegsOf
    <3> QED BY <3>1 DEF SegsOf, SourcesOf
  <2> QED BY <1>6, <2>1, <2>10 DEF EpochMoves, RollsOver
<1> QED BY <1>4, <1>5, <1>6

LEMMA EveryEpochMoves ==
    ASSUME IInv, [Next]_epochVars, NEW e \in EpochNo
    PROVE  EpochMoves(e)
<1>1. CASE UNCHANGED epoch
  BY <1>1 DEF EpochMoves
<1>2. ASSUME NEW t \in Turn, NEW x \in {"fresh", "done"}, CreateTurn(t, x) PROVE EpochMoves(e)
  <2>1. CASE \E d \in EpochNo : ActiveEpoch(d)
    BY <1>1, <1>2, <2>1 DEF CreateTurn, Attribute
  <2>2. CASE ~\E d \in EpochNo : ActiveEpoch(d)
    <3>1. epoch[e].status = "none"
      BY <2>2 DEF IInv, Fronts, NoneWithoutActive
    <3>2. epoch' = epoch \/ epoch' = [epoch EXCEPT ![1] = Active]
      BY <1>2 DEF CreateTurn, Attribute
    <3>3. epoch'[e].status \in {"none", "active"}
      BY <3>1, <3>2, FreshRows DEF IInv, TypeOK
    <3> QED BY <3>1, <3>3 DEF EpochMoves, Rolled
  <2> QED BY <2>1, <2>2
<1>3. CASE (\E d \in EpochNo : RollByUser(d)) \/ \E w \in Worker : HandleRollover(w)
  BY <1>1, <1>3, EpochRollsOver DEF RollByUser, HandleRollover
<1>4. ASSUME NEW w \in Worker, CommitCheckpoint(w) PROVE EpochMoves(e)
  <2> DEFINE d == Target(work[w].job)
  <2>1. d \in EpochNo /\ work[w].job = <<"check", d>> /\ work[w].phase = "commit"
    <3>1. work[w].job \in Job /\ Kind(work[w].job) = "check" /\ work[w].phase = "commit"
      BY <1>4 DEF CommitCheckpoint, IInv, Jobs, WorkIsJob
    <3> QED BY <3>1 DEF Job, Kind, Target
  <2>2. CASE UNCHANGED epoch
    BY <1>1, <2>2
  <2>3. CASE epoch' = [epoch EXCEPT ![d] = [epoch[d] EXCEPT !.status = "sealed",
                                                           !.digest = SealedIn(d)]]
    <3>1. epoch[d] \in EpochRow
      BY <2>1 DEF IInv, TypeOK
    <3>2. CASE e = d
      <4>1. epoch'[e].sources = epoch[e].sources /\ epoch'[e].digest = SealedIn(e)
        BY <2>1, <2>3, <3>1, <3>2 DEF EpochRow, IInv, TypeOK
      <4> QED BY <2>1, <3>2, <4>1 DEF EpochMoves, Concludes
    <3>3. CASE e # d
      BY <2>3, <3>3 DEF EpochMoves, IInv, TypeOK
    <3> QED BY <3>2, <3>3
  <2> QED BY <1>4, <2>2, <2>3 DEF CommitCheckpoint
<1>5. CASE Reconcile \/ \E s \in Segment : SealByScanner(s) \/ SealByUser(s) \/ MarkPending(s)
  BY <1>1, <1>5 DEF Reconcile, SealByScanner, SealByUser, MarkPending
<1>6. CASE GoIdle \/ \E v \in {"clear", "waiting", "unresolved"} : ChangeWorkingState(v)
  BY <1>1, <1>6 DEF GoIdle, ChangeWorkingState
<1>7. CASE \E t \in Turn : RunTurn(t) \/ FinishTurn(t) \/ GrowStale(t) \/ Forget(t)
  BY <1>1, <1>7 DEF RunTurn, FinishTurn, GrowStale, Forget
<1>8. CASE \E w \in Worker : \/ \E j \in Job : Claim(w, j)
                             \/ OpenRun(w) \/ CommitSummary(w) \/ FinishJob(w)
                             \/ \E ok \in BOOLEAN : Summarise(w, ok)
                             \/ \E p : HandlerFails(w, p)
                             \/ Crash(w) \/ Stall(w)
  BY <1>1, <1>8 DEF Claim, OpenRun, CommitSummary, FinishJob, Summarise, HandlerFails, Crash, Stall
<1>9. CASE (\E j \in Job : LeaseExpires(j)) \/ UNCHANGED epochVars
  BY <1>1, <1>9 DEF LeaseExpires, epochVars
<1> QED BY <1>2, <1>3, <1>4, <1>5, <1>6, <1>7, <1>8, <1>9 DEF Next, Handle

\* How a worker comes to summarise, and how to commit: through the guard.
ThroughGuard(w) ==
    /\ work'[w].phase = "summarise" => work'[w] = work[w] \/ Kind(work'[w].job) = "seal"
    /\ work'[w].phase = "commit" =>
          \/ work'[w] = work[w]
          \/ work[w].phase = "summarise" /\ work'[w].job = work[w].job
          \/ /\ work[w].phase = "claimed" /\ work'[w].job = work[w].job
             /\ Kind(work[w].job) # "seal" => ~GuardStops(work[w].job)

LEMMA EveryWorkerGuarded ==
    ASSUME IInv, [Next]_epochVars, NEW w \in Worker
    PROVE  ThroughGuard(w)
<1>1. CASE UNCHANGED work
  BY <1>1 DEF ThroughGuard
<1>2. work \in [Worker -> Work]
  BY DEF IInv, TypeOK
<1>3. ASSUME NEW v \in Worker, Drop(v) PROVE ThroughGuard(w)
  BY <1>2, <1>3 DEF Drop, NoWork, ThroughGuard
<1>4. ASSUME NEW v \in Worker, NEW p \in {"completed", "failed", "refused"}, Goto(v, p)
      PROVE  ThroughGuard(w)
  BY <1>2, <1>4 DEF Goto, Work, ThroughGuard
<1>5. ASSUME NEW v \in Worker, NEW j \in Job, Claim(v, j) PROVE ThroughGuard(w)
  BY <1>2, <1>5 DEF Claim, ThroughGuard
<1>6. ASSUME NEW v \in Worker, OpenRun(v) PROVE ThroughGuard(w)
  <2>1. CASE Drop(v) \/ Goto(v, "completed")
    BY <1>3, <1>4, <2>1
  <2>2. CASE /\ work[v].phase = "claimed" /\ ~GuardStops(work[v].job)
             /\ Goto(v, IF Kind(work[v].job) = "seal" THEN "summarise" ELSE "commit")
    BY <1>2, <2>2 DEF Goto, Work, ThroughGuard
  <2> QED BY <1>6, <2>1, <2>2 DEF OpenRun
<1>7. ASSUME NEW v \in Worker, NEW ok \in BOOLEAN, Summarise(v, ok) PROVE ThroughGuard(w)
  <2>1. CASE Goto(v, "failed")
    BY <1>4, <2>1
  <2>2. CASE work[v].phase = "summarise" /\ Goto(v, "commit")
    BY <1>2, <2>2 DEF Goto, Work, ThroughGuard
  <2> QED BY <1>7, <2>1, <2>2 DEF Summarise
<1>8. ASSUME NEW v \in Worker,
             \/ CommitSummary(v) \/ CommitCheckpoint(v) \/ HandleRollover(v)
             \/ FinishJob(v) \/ Crash(v) \/ Stall(v)
             \/ HandlerFails(v, "failed") \/ HandlerFails(v, "refused")
      PROVE  ThroughGuard(w)
  BY <1>1, <1>3, <1>4, <1>8
     DEF CommitSummary, CommitCheckpoint, HandleRollover, FinishJob, Crash, Stall, HandlerFails
<1>9. CASE \E t \in Turn : \/ CreateTurn(t, "fresh") \/ CreateTurn(t, "done")
                           \/ RunTurn(t) \/ FinishTurn(t) \/ GrowStale(t) \/ Forget(t)
  BY <1>1, <1>9 DEF CreateTurn, RunTurn, FinishTurn, GrowStale, Forget
<1>10. CASE \/ GoIdle \/ Reconcile
            \/ \E v \in {"clear", "waiting", "unresolved"} : ChangeWorkingState(v)
            \/ \E s \in Segment : MarkPending(s) \/ SealByScanner(s) \/ SealByUser(s)
            \/ \E e \in EpochNo : RollByUser(e)
  BY <1>1, <1>10
     DEF GoIdle, Reconcile, ChangeWorkingState, MarkPending, SealByScanner, SealByUser, RollByUser
<1>11. CASE (\E j \in Job : LeaseExpires(j)) \/ UNCHANGED epochVars
  BY <1>1, <1>11 DEF LeaseExpires, epochVars
<1> QED BY <1>5, <1>6, <1>7, <1>8, <1>9, <1>10, <1>11 DEF Next, Handle

LEMMA InitWhole == Init => Whole
<1> SUFFICES ASSUME Init PROVE Whole
  OBVIOUS
<1>1. \A e \in EpochNo : epoch[e].status = "none"
  BY DEF Init, NoEpoch
<1>2. \A w \in Worker : work[w].phase = "idle"
  BY DEF Init, NoWork
<1> QED BY <1>1, <1>2
        DEF Whole, SourcesFixed, ReadyToCommit, SummariseSeals, CheckpointWhole, Rolled

LEMMA StepWhole ==
    ASSUME IInv, Whole, [Next]_epochVars
    PROVE  Whole'
<1>1. ASSUME NEW w \in Worker, NEW e \in EpochNo,
             work[w].phase # "idle", work[w].job = <<"check", e>>
      PROVE  Rolled(e) /\ epoch[e].sources = SegsOf(e)
  <2>1. Rolled(e)
    BY <1>1 DEF IInv, Jobs, WorkIsJob, CheckedIsRolled
  <2> QED BY <2>1 DEF Whole, SourcesFixed
<1>2. ASSUME NEW e \in EpochNo, Rolled(e), SegsOf(e) # {}, SealedIn(e) = SegsOf(e)
      PROVE  SegsOf(e)' = SegsOf(e) /\ SealedIn(e)' = SegsOf(e)'
  <2>1. Settling(e)
    BY <1>2, SegmentsSettle
  <2> QED BY <1>2, <2>1 DEF Settling, SealedIn
<1>3. SourcesFixed'
  <2> SUFFICES ASSUME NEW e \in EpochNo, Rolled(e)' PROVE epoch'[e].sources = SegsOf(e)'
    BY DEF SourcesFixed
  <2>1. CASE RollsOver(e)
    BY <2>1 DEF RollsOver
  <2>2. CASE Rolled(e) /\ epoch'[e].sources = epoch[e].sources
    BY <2>2, SegmentsSettle DEF Settling, Whole, SourcesFixed
  <2> QED BY <1>1, <2>1, <2>2, EveryEpochMoves DEF EpochMoves, Concludes, Rolled
<1>4. ReadyToCommit'
  <2> SUFFICES ASSUME NEW w \in Worker, NEW e \in EpochNo,
                      work'[w].phase = "commit", work'[w].job = <<"check", e>>
               PROVE  SegsOf(e)' # {} /\ SealedIn(e)' = SegsOf(e)'
    BY DEF ReadyToCommit
  <2>1. Kind(<<"check", e>>) = "check" /\ Target(<<"check", e>>) = e
    BY DEF Kind, Target
  <2>2. CASE work'[w] = work[w]
    BY <1>1, <1>2, <2>2 DEF Whole, ReadyToCommit
  <2>3. CASE work[w].phase = "summarise" /\ work'[w].job = work[w].job
    BY <2>1, <2>3 DEF Whole, SummariseSeals
  <2>4. CASE work[w].phase = "claimed" /\ work'[w].job = work[w].job /\ ~GuardStops(<<"check", e>>)
    <3>1. Rolled(e) /\ epoch[e].sources = SegsOf(e)
      BY <1>1, <2>4
    <3>2. SegsOf(e) # {} /\ \A s \in SegsOf(e) : seg[s].status = "sealed"
      BY <2>1, <2>4, <3>1 DEF GuardStops
    <3>3. SealedIn(e) = SegsOf(e)
      BY <3>2 DEF SealedIn
    <3> QED BY <1>2, <3>1, <3>2, <3>3
  <2> QED BY <2>1, <2>2, <2>3, <2>4, EveryWorkerGuarded DEF ThroughGuard
<1>5. SummariseSeals'
  BY EveryWorkerGuarded DEF ThroughGuard, Whole, SummariseSeals
<1>6. CheckpointWhole'
  <2> SUFFICES ASSUME NEW e \in EpochNo, epoch'[e].status = "sealed"
               PROVE  /\ SegsOf(e)' # {} /\ SealedIn(e)' = SegsOf(e)'
                      /\ epoch'[e].digest = SegsOf(e)' /\ epoch'[e].sources = SegsOf(e)'
    BY DEF CheckpointWhole
  <2>1. epoch'[e].sources = SegsOf(e)'
    BY <1>3 DEF SourcesFixed, Rolled
  <2>2. CASE epoch'[e] = epoch[e]
    BY <1>2, <2>1, <2>2 DEF Whole, CheckpointWhole, Rolled
  <2>3. CASE Concludes(e)
    <3>1. Rolled(e) /\ SegsOf(e) # {} /\ SealedIn(e) = SegsOf(e)
      BY <1>1, <2>3 DEF Concludes, Whole, ReadyToCommit
    <3> QED BY <1>2, <2>1, <2>3, <3>1 DEF Concludes
  <2> QED BY <2>2, <2>3, EveryEpochMoves DEF EpochMoves, RollsOver, Rolled
<1> QED BY <1>3, <1>4, <1>5, <1>6 DEF Whole

\* A checkpoint stands for its whole epoch: whatever order summaries, crashes,
\* repeated jobs and rollovers by hand come in, an epoch is sealed only with all
\* its segments sealed, from all of them, and none is ever added or lost.
THEOREM CheckpointWholeCorrect == Spec => []CheckpointWhole
<1>1. Init => IInv /\ Whole
  BY InitIInv, InitWhole
<1>2. (IInv /\ Whole) /\ [Next]_epochVars => (IInv /\ Whole)'
  BY StepIInv, StepWhole
<1>3. IInv /\ Whole => CheckpointWhole
  BY DEF Whole
<1> QED BY <1>1, <1>2, <1>3, PTL DEF Spec
-------------------------------------------------------------------------------
(***************************************************************************)
(* Nothing falls between history and summaries.  It rests on the order: a  *)
(* turn that exists has a home in a segment that is open or frozen, later  *)
(* turns have later homes, the open segment is the last one, and what was  *)
(* frozen is the whole segment, for no turn joins it any more.             *)
(***************************************************************************)
Exists(t) == turn[t].status # "none"
Used(s) == seg[s].status # "none"

TurnsInOrder == \A t, u \in Turn : u < t /\ Exists(t) => Exists(u)
SegmentsInOrder == \A s, o \in Segment : o < s /\ Used(s) => Used(o)
OpenIsLast == \A s, o \in Segment : seg[s].status = "open" /\ Used(o) => o <= s
AtHome ==
    \A t \in Turn : Exists(t) =>
        /\ turn[t].seg \in Segment
        /\ seg[turn[t].seg].status \in {"open", "sealing", "sealed"}
Ranked ==
    \A t, u \in Turn : u <= t /\ Exists(t) /\ Exists(u) => turn[u].seg <= turn[t].seg

\* A turn that is frozen with its segment has its reply, or is one that was not
\* started in an hour and gets its reply later, if at all.
AnsweredOrLate(t, replied) ==
    \/ t \in replied
    \/ turn[t].status = "stale"
    \/ turn[t].status \in {"running", "done"} /\ turn[t].late
ManifestWhole ==
    \A s \in Segment : Frozen(s) =>
        /\ seg[s].manifest = TurnsOf(s)
        /\ \A t \in TurnsOf(s) : AnsweredOrLate(t, seg[s].replied)

History == TurnsInOrder /\ SegmentsInOrder /\ OpenIsLast /\ AtHome /\ Ranked /\ ManifestWhole

\* What becomes of a segment in a step ...
Stays(s) ==
    /\ seg'[s].manifest = seg[s].manifest /\ seg'[s].replied = seg[s].replied
    /\ \/ seg'[s].status = seg[s].status
       \/ seg[s].status = "sealing" /\ seg'[s].status = "sealed"
Opens(s) == IsNext(s) /\ seg'[s].status = "open"
Freezes(s) ==
    /\ seg[s].status = "open" /\ seg'[s] = Freeze(s)
    /\ UNCHANGED turn /\ \A t \in TurnsOf(s) : ~Blocking(t)
Goes(s) ==
    /\ seg[s].status = "open" /\ seg'[s].status = "gone"
    /\ UNCHANGED turn /\ TurnsOf(s) = {}
SegmentMoves(s) == Stays(s) \/ Opens(s) \/ Freezes(s) \/ Goes(s)

\* ... and of a turn.
Comes(t) ==
    /\ ~Exists(t) /\ \A u \in Turn : u < t => Exists(u)
    /\ turn'[t].status # "none"
    /\ turn'[t].seg \in Segment /\ seg'[turn'[t].seg].status = "open"
    /\ \A u \in Turn \ {t} : turn'[u] = turn[u]
GoesOn(t) ==
    /\ Exists(t) /\ turn'[t].status # "none" /\ turn'[t].seg = turn[t].seg
    /\ \/ turn[t].status \in {"fresh", "stale"} /\ turn'[t].status = "stale"
       \/ /\ turn'[t].status = "running"
          /\ turn[t].status = "fresh" \/ (turn[t].status = "stale" /\ turn'[t].late)
       \/ /\ turn[t].status = "running" /\ turn'[t].status = "done"
          /\ turn'[t].late = turn[t].late
TurnMoves(t) == turn'[t] = turn[t] \/ Comes(t) \/ GoesOn(t)

LEMMA HistoryKept ==
    ASSUME TypeOK, History, OneOpen',
           \A s \in Segment : SegmentMoves(s), \A t \in Turn : TurnMoves(t)
    PROVE  History'
<1> USE DEF History
<1>0. Turn \subseteq Nat /\ Segment \subseteq Nat
  BY EpochAssumption DEF EpochAssumption
<1>1. \A t \in Turn : Exists(t) => turn'[t].status # "none" /\ turn'[t].seg = turn[t].seg
  BY DEF TurnMoves, Comes, GoesOn, Exists
<1>2. \A s \in Segment : Used(s) => seg'[s].status # "none"
  BY FrozenRow DEF SegmentMoves, Stays, Opens, Freezes, Goes, Used
<1>3. ASSUME NEW t \in Turn, turn'[t].status # "none", ~Exists(t) PROVE Comes(t)
  BY <1>3 DEF TurnMoves, GoesOn, Exists
<1>4. ASSUME NEW s \in Segment, seg'[s].status # "none", ~Used(s) PROVE Opens(s)
  BY <1>4 DEF SegmentMoves, Stays, Freezes, Goes, Used
<1>5. TurnsInOrder'
  <2> SUFFICES ASSUME NEW t \in Turn, NEW u \in Turn, u < t, turn'[t].status # "none"
               PROVE  turn'[u].status # "none"
    BY DEF TurnsInOrder, Exists
  <2>1. Exists(u)
    BY <1>3 DEF TurnsInOrder, Comes
  <2> QED BY <1>1, <2>1
<1>6. SegmentsInOrder'
  <2> SUFFICES ASSUME NEW s \in Segment, NEW o \in Segment, o < s, seg'[s].status # "none"
               PROVE  seg'[o].status # "none"
    BY DEF SegmentsInOrder, Used
  <2>1. Used(o)
    BY <1>4 DEF SegmentsInOrder, Opens, IsNext, Used
  <2> QED BY <1>2, <2>1
<1>7. OpenIsLast'
  <2> SUFFICES ASSUME NEW s \in Segment, NEW o \in Segment,
                      seg'[s].status = "open", seg'[o].status # "none"
               PROVE  o <= s
    BY DEF OpenIsLast, Used
  <2>1. CASE ~Used(o)
    <3>1. o = s
      BY <1>4, <2>1 DEF Opens, OneOpen
    <3> QED BY <1>0, <3>1
  <2>2. CASE Used(o) /\ ~Used(s)
    <3>1. ~(s < o)
      BY <2>2 DEF SegmentsInOrder
    <3> QED BY <1>0, <3>1
  <2>3. CASE Used(o) /\ Used(s)
    <3>1. seg[s].status = "open"
      <4>1. Freeze(s).status = "sealing"
        BY FrozenRow
      <4> QED BY <2>3, <4>1 DEF SegmentMoves, Stays, Opens, Freezes, Goes, IsNext, Used
    <3> QED BY <2>3, <3>1 DEF OpenIsLast
  <2> QED BY <2>1, <2>2, <2>3
<1>8. AtHome'
  <2> SUFFICES ASSUME NEW t \in Turn, turn'[t].status # "none"
               PROVE  /\ turn'[t].seg \in Segment
                      /\ seg'[turn'[t].seg].status \in {"open", "sealing", "sealed"}
    BY DEF AtHome, Exists
  <2>1. CASE ~Exists(t)
    BY <1>3, <2>1 DEF Comes
  <2>2. CASE Exists(t)
    <3> DEFINE s == turn[t].seg
    <3>1. /\ turn'[t].seg = s /\ s \in Segment
          /\ seg[s].status \in {"open", "sealing", "sealed"} /\ TurnsOf(s) # {}
      BY <1>1, <2>2 DEF AtHome, Exists, TurnsOf
    <3> HIDE DEF s
    <3>2. Freeze(s).status = "sealing"
      BY <3>1, FrozenRow
    <3>3. seg'[s].status \in {"open", "sealing", "sealed"}
      BY <3>1, <3>2 DEF SegmentMoves, Stays, Opens, Freezes, Goes
    <3> QED BY <3>1, <3>3
  <2> QED BY <2>1, <2>2
<1>9. Ranked'
  <2> SUFFICES ASSUME NEW t \in Turn, NEW u \in Turn, u <= t,
                      turn'[t].status # "none", turn'[u].status # "none"
               PROVE  turn'[u].seg <= turn'[t].seg
    BY DEF Ranked, Exists
  <2>1. CASE u = t
    <3>1. turn'[t].seg \in Nat
      BY <1>0, <1>8 DEF AtHome, Exists
    <3> QED BY <2>1, <3>1
  <2>2. CASE Exists(t)
    <3>1. Exists(u)
      BY <1>0, <2>2 DEF TurnsInOrder
    <3> QED BY <1>1, <2>2, <3>1 DEF Ranked
  <2>3. CASE u # t /\ ~Exists(t)
    <3>1. Comes(t)
      BY <1>3, <2>3
    <3>2. seg'[turn'[u].seg].status # "none" /\ turn'[u].seg \in Segment
      BY <1>8 DEF AtHome, Exists
    <3> QED BY <1>7, <3>1, <3>2 DEF OpenIsLast, Comes, Used
  <2> QED BY <2>1, <2>2, <2>3
<1>10. ManifestWhole'
  <2> SUFFICES ASSUME NEW s \in Segment, Frozen(s)'
               PROVE  /\ seg'[s].manifest = TurnsOf(s)'
                      /\ \A t \in TurnsOf(s)' : AnsweredOrLate(t, seg[s].replied)'
    BY DEF ManifestWhole
  <2>1. TurnsOf(s)' = TurnsOf(s)
    <3>1. ASSUME NEW t \in Turn, Comes(t) PROVE turn'[t].seg # s
      BY <3>1 DEF Comes, Frozen
    <3>2. \A t \in Turn : (turn'[t].status # "none" /\ turn'[t].seg = s)
                             <=> (turn[t].status # "none" /\ turn[t].seg = s)
      BY <1>1, <1>3, <3>1 DEF Exists
    <3> QED BY <3>2 DEF TurnsOf
  <2>2. CASE Stays(s)
    <3>1. Frozen(s) /\ seg'[s].manifest = seg[s].manifest /\ seg'[s].replied = seg[s].replied
      BY <2>2 DEF Stays, Frozen
    <3>2. ASSUME NEW t \in TurnsOf(s) PROVE AnsweredOrLate(t, seg[s].replied)'
      <4>1. AnsweredOrLate(t, seg[s].replied) /\ t \in Turn /\ Exists(t)
        BY <3>1 DEF ManifestWhole, TurnsOf, Exists
      <4>2. turn'[t] = turn[t] \/ GoesOn(t)
        BY <4>1 DEF TurnMoves, Comes
      <4> QED BY <3>1, <4>1, <4>2 DEF AnsweredOrLate, GoesOn
    <3> QED BY <2>1, <3>1, <3>2 DEF ManifestWhole
  <2>3. CASE Freezes(s)
    <3>1. seg'[s].manifest = TurnsOf(s)
          /\ seg'[s].replied = {t \in TurnsOf(s) : turn[t].status = "done"}
      BY <2>3 DEF Freezes, Freeze, TypeOK, SegmentRow
    <3>2. ASSUME NEW t \in TurnsOf(s) PROVE AnsweredOrLate(t, seg[s].replied)'
      <4>1. turn[t].status \in {"done", "stale"} /\ turn' = turn
        BY <2>3 DEF Freezes, Blocking, TurnsOf, TypeOK, TurnRow
      <4> QED BY <3>1, <4>1 DEF AnsweredOrLate
    <3> QED BY <2>1, <3>1, <3>2
  <2> QED BY <2>2, <2>3 DEF SegmentMoves, Opens, Goes, Frozen
<1> QED BY <1>5, <1>6, <1>7, <1>8, <1>9, <1>10 DEF History

LEMMA HistoryHasNoGap == TypeOK /\ History => NothingFallsBetween
<1> SUFFICES ASSUME TypeOK, History, NEW s \in Segment, Frozen(s),
                    NEW t \in seg[s].manifest, NEW u \in Turn, Exists(u), u <= t
             PROVE  LET own == seg[turn[u].seg] IN
                    /\ u \in own.manifest
                    /\ turn[u].status = "done" => u \in own.replied \/ turn[u].late
  BY DEF NothingFallsBetween, Exists
<1> DEFINE home == turn[u].seg
<1>1. t \in Turn /\ Exists(t) /\ turn[t].seg = s
  BY DEF History, ManifestWhole, TurnsOf, Exists
<1>2. /\ home <= s /\ home \in Segment
      /\ seg[home].status \in {"open", "sealing", "sealed"} /\ u \in TurnsOf(home)
  BY <1>1 DEF History, Ranked, AtHome, TurnsOf, Exists
<1> HIDE DEF home
<1>3. seg[home].status # "open"
  <2>1. SUFFICES ASSUME seg[home].status = "open" PROVE FALSE
    OBVIOUS
  <2>2. s <= home
    BY <1>2, <2>1 DEF History, OpenIsLast, Used, Frozen
  <2>3. s = home
    BY <1>2, <2>2, EpochAssumption DEF EpochAssumption
  <2> QED BY <2>1, <2>3 DEF Frozen
<1>4. Frozen(home)
  BY <1>2, <1>3 DEF Frozen
<1>5. /\ u \in seg[home].manifest
      /\ turn[u].status = "done" => u \in seg[home].replied \/ turn[u].late
  BY <1>2, <1>4 DEF History, ManifestWhole, AnsweredOrLate
<1> QED BY <1>5 DEF home

HistoryMoves == (\A s \in Segment : SegmentMoves(s)) /\ (\A t \in Turn : TurnMoves(t))

LEMMA HistoryRests == UNCHANGED <<turn, seg>> => HistoryMoves
  BY DEF HistoryMoves, SegmentMoves, Stays, TurnMoves

\* A turn comes into the open segment of the active epoch, or opens one.
LEMMA TurnArrives ==
    ASSUME IInv, NEW t \in Turn, NEW x \in {"fresh", "done"}, CreateTurn(t, x)
    PROVE  HistoryMoves
<1> DEFINE row(s) == [status |-> x, seg |-> s, late |-> FALSE]
<1>1. /\ ~Exists(t) /\ \A u \in Turn : u < t => Exists(u)
      /\ turn \in [Turn -> TurnRow] /\ seg \in [Segment -> SegmentRow]
  BY DEF CreateTurn, Exists, IInv, TypeOK
<1>2. \A s \in Segment : row(s).status = x /\ row(s).seg = s
  OBVIOUS
<1> HIDE DEF row
<1>3. PICK s \in Segment :
        /\ turn' = [turn EXCEPT ![t] = row(s)]
        /\ \/ seg[s].status = "open" /\ UNCHANGED seg
           \/ IsNext(s) /\ seg' = [seg EXCEPT ![s] = OpenSegment(1)]
  BY DEF CreateTurn, Attribute, row
<1>4. OpenSegment(1).status = "open"
  BY FreshRows, EpochAssumption DEF EpochAssumption
<1>5. seg'[s].status = "open"
  BY <1>1, <1>3, <1>4
<1>6. turn'[t] = row(s) /\ \A u \in Turn \ {t} : turn'[u] = turn[u]
  BY <1>1, <1>3
<1>7. Comes(t)
  BY <1>1, <1>2, <1>5, <1>6 DEF Comes
<1>8. \A o \in Segment : SegmentMoves(o)
  BY <1>1, <1>3, <1>4 DEF SegmentMoves, Stays, Opens
<1> QED BY <1>6, <1>7, <1>8 DEF HistoryMoves, TurnMoves

LEMMA TurnGoesOn ==
    ASSUME IInv, NEW t \in Turn,
           RunTurn(t) \/ FinishTurn(t) \/ GrowStale(t) \/ Forget(t)
    PROVE  HistoryMoves
<1>1. /\ turn \in [Turn -> TurnRow] /\ seg \in [Segment -> SegmentRow]
  BY DEF IInv, TypeOK
<1>2. CASE Forget(t)
  BY <1>2, HistoryRests DEF Forget
<1>3. CASE RunTurn(t)
  <2> DEFINE late == turn[t].status = "stale"
             r == [turn[t] EXCEPT !.status = "running", !.late = late]
  <2>1. r.status = "running" /\ r.seg = turn[t].seg /\ r.late = late
    BY <1>1 DEF TurnRow
  <2>2. turn' = [turn EXCEPT ![t] = r] /\ turn[t].status \in {"fresh", "stale"} /\ UNCHANGED seg
    BY <1>3 DEF RunTurn
  <2>3. late <=> turn[t].status = "stale"
    OBVIOUS
  <2> HIDE DEF r, late
  <2>4. turn'[t] = r /\ \A u \in Turn \ {t} : turn'[u] = turn[u]
    BY <1>1, <2>2
  <2>5. GoesOn(t)
    BY <2>1, <2>2, <2>3, <2>4 DEF GoesOn, Exists
  <2> QED BY <2>2, <2>4, <2>5 DEF HistoryMoves, TurnMoves, SegmentMoves, Stays
<1>4. ASSUME NEW x \in {"stale", "done"}, turn' = [turn EXCEPT ![t].status = x],
             \/ x = "stale" /\ turn[t].status = "fresh"
             \/ x = "done" /\ turn[t].status = "running"
      PROVE  \A u \in Turn : TurnMoves(u)
  <2> DEFINE r == [turn[t] EXCEPT !.status = x]
  <2>1. r.status = x /\ r.seg = turn[t].seg /\ r.late = turn[t].late
    BY <1>1 DEF TurnRow
  <2>2. turn' = [turn EXCEPT ![t] = r]
    BY <1>4
  <2> HIDE DEF r
  <2>3. turn'[t] = r /\ \A u \in Turn \ {t} : turn'[u] = turn[u]
    BY <1>1, <2>2
  <2>4. GoesOn(t)
    BY <1>4, <2>1, <2>3 DEF GoesOn, Exists
  <2> QED BY <2>3, <2>4 DEF TurnMoves
<1>5. CASE GrowStale(t)
  BY <1>4, <1>5 DEF GrowStale, HistoryMoves, SegmentMoves, Stays
<1>6. CASE FinishTurn(t)
  <2>1. \A s \in Segment : Stays(s)
    BY <1>1, <1>6 DEF FinishTurn, Stays, SegmentRow
  <2> QED BY <1>4, <1>6, <2>1 DEF FinishTurn, HistoryMoves, SegmentMoves
<1> QED BY <1>2, <1>3, <1>5, <1>6

\* A segment is marked; it stays what it is.
LEMMA MarkMoves ==
    ASSUME IInv, NEW s \in Segment, MarkPending(s)
    PROVE  HistoryMoves
<1>1. \A o \in Segment : Stays(o)
  BY DEF MarkPending, Stays, IInv, TypeOK, SegmentRow
<1> QED BY <1>1 DEF MarkPending, HistoryMoves, SegmentMoves, TurnMoves

\* A segment is frozen whole, when none of its turns is about to get a reply.
LEMMA SealMoves ==
    ASSUME IInv, NEW s \in Segment, NEW jobs, Sealable(s), SealOnto(jobs, s), UNCHANGED turn
    PROVE  HistoryMoves
<1>1. PICK n \in Segment :
        /\ IsNext(n)
        /\ seg' = [seg EXCEPT ![s] = Freeze(s), ![n] = OpenSegment(seg[s].epoch)]
  BY DEF SealOnto
<1>2. seg[s].status = "open" /\ n # s /\ \A t \in TurnsOf(s) : ~Blocking(t)
  BY <1>1 DEF Sealable, IsNext, TurnsOf
<1>3. OpenSegment(seg[s].epoch).status = "open"
  BY FreshRows DEF IInv, TypeOK, SegmentRow
<1>4. /\ seg'[s] = Freeze(s) /\ seg'[n].status = "open"
      /\ \A o \in Segment \ {s, n} : seg'[o] = seg[o]
  BY <1>1, <1>2, <1>3 DEF IInv, TypeOK
<1>5. Freezes(s) /\ Opens(n) /\ \A o \in Segment \ {s, n} : Stays(o)
  BY <1>1, <1>2, <1>4 DEF Freezes, Opens, Stays
<1> QED BY <1>5 DEF HistoryMoves, SegmentMoves, TurnMoves

\* So it is with the open segment of an epoch that is rolled over.
LEMMA RollMoves ==
    ASSUME IInv, NEW e \in EpochNo, ActiveEpoch(e), ~RolloverRaises(e), Roll(e),
           UNCHANGED turn
    PROVE  HistoryMoves
<1> DEFINE empty == {s \in SegsOf(e) : seg[s].status = "open" /\ TurnsOf(s) = {}}
           full == {s \in SegsOf(e) : seg[s].status = "open" /\ TurnsOf(s) # {}}
           gone == [NoSegment EXCEPT !.status = "gone"]
<1>1. PICK n \in Segment :
        /\ e + 1 \in EpochNo /\ IsNext(n)
        /\ seg' = [s \in Segment |->
                     CASE s = n -> OpenSegment(e + 1)
                       [] s \in empty -> gone
                       [] s \in full -> Freeze(s)
                       [] OTHER -> seg[s]]
  BY DEF Roll
<1>2. gone.status = "gone"
  BY DEF NoSegment
<1> HIDE DEF gone
<1>3. \A s \in empty : seg[s].status = "open" /\ TurnsOf(s) = {}
  OBVIOUS
<1>4. \A s \in full : seg[s].status = "open" /\ \A t \in TurnsOf(s) : ~Blocking(t)
  BY DEF RolloverRaises, CannotFreeze
<1>5. n \notin empty /\ n \notin full /\ empty \cap full = {}
  BY <1>1 DEF IsNext
<1> HIDE DEF empty, full
<1>6. ASSUME NEW s \in Segment PROVE SegmentMoves(s)
  <2>1. CASE s = n
    <3>1. seg'[n] = OpenSegment(e + 1)
      BY <1>1, <1>5
    <3> QED BY <1>1, <2>1, <3>1, FreshRows DEF SegmentMoves, Opens
  <2>2. CASE s # n /\ s \in empty
    <3>1. seg'[s] = gone
      BY <1>1, <1>5, <2>2
    <3> QED BY <1>2, <1>3, <2>2, <3>1 DEF SegmentMoves, Goes
  <2>3. CASE s # n /\ s \notin empty /\ s \in full
    <3>1. seg'[s] = Freeze(s)
      BY <1>1, <1>5, <2>3
    <3> QED BY <1>4, <2>3, <3>1 DEF SegmentMoves, Freezes
  <2>4. CASE s # n /\ s \notin empty /\ s \notin full
    <3>1. seg'[s] = seg[s]
      BY <1>1, <2>4
    <3> QED BY <3>1 DEF SegmentMoves, Stays
  <2> QED BY <2>1, <2>2, <2>3, <2>4
<1> QED BY <1>6 DEF HistoryMoves, TurnMoves

\* The summary is stored: a frozen segment is sealed.
LEMMA SummaryMoves ==
    ASSUME IInv, NEW w \in Worker, CommitSummary(w)
    PROVE  HistoryMoves
<1> DEFINE s == Target(work[w].job)
<1>1. UNCHANGED turn /\ (UNCHANGED seg \/ (/\ seg[s].status = "sealing"
                                           /\ seg' = [seg EXCEPT ![s].status = "sealed"]))
  BY DEF CommitSummary
<1> HIDE DEF s
<1>2. seg \in [Segment -> SegmentRow]
  BY DEF IInv, TypeOK
<1>3. CASE seg[s].status = "sealing" /\ seg' = [seg EXCEPT ![s].status = "sealed"]
  <2>1. ASSUME NEW o \in Segment PROVE Stays(o)
    <3>1. CASE o = s
      <4> DEFINE r == [seg[s] EXCEPT !.status = "sealed"]
      <4>1. r.status = "sealed" /\ r.manifest = seg[s].manifest /\ r.replied = seg[s].replied
        BY <1>2, <3>1 DEF SegmentRow
      <4>2. seg'[o] = r
        BY <1>2, <1>3, <3>1
      <4> QED BY <1>3, <3>1, <4>1, <4>2 DEF Stays
    <3>2. CASE o # s
      <4>1. seg'[o] = seg[o]
        BY <1>2, <1>3, <3>2
      <4> QED BY <4>1 DEF Stays
    <3> QED BY <3>1, <3>2
  <2> QED BY <1>1, <2>1 DEF HistoryMoves, SegmentMoves, TurnMoves
<1> QED BY <1>1, <1>3, HistoryRests

LEMMA EveryStepMovesHistory ==
    ASSUME IInv, [Next]_epochVars
    PROVE  HistoryMoves
<1>1. ASSUME NEW t \in Turn, \/ CreateTurn(t, "fresh") \/ CreateTurn(t, "done")
                             \/ RunTurn(t) \/ FinishTurn(t) \/ GrowStale(t) \/ Forget(t)
      PROVE  HistoryMoves
  BY <1>1, TurnArrives, TurnGoesOn
<1>2. ASSUME NEW s \in Segment, MarkPending(s) \/ SealByScanner(s) \/ SealByUser(s)
      PROVE  HistoryMoves
  BY <1>2, MarkMoves, SealMoves DEF SealByScanner, SealByUser
<1>3. ASSUME NEW e \in EpochNo, RollByUser(e) PROVE HistoryMoves
  BY <1>3, RollMoves DEF RollByUser
<1>4. CASE Reconcile
  BY <1>4, SealMoves, HistoryRests DEF Reconcile
<1>5. ASSUME NEW w \in Worker, HandleRollover(w) PROVE HistoryMoves
  BY <1>5, RollMoves, HistoryRests DEF HandleRollover
<1>6. ASSUME NEW w \in Worker, CommitSummary(w) PROVE HistoryMoves
  BY <1>6, SummaryMoves
<1>7. CASE UNCHANGED <<turn, seg>>
  BY <1>7, HistoryRests
<1> QED BY <1>1, <1>2, <1>3, <1>4, <1>5, <1>6, <1>7
        DEF Next, Handle, GoIdle, ChangeWorkingState, Claim, OpenRun, CommitCheckpoint,
            Summarise, FinishJob, HandlerFails, Crash, Stall, LeaseExpires, epochVars

\* The reader of a thread shows no turn up to the last frozen segment, and leaves
\* none out: each is in the manifest of its own segment, with its reply unless it
\* was started late (_blocking_turn_condition, freeze_segment_for_sealing and
\* ensure_epoch_and_segment in epoch_manager.py).
THEOREM NothingFallsBetweenCorrect == Spec => []NothingFallsBetween
<1>1. Init => IInv /\ History
  <2>1. Init => History
    BY DEF Init, History, TurnsInOrder, SegmentsInOrder, OpenIsLast, AtHome, Ranked,
           ManifestWhole, Exists, Used, Frozen, NoTurn, NoSegment
  <2> QED BY <2>1, InitIInv
<1>2. (IInv /\ History) /\ [Next]_epochVars => (IInv /\ History)'
  <2> SUFFICES ASSUME IInv, History, [Next]_epochVars PROVE IInv' /\ History'
    OBVIOUS
  <2>1. IInv' /\ OneOpen'
    BY StepIInv DEF IInv, Fronts
  <2>2. TypeOK
    BY DEF IInv
  <2> QED BY <2>1, <2>2, EveryStepMovesHistory, HistoryKept DEF HistoryMoves
<1>3. IInv /\ History => NothingFallsBetween
  BY HistoryHasNoGap DEF IInv
<1> QED BY <1>1, <1>2, <1>3, PTL DEF Spec
===============================================================================
