------------------------ MODULE PolicySchedulerProofs ------------------------
(***************************************************************************)
(* PolicyScheduler implements AsyncRL for any group size, capacity, batch  *)
(* size, off-policy bound and number of steps, in both update protocols    *)
(* and with or without deltas; and the promises about the rollouts in      *)
(* flight, their groups, counters, salts and ages hold for all of these.   *)
(*                                                                         *)
(* AsyncRL's steps are not justified by what an action can see: an update  *)
(* computes its version from step and published, is suspended, and commits *)
(* it when both may have moved; the batch is sent long after the barrier.  *)
(* SInv records what the suspended tasks rely on.                          *)
(***************************************************************************)
EXTENDS PolicyScheduler, FiniteSetTheorems, TLAPS

InBarrier == {"barrier", "joinUpdate", "joinStage", "commit"}
InBatch   == {"fill", "acquire", "collect", "process", "dropping", "filled"}

(* The counters, and the shape of the records that carry versions. *)
Shape ==
  /\ sent \in Nat /\ step \in Nat /\ published \in Nat /\ ckptStep \in Nat
  /\ upd = [pc |-> upd.pc, v |-> upd.v, cleared |-> upd.cleared,
            stale |-> upd.stale, bump |-> upd.bump]
  /\ upd.v \in Nat
  /\ stg = [pc |-> stg.pc, v |-> stg.v] /\ stg.v \in Nat

(* generate_batch works on progress.step, and its barrier has let it pass;  *)
(* outside it the pool is at most two policies behind the batches sent.    *)
BarrierInv ==
  /\ step <= sent /\ ckptStep >= sent - 2
  /\ pc \in InBarrier \cup InBatch => step = sent
  /\ pc \in InBatch => ckptStep >= step - 1
  /\ loop \in {"poll", "join"} => ckptStep >= step - 1
  /\ pc \in InBarrier => loop = "off"

(* An update in flight moves the pool forward.  Its version has been        *)
(* published, unless it is the forced one, which the main loop awaits.     *)
UpdateInv ==
  /\ upd.pc \in {"start", "wait", "load", "loaded"} => upd.v > ckptStep /\ ~Background
  /\ upd.pc = "start" => upd.v <= published \/ (upd.v = step - 1 /\ pc = "joinUpdate")
  /\ upd.pc \in {"load", "loaded"} => upd.v <= published

(* A stage is of a newer policy, and of a published one once it has landed. *)
StageInv ==
  /\ stg.pc # "idle" => stg.v > ckptStep /\ Background
  /\ stg.pc \in {"load", "done"} => stg.v <= published
  /\ pc = "commit" => stg.pc = "done"

SInv == Shape /\ BarrierInv /\ UpdateInv /\ StageInv

---------------------------------------------------------------------------
(* Numbers. *)

LEMMA MaxPair == ASSUME NEW a \in Int, NEW b \in Int
                 PROVE  /\ Max({a, b}) \in {a, b}
                        /\ Max({a, b}) >= a /\ Max({a, b}) >= b
<1>1. \E x \in {a, b} : \A y \in {a, b} : x >= y
  <2>1. CASE a >= b
    BY <2>1
  <2>2. CASE b >= a
    BY <2>2
  <2> QED
    BY <2>1, <2>2
<1>2. Max({a, b}) \in {a, b} /\ \A y \in {a, b} : Max({a, b}) >= y
  BY <1>1 DEF Max
<1> QED
  BY <1>2

LEMMA MinPair == ASSUME NEW a \in Int, NEW b \in Int
                 PROVE  /\ Min({a, b}) \in {a, b}
                        /\ Min({a, b}) <= a /\ Min({a, b}) <= b
<1>1. \E x \in {a, b} : \A y \in {a, b} : x =< y
  <2>1. CASE a <= b
    BY <2>1
  <2>2. CASE b <= a
    BY <2>2
  <2> QED
    BY <2>1, <2>2
<1>2. Min({a, b}) \in {a, b} /\ \A y \in {a, b} : Min({a, b}) =< y
  BY <1>1 DEF Min
<1> QED
  BY <1>2

(* A version worth an update is a forced step - 1 or has been published. *)
LEMMA NextBounds ==
  ASSUME Shape, NextCkptStep(step) > ckptStep
  PROVE  /\ NextCkptStep(step) \in Nat
         /\ NextCkptStep(step) <= published \/ NextCkptStep(step) <= step - 1
<1> DEFINE t == Max({step - 1, published})
           n == NextCkptStep(step)
<1>1. t \in {step - 1, published} /\ t \in Int
  <2>1. step - 1 \in Int /\ published \in Int
    BY DEF Shape
  <2>2. t \in {step - 1, published}
    BY <2>1, MaxPair
  <2> QED
    BY <2>1, <2>2
<1>2. n \in {t, Min({t, ckptStep + 1})}
  BY DEF NextCkptStep
<1>3. /\ Min({t, ckptStep + 1}) \in {t, ckptStep + 1}
      /\ Min({t, ckptStep + 1}) <= t
  <2> HIDE DEF t
  <2>1. ckptStep + 1 \in Int
    BY DEF Shape
  <2> QED
    BY <1>1, <2>1, MinPair
<1> HIDE DEF t
<1>4. n \in Int /\ n <= t
  BY <1>1, <1>2, <1>3 DEF Shape
<1> HIDE DEF n
<1>5. n > ckptStep
  BY DEF n
<1>6. n \in Nat /\ (n <= published \/ n <= step - 1)
  BY <1>1, <1>4, <1>5 DEF Shape
<1> QED
  BY <1>6 DEF n

---------------------------------------------------------------------------
(* Invariance. *)

LEMMA InitSInv == Init => SInv
BY DEF Init, SInv, Shape, BarrierInv, UpdateInv, StageInv, Idle, NoStage,
       InBarrier, InBatch

(* A step that moves no version, no task record and no phase of the main    *)
(* loop that SInv speaks of.                                               *)
LEMMA QuietStep ==
  ASSUME SInv,
         UNCHANGED <<sent, step, published, ckptStep, loop, upd, stg>>,
         \/ pc' = pc
         \/ pc \in InBatch /\ pc' \in InBatch \cup {"begin", "crashed"}
         \/ pc \in {"top", "clear", "eval"} /\ pc' \in {"clear", "eval", "begin"}
  PROVE  SInv'
BY DEF SInv, Shape, BarrierInv, UpdateInv, StageInv, InBarrier, InBatch

(* One that only forgets tasks an update had captured.                     *)
LEMMA ForgetStep ==
  ASSUME SInv,
         UNCHANGED <<sent, step, published, ckptStep, loop, stg>>,
         NEW b, upd' = [upd EXCEPT !.bump = b],
         \/ pc' = pc
         \/ pc \in InBatch /\ pc' \in InBatch
         \/ pc = "clear" /\ pc' = "eval"
  PROVE  SInv'
<1>1. /\ upd'.pc = upd.pc /\ upd'.v = upd.v
      /\ upd' = [pc |-> upd'.pc, v |-> upd'.v, cleared |-> upd'.cleared,
                 stale |-> upd'.stale, bump |-> upd'.bump]
  BY DEF SInv, Shape
<1> QED
  BY <1>1 DEF SInv, Shape, BarrierInv, UpdateInv, StageInv, InBarrier, InBatch

(* The update task ends or moves on without committing.                    *)
LEMMA UpdateStep ==
  ASSUME SInv, ~Busy,
         UNCHANGED <<sent, step, published, ckptStep, stg>>,
         upd' = [pc |-> upd'.pc, v |-> upd'.v, cleared |-> upd'.cleared,
                 stale |-> upd'.stale, bump |-> upd'.bump],
         upd'.v \in Nat,
         \/ upd'.pc \in {"idle", "drop", "cancel"}
         \/ /\ upd.pc \in {"start", "wait", "load"} /\ upd'.v = upd.v
            /\ upd'.pc \in {"wait", "load", "loaded"}
            /\ upd'.pc # "wait" => upd.v <= published,
         \/ pc' = pc
         \/ pc = "joinUpdate" /\ pc' \in {"barrier", "crashed"},
         loop' = loop \/ (loop = "join" /\ loop' \in {"poll", "dead"}),
         pc' = "commit" => pc = "commit"
  PROVE  SInv'
BY DEF SInv, Shape, BarrierInv, UpdateInv, StageInv, InBarrier, InBatch

LEMMA UpdateTaskSInv == ASSUME SInv, UpdateTask \/ UpdFail PROVE SInv'
<1>1. CASE UpdBegin
  <2> DEFINE forced == upd.v = Max({step - 1, 0})
  <2>1. /\ upd' = [upd EXCEPT !.pc = IF forced THEN "wait" ELSE "load",
                              !.cleared = forced]
        /\ upd.pc = "start" /\ ~Busy
    BY <1>1 DEF UpdBegin
  <2>2. step - 1 \in Int /\ upd.v \in Nat /\ upd.v > ckptStep /\ ckptStep \in Nat
    BY <2>1 DEF SInv, Shape, UpdateInv
  <2>3. ~forced => upd.v <= published
    <3>1. step - 1 > 0 => Max({step - 1, 0}) = step - 1
      <4>1. /\ Max({step - 1, 0}) \in {step - 1, 0}
            /\ Max({step - 1, 0}) >= step - 1
        BY <2>2, MaxPair
      <4> QED
        BY <2>2, <4>1
    <3>2. upd.v = step - 1 => forced
      BY <2>2, <3>1
    <3> QED
      BY <2>1, <3>2 DEF SInv, UpdateInv
  <2> HIDE DEF forced
  <2>4. /\ upd'.v = upd.v /\ upd'.pc \in {"wait", "load"}
        /\ upd'.pc # "wait" => upd.v <= published
        /\ upd' = [pc |-> upd'.pc, v |-> upd'.v, cleared |-> upd'.cleared,
                   stale |-> upd'.stale, bump |-> upd'.bump]
    BY <2>1, <2>3 DEF SInv, Shape
  <2> QED
    BY <1>1, <2>1, <2>2, <2>4, UpdateStep DEF UpdBegin, mainVars
<1>2. CASE UpdLanded
  <2>1. /\ upd' = [upd EXCEPT !.pc = "load"] /\ upd.pc = "wait" /\ ~Busy
        /\ upd.v <= published
    BY <1>2 DEF UpdLanded, SInv, Shape
  <2>2. /\ upd'.v = upd.v /\ upd'.pc = "load" /\ upd'.v \in Nat
        /\ upd' = [pc |-> upd'.pc, v |-> upd'.v, cleared |-> upd'.cleared,
                   stale |-> upd'.stale, bump |-> upd'.bump]
    BY <2>1 DEF SInv, Shape
  <2> QED
    BY <1>2, <2>1, <2>2, UpdateStep DEF UpdLanded, mainVars, weightVars
<1>3. CASE UpdSwitch
  <2>1. upd' = [upd EXCEPT !.pc = "loaded"] /\ upd.pc = "load"
    BY <1>3 DEF UpdSwitch
  <2>2. /\ upd'.v = upd.v /\ upd'.pc = "loaded"
        /\ upd' = [pc |-> upd'.pc, v |-> upd'.v, cleared |-> upd'.cleared,
                   stale |-> upd'.stale, bump |-> upd'.bump]
    BY <2>1 DEF SInv, Shape
  <2> QED
    BY <1>3, <2>1, <2>2
       DEF UpdSwitch, mainVars, SInv, Shape, BarrierInv, UpdateInv, StageInv
<1>4. CASE UpdAnswered
  <2>1. /\ upd.pc = "loaded" /\ ckptStep' = upd.v /\ OffPolicy(upd.v)
        /\ UNCHANGED <<published, stg>>
    BY <1>4 DEF UpdAnswered
  <2>2. /\ upd.v > ckptStep /\ upd.v <= published /\ ~Background
        /\ stg.pc = "idle" /\ pc # "commit"
    BY <2>1 DEF SInv, UpdateInv, StageInv
  <2>3. /\ upd' = [pc |-> upd'.pc, v |-> upd'.v, cleared |-> upd'.cleared,
                   stale |-> upd'.stale, bump |-> upd'.bump]
        /\ upd'.v \in Nat /\ upd'.pc \in {"idle", "drop"}
    <3>1. CASE upd' = Idle
      BY <3>1 DEF Idle
    <3>2. CASE upd' = [upd EXCEPT !.pc = "drop", !.v = upd.v, !.stale = Stale,
                                  !.bump = Survivors]
      <4> HIDE DEF Stale, Survivors
      <4> QED
        BY <3>2 DEF SInv, Shape
    <3> QED
      BY <2>1, <3>1, <3>2 DEF OffPolicy
  <2>4. /\ UNCHANGED <<sent, step>>
        /\ pc' = pc \/ (pc = "joinUpdate" /\ pc' = "barrier")
        /\ loop' = loop \/ (loop = "join" /\ loop' = "poll")
    BY <2>1 DEF OffPolicy, Joined, mainVars
  <2> QED
    BY <2>1, <2>2, <2>3, <2>4
       DEF SInv, Shape, BarrierInv, UpdateInv, StageInv, InBarrier, InBatch
<1>5. CASE UpdDrop
  <2>1. upd' = [upd EXCEPT !.pc = "cancel", !.stale = {}] /\ ~Busy
    BY <1>5 DEF UpdDrop
  <2>2. /\ upd' = [pc |-> upd'.pc, v |-> upd'.v, cleared |-> upd'.cleared,
                   stale |-> upd'.stale, bump |-> upd'.bump]
        /\ upd'.v \in Nat /\ upd'.pc = "cancel"
    BY <2>1 DEF SInv, Shape
  <2> QED
    BY <1>5, <2>1, <2>2, UpdateStep DEF UpdDrop, mainVars, weightVars
<1>6. CASE UpdDone \/ UpdFail
  <2>1. /\ upd' = Idle /\ ~Busy /\ UNCHANGED <<published, ckptStep, stg, sent, step>>
        /\ pc' = pc \/ (pc = "joinUpdate" /\ pc' \in {"barrier", "crashed"})
        /\ loop' = loop \/ (loop = "join" /\ loop' \in {"poll", "dead"})
    BY <1>6 DEF UpdDone, UpdFail, Joined, weightVars
  <2>2. /\ upd' = [pc |-> upd'.pc, v |-> upd'.v, cleared |-> upd'.cleared,
                   stale |-> upd'.stale, bump |-> upd'.bump]
        /\ upd'.v \in Nat /\ upd'.pc = "idle"
    BY <2>1 DEF Idle
  <2> QED
    BY <2>1, <2>2, UpdateStep
<1> QED
  BY <1>1, <1>2, <1>3, <1>4, <1>5, <1>6 DEF UpdateTask

LEMMA StageSInv ==
  ASSUME SInv, StgLanded \/ StgDone \/ StgFail PROVE SInv'
<1>1. /\ stg' \in {[stg EXCEPT !.pc = p] : p \in {"load", "done", "failed"}}
      /\ stg.pc \in {"wait", "load"}
      /\ stg.pc = "wait" => published >= stg.v
      /\ UNCHANGED <<mainVars, published, ckptStep, loop, upd>>
  BY DEF StgLanded, StgDone, StgFail, weightVars
<1>2. /\ stg' = [pc |-> stg'.pc, v |-> stg'.v] /\ stg'.v = stg.v
      /\ stg.v <= published
  BY <1>1 DEF SInv, Shape, StageInv
<1> QED
  BY <1>1, <1>2 DEF mainVars, SInv, Shape, BarrierInv, UpdateInv, StageInv

(* What may change outside the tasks: only published grows.                *)
LEMMA PublishSInv == ASSUME SInv, Publish PROVE SInv'
BY DEF Publish, mainVars, SInv, Shape, BarrierInv, UpdateInv, StageInv

LEMMA PollSInv == ASSUME SInv, Poll PROVE SInv'
<1> DEFINE n == NextCkptStep(step)
<1>1. /\ n \in Nat /\ n > ckptStep /\ (n <= published \/ n <= step - 1)
  BY NextBounds DEF Poll, SInv
<1>2. n <= published /\ loop = "poll"
  BY <1>1 DEF Poll, SInv, Shape, BarrierInv
<1>3. /\ UNCHANGED <<pc, sent, step, published, ckptStep>>
      /\ pc \notin InBarrier
  BY <1>2 DEF Poll, mainVars, weightVars, SInv, BarrierInv
<1> HIDE DEF n
<1>4. CASE Background
  <2>1. UNCHANGED <<loop, upd>> /\ GetOrStartStage(n)
    BY <1>4 DEF Poll, n
  <2>2. stg' = stg \/ stg' = [pc |-> "wait", v |-> n]
    BY <2>1 DEF GetOrStartStage
  <2> QED
    BY <1>1, <1>3, <1>4, <2>1, <2>2
       DEF SInv, Shape, BarrierInv, UpdateInv, StageInv, InBarrier, InBatch
<1>5. CASE ~Background
  <2>1. /\ loop' = "join" /\ UNCHANGED stg
        /\ UpdStart(n) \/ upd' = upd
    BY <1>5 DEF Poll, n
  <2>2. \/ upd' = upd
        \/ upd' = [pc |-> "start", v |-> n, cleared |-> FALSE, stale |-> {}, bump |-> {}]
    BY <2>1 DEF UpdStart, Idle
  <2> QED
    BY <1>1, <1>2, <1>3, <1>5, <2>1, <2>2
       DEF SInv, Shape, BarrierInv, UpdateInv, StageInv, InBarrier, InBatch
<1> QED
  BY <1>4, <1>5

(* The phases of generate_batch's barrier.                                 *)
LEMMA BarrierSInv ==
  ASSUME SInv,
         \/ Begin \/ BarrierPassed \/ BarrierUpdate \/ BarrierCommit
         \/ CommitSwitch \/ CommitAnswered \/ CommitFail
  PROVE  SInv'
<1>1. CASE Begin
  BY <1>1 DEF Begin, weightVars, SInv, Shape, BarrierInv, UpdateInv, StageInv,
              InBarrier, InBatch
<1>2. CASE BarrierPassed
  <2>1. ckptStep >= step - 1
    <3> DEFINE t == Max({step - 1, published})
    <3>1. step - 1 \in Int /\ published \in Int /\ ckptStep \in Nat
      BY DEF SInv, Shape
    <3>2. t \in Int /\ t >= step - 1
      BY <3>1, MaxPair
    <3>3. NextCkptStep(step) \in {t, Min({t, ckptStep + 1})}
      BY DEF NextCkptStep
    <3> HIDE DEF t
    <3>4. Min({t, ckptStep + 1}) \in {t, ckptStep + 1}
      <4>1. ckptStep + 1 \in Int
        BY <3>1
      <4> QED
        BY <3>2, <4>1, MinPair
    <3> QED
      BY <1>2, <3>1, <3>2, <3>3, <3>4 DEF BarrierPassed
  <2> QED
    BY <1>2, <2>1 DEF BarrierPassed, weightVars, SInv, Shape, BarrierInv, UpdateInv,
                      StageInv, InBarrier, InBatch
<1>3. CASE BarrierUpdate
  <2> DEFINE n == NextCkptStep(step)
  <2>1. /\ n \in Nat /\ n > ckptStep /\ (n <= published \/ n <= step - 1)
    BY <1>3, NextBounds DEF BarrierUpdate, SInv
  <2>2. /\ UNCHANGED <<sent, step, published, ckptStep, loop, stg>> /\ ~Background
        /\ pc = "barrier" /\ pc' = "joinUpdate"
        /\ UpdStart(n) \/ upd' = upd
    BY <1>3 DEF BarrierUpdate, weightVars
  <2>3. step = sent /\ ckptStep >= step - 2 /\ step \in Nat /\ ckptStep \in Nat
    BY <2>2 DEF SInv, Shape, BarrierInv, InBarrier
  <2>4. n <= published \/ n = step - 1
    BY <2>1, <2>3
  <2> HIDE DEF n
  <2>5. \/ upd' = upd
        \/ upd' = [pc |-> "start", v |-> n, cleared |-> FALSE, stale |-> {}, bump |-> {}]
    BY <2>2 DEF UpdStart, Idle
  <2> QED
    BY <2>1, <2>2, <2>3, <2>4, <2>5
       DEF SInv, Shape, BarrierInv, UpdateInv, StageInv, InBarrier, InBatch
<1>4. CASE BarrierCommit
  <2> DEFINE n == NextCkptStep(step)
  <2>1. n \in Nat /\ n > ckptStep
    BY <1>4, NextBounds DEF BarrierCommit, SInv
  <2>2. /\ UNCHANGED <<sent, step, published, ckptStep, loop, upd>> /\ Background
        /\ pc = "barrier" /\ pc' = "joinStage" /\ GetOrStartStage(n)
    BY <1>4 DEF BarrierCommit
  <2> HIDE DEF n
  <2>3. stg' = stg \/ stg' = [pc |-> "wait", v |-> n]
    BY <2>2 DEF GetOrStartStage
  <2> QED
    BY <2>1, <2>2, <2>3
       DEF SInv, Shape, BarrierInv, UpdateInv, StageInv, InBarrier, InBatch
<1>5. CASE CommitSwitch
  BY <1>5 DEF CommitSwitch, SInv, Shape, BarrierInv, UpdateInv, StageInv,
              InBarrier, InBatch
<1>6. CASE CommitAnswered
  <2>1. /\ pc = "commit" /\ ckptStep' = stg.v /\ stg' = NoStage
        /\ UNCHANGED <<sent, step, published, loop>>
        /\ pc' \in {"barrier", "joinUpdate"}
    BY <1>6 DEF CommitAnswered
  <2>2. stg.v > ckptStep /\ Background
    BY <2>1 DEF SInv, StageInv
  <2>3. /\ upd' = [pc |-> upd'.pc, v |-> upd'.v, cleared |-> upd'.cleared,
                   stale |-> upd'.stale, bump |-> upd'.bump]
        /\ upd'.v \in Nat /\ upd'.pc \notin {"start", "wait", "load", "loaded"}
    <3>1. CASE upd' = upd
      BY <2>2, <3>1 DEF SInv, Shape, UpdateInv
    <3>2. CASE upd' = [Idle EXCEPT !.pc = "drop", !.v = stg.v, !.stale = Stale,
                                   !.bump = Survivors]
      <4> HIDE DEF Stale, Survivors
      <4> QED
        BY <3>2 DEF Idle, SInv, Shape
    <3> QED
      BY <1>6, <3>1, <3>2 DEF CommitAnswered
  <2> QED
    BY <2>1, <2>2, <2>3
       DEF NoStage, SInv, Shape, BarrierInv, UpdateInv, StageInv, InBarrier, InBatch
<1>7. CASE CommitFail
  BY <1>7 DEF CommitFail, NoStage, SInv, Shape, BarrierInv, UpdateInv, StageInv,
              InBarrier, InBatch
<1> QED
  BY <1>1, <1>2, <1>3, <1>4, <1>5, <1>6, <1>7

(* The rest of the main loop, and the rollouts.                            *)
LEMMA LoopSInv ==
  ASSUME SInv,
         \/ Generate \/ EvalCleared \/ EvalEnd \/ Filtered \/ Send \/ Stopped
         \/ \E cancel \in BOOLEAN : EvalBegin(cancel)
         \/ \E s \in Slots, out \in Outcomes : Finish(s, out)
  PROVE  SInv'
<1>1. CASE \/ PickGroup \/ ScheduleGone \/ Schedule \/ FillDone \/ Collect
           \/ ProcessDone \/ Dropped \/ Filtered
  BY <1>1, QuietStep DEF PickGroup, ScheduleGone, Schedule, FillDone, Collect,
       ProcessDone, Dropped, Filtered, weightVars, InBatch
<1>2. ASSUME NEW s \in Slots, TakeGone(s) PROVE SInv'
  BY <1>2, QuietStep DEF TakeGone, weightVars
<1>3. ASSUME NEW s \in Slots, TakeRaised(s) PROVE SInv'
  <2>1. /\ upd' = [upd EXCEPT !.bump = @ \ TasksOf(slots[s].group)]
        /\ pc = "process" /\ pc' \in {"process", "dropping"}
        /\ UNCHANGED <<sent, step, published, ckptStep, loop, stg>>
    BY <1>3 DEF TakeRaised, Taking, Forgotten, weightVars
  <2> QED
    BY <2>1, ForgetStep DEF InBatch
<1>4. ASSUME NEW s \in Slots, TakeTallied(s) PROVE SInv'
  <2>1. /\ upd' = [upd EXCEPT !.bump = @ \ {s}]
        /\ UNCHANGED <<pc, sent, step, published, ckptStep, loop, stg>>
    BY <1>4 DEF TakeTallied, Forgotten, weightVars
  <2> QED
    BY <2>1, ForgetStep
<1>5. CASE EvalCleared
  BY <1>5, ForgetStep DEF EvalCleared, weightVars
<1>6. CASE EvalEnd
  BY <1>6, QuietStep DEF EvalEnd
<1>7. ASSUME NEW cancel \in BOOLEAN, EvalBegin(cancel) PROVE SInv'
  BY <1>7, QuietStep DEF EvalBegin
<1>8. ASSUME NEW s \in Slots, NEW out \in Outcomes, Finish(s, out) PROVE SInv'
  BY <1>8, QuietStep DEF Finish, mainVars, weightVars
<1>9. CASE Stopped
  BY <1>9, QuietStep DEF Stopped, vars, mainVars, weightVars
<1>10. CASE Send
  BY <1>10 DEF Send, weightVars, SInv, Shape, BarrierInv, UpdateInv, StageInv,
               InBarrier, InBatch
<1> QED
  BY <1>1, <1>2, <1>3, <1>4, <1>5, <1>6, <1>7, <1>8, <1>9, <1>10 DEF Generate

LEMMA StepSInv == SInv /\ [Next]_vars => SInv'
<1> SUFFICES ASSUME SInv, [Next]_vars PROVE SInv'
  OBVIOUS
<1>1. CASE UNCHANGED vars
  BY <1>1, QuietStep DEF vars, mainVars, weightVars
<1>2. CASE Next
  BY <1>2, UpdateTaskSInv, StageSInv, PublishSInv, PollSInv, BarrierSInv, LoopSInv
     DEF Next, MainLoop, Faulty, StageTask
<1> QED
  BY <1>1, <1>2

(* What the suspended tasks of the event loop rely on holds in every state, *)
(* for any constants.                                                      *)
THEOREM SuspendedTasksSound == Spec => []SInv
<1>1. Init => SInv
  BY InitSInv
<1>2. SInv /\ [Next]_vars => SInv'
  BY StepSInv
<1> QED
  BY <1>1, <1>2, PTL DEF Spec

---------------------------------------------------------------------------
(* Refinement. *)

LEMMA StepRefines == SInv /\ [Next]_vars => [Async!Next]_(Async!vars)
<1> SUFFICES ASSUME SInv, [Next]_vars PROVE [Async!Next]_(Async!vars)
  OBVIOUS
<1>1. ASSUME UNCHANGED <<sent, published, ckptStep>>
      PROVE  UNCHANGED Async!vars
  BY <1>1 DEF Async!vars
<1>2. CASE Publish
  BY <1>2 DEF Publish, Async!Next, Async!Publish, mainVars
<1>3. CASE Send
  <2>1. ckptStep >= sent - 1
    BY <1>3 DEF Send, SInv, BarrierInv, InBatch
  <2> QED
    BY <1>3, <2>1 DEF Send, Async!Next, Async!SendBatch, weightVars
<1>4. ASSUME NEW v \in Nat, v > ckptStep, v <= published, ckptStep' = v,
             UNCHANGED <<sent, published>>
      PROVE  Async!Next
  <2>1. v \in (ckptStep + 1)..published
    BY <1>4 DEF SInv, Shape
  <2> QED
    BY <1>4, <2>1 DEF Async!Next, Async!Serve
<1>5. CASE UpdAnswered
  <2>1. /\ ckptStep' = upd.v /\ UNCHANGED <<sent, published>>
        /\ upd.v \in Nat /\ upd.v > ckptStep /\ upd.v <= published
    BY <1>5 DEF UpdAnswered, OffPolicy, Joined, mainVars, SInv, Shape, UpdateInv
  <2> QED
    BY <1>4, <2>1
<1>6. CASE CommitAnswered
  <2>1. /\ ckptStep' = stg.v /\ UNCHANGED <<sent, published>>
        /\ stg.v \in Nat /\ stg.v > ckptStep /\ stg.v <= published
    BY <1>6 DEF CommitAnswered, SInv, Shape, StageInv
  <2> QED
    BY <1>4, <2>1
<1>7. CASE \/ UpdBegin \/ UpdLanded \/ UpdSwitch \/ UpdDrop \/ UpdDone \/ UpdFail
           \/ StgLanded \/ StgDone \/ StgFail \/ Poll
  BY <1>1, <1>7 DEF UpdBegin, UpdLanded, UpdSwitch, UpdDrop, UpdDone, UpdFail,
       StgLanded, StgDone, StgFail, Poll, Joined, mainVars, weightVars
<1>8. CASE \/ Begin \/ BarrierPassed \/ BarrierUpdate \/ BarrierCommit
           \/ CommitSwitch \/ CommitFail \/ EvalCleared \/ EvalEnd \/ Filtered
  BY <1>1, <1>8 DEF Begin, BarrierPassed, BarrierUpdate, BarrierCommit, CommitSwitch,
       CommitFail, EvalCleared, EvalEnd, Filtered, weightVars
<1>9. CASE \/ PickGroup \/ ScheduleGone \/ Schedule \/ FillDone \/ Collect
           \/ ProcessDone \/ Dropped
  BY <1>1, <1>9 DEF PickGroup, ScheduleGone, Schedule, FillDone, Collect,
       ProcessDone, Dropped, weightVars
<1>10. ASSUME NEW s \in Slots, TakeGone(s) \/ TakeRaised(s) \/ TakeTallied(s)
       PROVE  UNCHANGED Async!vars
  BY <1>1, <1>10 DEF TakeGone, TakeRaised, TakeTallied, weightVars
<1>11. ASSUME NEW cancel \in BOOLEAN, EvalBegin(cancel) PROVE UNCHANGED Async!vars
  BY <1>1, <1>11 DEF EvalBegin
<1>12. ASSUME NEW s \in Slots, NEW out \in Outcomes, Finish(s, out)
       PROVE  UNCHANGED Async!vars
  BY <1>1, <1>12 DEF Finish, mainVars, weightVars
<1>13. CASE Stopped \/ UNCHANGED vars
  BY <1>1, <1>13 DEF Stopped, vars, mainVars, weightVars
<1> QED
  BY <1>2, <1>3, <1>5, <1>6, <1>7, <1>8, <1>9, <1>10, <1>11, <1>12, <1>13
     DEF Next, MainLoop, Generate, UpdateTask, StageTask, Faulty

(* The orchestrator, in either protocol, runs at most one step ahead of the *)
(* trainer, and serves only published policies, in order.                  *)
THEOREM SchedulerImplementsAsync == Spec => ImplementsAsync
<1>1. Init => Async!Init
  BY DEF Init, Async!Init
<1>2. SInv /\ [Next]_vars => [Async!Next]_(Async!vars)
  BY StepRefines
<1> QED
  BY <1>1, <1>2, SuspendedTasksSound, PTL DEF Spec, ImplementsAsync, Async!Spec
---------------------------------------------------------------------------
(***************************************************************************)
(* The rollouts.  SInv says nothing of them; RInv relates each task to the *)
(* policies committed since it was scheduled, each group to the rollouts   *)
(* it waits for, and what a suspended update captured to both.             *)
(***************************************************************************)

Slack == IF Limited THEN 1 ELSE 0

(* What is still to be added to a rollout's counter for the last commit. *)
Owed(s) == IF /\ upd.pc \in {"drop", "cancel"} /\ slots[s].salt < ckptStep
              /\ s \in upd.bump \/ slots[s].group \in upd.stale
           THEN 1 ELSE 0

(* Policies are published before they are served, and trained on batches sent. *)
CountersInv ==
  /\ ckptStep <= published /\ published <= sent
  /\ pc # "done" => sent < MaxSteps
  /\ pc # "crashed" => attempts < MaxAttempts

(* The endpoint runs the pool's policy, or the one that is being committed. *)
WeightsInv ==
  /\ ckptStep <= weights
  /\ upd.pc = "loaded" => weights = upd.v
  /\ upd.pc \in {"drop", "cancel"} => weights = ckptStep
  /\ pc = "commit" => weights = stg.v
  /\ Background /\ pc \notin {"commit", "crashed"} => weights = ckptStep
  /\ Delta => /\ weights <= ckptStep + 1
              /\ upd.pc \in {"start", "wait", "load", "loaded"} => upd.v = ckptStep + 1
              /\ stg.pc # "idle" => stg.v = ckptStep + 1

(* What the suspended accounting captured is still in flight. *)
CapturedInv ==
  /\ upd.pc # "drop" => upd.stale = {}
  /\ upd.pc \notin {"drop", "cancel"} => upd.bump = {}
  /\ Background /\ upd.pc # "idle" => pc = "joinUpdate"
  /\ Cardinality(upd.stale) <= MaxInflight
  /\ upd.bump \subseteq Inflight

(* A task began on the pool's policy and counts the commits since, within the
   bound; one that an update captured has survived its commit. *)
SlotAt(s) ==
  LET r == slots[s]
  IN  /\ r.group \in Live
      /\ r.salt <= ckptStep /\ r.salt <= r.first
      /\ r.off <= MaxOff
      /\ r.off + Owed(s) <= ckptStep - r.salt
      /\ Delta => r.off + Owed(s) = ckptStep - r.salt /\ r.last <= weights
      /\ Background => r.salt = r.first
      /\ r.count = IF GroupScored THEN GroupSize ELSE 1
      /\ s \in upd.bump => r.salt < ckptStep /\ r.off < MaxOff /\ r.group \notin upd.stale

(* A live group always waits for someone, and its tasks began together. *)
GroupAt(g) ==
  LET G == groups[g]
  IN  /\ G.to + Count(TasksOf(g)) + G.done + G.failed = GroupSize
      /\ G.done + G.failed < GroupSize
      /\ G.done = 0 => G.oldest = MaxSteps
      /\ \A s, t \in TasksOf(g) : slots[s].salt <= slots[t].salt + Slack
      /\ \A s \in TasksOf(g) : slots[s].salt <= G.oldest + Slack

(* A group waits for slots only while generate_batch fills them, one group at
   a time, and has none to wait for. *)
WaitingAt(g) ==
  groups[g].to > 0 =>
    /\ pc \in {"fill", "acquire"}
    /\ groups[g].done = 0 /\ groups[g].failed = 0
    /\ groups[g].to <= Capacity
    /\ GroupScored => groups[g].to = GroupSize
    /\ \A s \in TasksOf(g) : sent - 1 <= slots[s].salt /\ (~Limited => slots[s].salt = ckptStep)
    /\ \A h \in Live : groups[h].to > 0 => h = g

RolloutsInv ==
  /\ \A s \in Inflight : SlotAt(s)
  /\ \A g \in Live : GroupAt(g) /\ WaitingAt(g)
  /\ pc = "acquire" /\ target \in Live => groups[target].to > 0

RInv == TypeOK /\ CountersInv /\ WeightsInv /\ CapturedInv /\ RolloutsInv
FullInv == SInv /\ RInv

---------------------------------------------------------------------------
(* Counting rollouts *)

Pairs(f, S) == {p \in S \X (1..GroupSize) : p[2] <= f[p[1]].count}

LEMMA CountIsPairs == \A S : Count(S) = Cardinality(Pairs(slots, S))
  BY DEF Count, Rollouts, Pairs

LEMMA SlotsFinite == /\ IsFiniteSet(Slots) /\ Cardinality(Slots) = MaxInflight
                     /\ MaxInflight \in Nat /\ GroupSize \in Nat \ {0}
                     /\ \A S \in SUBSET Slots : /\ IsFiniteSet(S) /\ Cardinality(S) \in Nat
                                                /\ Cardinality(S) <= MaxInflight
                                                /\ Cardinality(S) = MaxInflight => S = Slots
<1>1. MaxInflight \in Nat /\ GroupSize \in Nat \ {0}
  BY SchedulerAssumption
<1>2. IsFiniteSet(Slots) /\ Cardinality(Slots) = MaxInflight
  <2>1. IsFiniteSet(1..MaxInflight) /\ Cardinality(1..MaxInflight) = MaxInflight
    BY <1>1, FS_Interval
  <2> QED
    BY <2>1 DEF Slots
<1>3. \A S \in SUBSET Slots : /\ IsFiniteSet(S) /\ Cardinality(S) \in Nat
                              /\ Cardinality(S) <= MaxInflight
                              /\ Cardinality(S) = MaxInflight => S = Slots
  BY <1>2, FS_Subset, FS_CardinalityType
<1> QED
  BY <1>1, <1>2, <1>3

LEMMA PairsSame ==
  ASSUME NEW f, NEW g, NEW S, \A s \in S : f[s].count = g[s].count
  PROVE  Pairs(f, S) = Pairs(g, S)
  BY DEF Pairs

LEMMA PairsFinite ==
  ASSUME NEW f, NEW S \in SUBSET Slots
  PROVE  IsFiniteSet(Pairs(f, S)) /\ Cardinality(Pairs(f, S)) \in Nat
<1>1. IsFiniteSet(S) /\ IsFiniteSet(1..GroupSize)
  <2>1. 1 \in Int /\ GroupSize \in Int
    BY SlotsFinite
  <2> QED
    BY <2>1, SlotsFinite, FS_Interval
<1>2. IsFiniteSet(S \X (1..GroupSize))
  BY <1>1, FS_Product
<1>3. Pairs(f, S) \in SUBSET (S \X (1..GroupSize))
  BY DEF Pairs
<1>4. IsFiniteSet(Pairs(f, S))
  BY <1>2, <1>3, FS_Subset
<1> QED
  BY <1>4, FS_CardinalityType

LEMMA PairsMono ==
  ASSUME NEW f, NEW S \in SUBSET Slots, NEW T \in SUBSET S
  PROVE  Cardinality(Pairs(f, T)) <= Cardinality(Pairs(f, S))
<1>1. Pairs(f, T) \in SUBSET Pairs(f, S)
  BY DEF Pairs
<1> QED
  BY <1>1, PairsFinite, FS_Subset

LEMMA PairsEmpty == ASSUME NEW f PROVE Cardinality(Pairs(f, {})) = 0
<1>1. Pairs(f, {}) = {}
  BY DEF Pairs
<1> QED
  BY <1>1, FS_EmptySet

(* A task stands for as many rollouts as its count says. *)
LEMMA PairsOne ==
  ASSUME NEW f, NEW s \in Slots, f[s].count \in 1..GroupSize
  PROVE  Cardinality(Pairs(f, {s})) = f[s].count
<1> DEFINE n == f[s].count
           m == [i \in 1..n |-> <<s, i>>]
<1>1. n \in Nat /\ 1..n \subseteq 1..GroupSize
  BY SlotsFinite
<1> HIDE DEF n
<1>2. Pairs(f, {s}) = {<<s, i>> : i \in 1..n}
  BY <1>1 DEF Pairs, n
<1>3. m \in Bijection(1..n, Pairs(f, {s}))
  BY <1>2 DEF Bijection, Injection, Surjection, IsInjective
<1>4. ExistsBijection(1..n, Pairs(f, {s}))
  BY <1>3 DEF ExistsBijection
<1>5. Cardinality(Pairs(f, {s})) = n
  BY <1>1, <1>4, FS_CountingElements
<1> QED
  BY <1>5 DEF n

LEMMA PairsAdd ==
  ASSUME NEW f, NEW S \in SUBSET Slots, NEW s \in Slots \ S, f[s].count \in 1..GroupSize
  PROVE  Cardinality(Pairs(f, S \cup {s})) = Cardinality(Pairs(f, S)) + f[s].count
<1>1. /\ IsFiniteSet(Pairs(f, S)) /\ Cardinality(Pairs(f, S)) \in Nat
      /\ IsFiniteSet(Pairs(f, {s})) /\ Cardinality(Pairs(f, {s})) \in Nat
  BY PairsFinite
<1>2. /\ Pairs(f, S \cup {s}) = Pairs(f, S) \cup Pairs(f, {s})
      /\ Pairs(f, S) \cap Pairs(f, {s}) = {}
  BY DEF Pairs
<1>3. Cardinality(Pairs(f, S) \cup Pairs(f, {s}))
        = Cardinality(Pairs(f, S)) + Cardinality(Pairs(f, {s}))
  <2> DEFINE A == Pairs(f, S)
             B == Pairs(f, {s})
  <2>1. IsFiniteSet(A) /\ IsFiniteSet(B) /\ A \cap B = {} /\ Cardinality({}) = 0
        /\ Cardinality(A) \in Nat /\ Cardinality(B) \in Nat
    BY <1>1, <1>2, FS_EmptySet
  <2> HIDE DEF A, B
  <2>2. Cardinality(A \cup B) = Cardinality(A) + Cardinality(B) - Cardinality(A \cap B)
    BY <2>1, FS_Union
  <2>3. Cardinality(A \cap B) = 0
    BY <2>1
  <2>4. Cardinality(A \cup B) = Cardinality(A) + Cardinality(B)
    BY <2>1, <2>2, <2>3
  <2> QED
    BY <2>4 DEF A, B
<1> QED
  BY <1>2, <1>3, PairsOne

LEMMA PairsAtLeast ==
  ASSUME NEW f, NEW S \in SUBSET Slots, \A s \in S : f[s].count \in 1..GroupSize
  PROVE  Cardinality(S) <= Cardinality(Pairs(f, S))
<1> DEFINE m == [s \in S |-> <<s, 1>>]
<1>1. \A s \in S : <<s, 1>> \in Pairs(f, S)
  BY SlotsFinite DEF Pairs
<1>2. m \in Injection(S, Pairs(f, S))
  BY <1>1 DEF Injection, IsInjective
<1> QED
  BY <1>2, PairsFinite, FS_Injection

(* A nonempty set of naturals has a least element. *)
LEMMA LeastNat ==
  ASSUME NEW S \in SUBSET Nat, S # {}
  PROVE  Min(S) \in S
<1>1. \E x \in S : \A y \in S : ~ (<<y, x>> \in OpToRel(<, Nat))
  BY NatLessThanWellFounded, WFMin
<1>2. \A x, y \in Nat : <<y, x>> \in OpToRel(<, Nat) <=> y < x
  BY DEF OpToRel
<1>3. \E x \in S : \A y \in S : x =< y
  <2>1. PICK x \in S : \A y \in S : ~ (<<y, x>> \in OpToRel(<, Nat))
    BY <1>1
  <2>2. \A y \in S : ~ (y < x)
    BY <1>2, <2>1
  <2>3. \A y \in S : x =< y
    BY <2>2
  <2> QED
    BY <2>3
<1> QED
  BY <1>3 DEF Min

LEMMA NoneIsNone == \A r \in Rollout \cup Group : r # None
  BY DEF Rollout, Group, None

---------------------------------------------------------------------------
(* Types *)

LEMMA Sizes == /\ MaxSteps \in Nat \ {0} /\ MaxOff \in Nat /\ MaxFaults \in Nat
               /\ BatchSize \in Nat \ {0} /\ MaxAttempts \in Nat \ {0}
               /\ MaxInflight \in Nat /\ GroupSize \in Nat \ {0} /\ MaxInflight >= GroupSize
               /\ \A v \in Versions : v \in Nat /\ v <= MaxSteps
               /\ Background \in BOOLEAN /\ Delta \in BOOLEAN
               /\ Limited \in BOOLEAN /\ GroupScored \in BOOLEAN
               /\ Slack \in {0, 1}
  BY SchedulerAssumption DEF Versions, Slack

LEMMA SlotTypes ==
  ASSUME TypeOK, NEW s \in Inflight
  PROVE  /\ s \in Slots /\ slots[s] \in Rollout /\ slots[s] # None
         /\ slots[s].group \in GroupIds /\ slots[s].count \in 1..GroupSize
         /\ slots[s].count \in Nat /\ slots[s].off \in Nat
         /\ slots[s].salt \in Nat /\ slots[s].first \in Nat /\ slots[s].last \in Nat
         /\ slots[s].salt \in Versions /\ slots[s].first \in Versions /\ slots[s].last \in Versions
<1>1. s \in Slots /\ slots[s] \in Rollout /\ slots[s] # None
  BY DEF TypeOK, Inflight
<1> QED
  BY <1>1, Sizes DEF Rollout

LEMMA GroupTypes ==
  ASSUME TypeOK, NEW g \in Live
  PROVE  /\ g \in GroupIds /\ groups[g] \in Group
         /\ groups[g].to \in 0..GroupSize /\ groups[g].done \in 0..GroupSize
         /\ groups[g].failed \in 0..GroupSize /\ groups[g].oldest \in Versions
         /\ groups[g].to \in Nat /\ groups[g].done \in Nat /\ groups[g].failed \in Nat
         /\ groups[g].oldest \in Nat
<1>1. g \in GroupIds /\ groups[g] \in Group
  BY DEF TypeOK, Live
<1> QED
  BY <1>1, Sizes DEF Group

LEMMA TasksTypes ==
  /\ Inflight \in SUBSET Slots
  /\ \A g : TasksOf(g) \in SUBSET Slots /\ TasksOf(g) \in SUBSET Inflight
  /\ \A g : Count(TasksOf(g)) \in Nat /\ Count(TasksOf(g)) <= Count(Inflight)
  /\ Count(Inflight) \in Nat /\ Capacity = MaxInflight - Count(Inflight)
<1>1. Inflight \in SUBSET Slots /\ \A g : TasksOf(g) \in SUBSET Inflight
  BY DEF Inflight, TasksOf
<1>2. \A g : TasksOf(g) \in SUBSET Slots
  BY <1>1
<1>3. Count(Inflight) \in Nat /\ Capacity = MaxInflight - Count(Inflight)
  BY <1>1, PairsFinite, CountIsPairs DEF Capacity
<1>4. ASSUME NEW g
      PROVE  Count(TasksOf(g)) \in Nat /\ Count(TasksOf(g)) <= Count(Inflight)
  BY <1>1, <1>2, PairsFinite, PairsMono, CountIsPairs
<1> QED
  BY <1>1, <1>2, <1>3, <1>4

LEMMA CountersTypes ==
  ASSUME TypeOK
  PROVE  /\ sent \in Nat /\ step \in Nat /\ published \in Nat /\ ckptStep \in Nat
         /\ weights \in Nat /\ upd.v \in Nat /\ stg.v \in Nat
         /\ upd.stale \in SUBSET GroupIds /\ upd.bump \in SUBSET Slots
         /\ sent <= MaxSteps /\ published <= MaxSteps /\ ckptStep <= MaxSteps
         /\ weights <= MaxSteps /\ upd.v <= MaxSteps /\ stg.v <= MaxSteps
<1>1. /\ {sent, step, published, ckptStep, weights, upd.v, stg.v} \subseteq Versions
      /\ upd.stale \in SUBSET GroupIds /\ upd.bump \in SUBSET Slots
  BY DEF TypeOK
<1> QED
  BY <1>1, Sizes

---------------------------------------------------------------------------
(* Steps that leave the rollouts alone *)

LEMMA QuietSlots ==
  ASSUME TypeOK, \A s \in Inflight : SlotAt(s), UNCHANGED <<slots, groups, ckptStep>>,
         weights' \in Nat, Delta => weights <= weights',
         \/ UNCHANGED upd
         \/ /\ upd.pc \notin {"drop", "cancel"} /\ upd'.pc \notin {"drop", "cancel"}
            /\ upd'.bump = {}
  PROVE  (\A s \in Inflight : SlotAt(s))'
<1>1. SUFFICES ASSUME NEW s \in Inflight
               PROVE  SlotAt(s)'
  BY DEF Inflight
<1>2. SlotAt(s) /\ Owed(s)' = Owed(s) /\ Live' = Live /\ (s \in upd'.bump => s \in upd.bump)
  BY DEF Owed, Live
<1>3. s \in upd'.bump => upd'.stale = upd.stale
  OBVIOUS
<1>4. slots[s].last \in Nat /\ weights \in Nat
  BY SlotTypes, CountersTypes
<1> QED
  BY <1>2, <1>3, <1>4 DEF SlotAt

LEMMA QuietGroups ==
  ASSUME \A g \in Live : GroupAt(g), UNCHANGED <<slots, groups>>
  PROVE  (\A g \in Live : GroupAt(g))'
<1>1. Live' = Live /\ \A g : TasksOf(g)' = TasksOf(g) /\ Count(TasksOf(g))' = Count(TasksOf(g))
  BY DEF Live, TasksOf, Inflight, Count, Rollouts
<1>2. SUFFICES ASSUME NEW g \in Live
               PROVE  GroupAt(g)'
  BY <1>1
<1> QED
  BY <1>1 DEF GroupAt

LEMMA NobodyWaits ==
  ASSUME TypeOK, \A g \in Live : WaitingAt(g), pc \notin {"fill", "acquire"}
  PROVE  \A g \in Live : groups[g].to = 0
  BY GroupTypes DEF WaitingAt

LEMMA QuietWaiting ==
  ASSUME TypeOK, \A g \in Live : WaitingAt(g), UNCHANGED <<slots, groups>>,
         \/ /\ pc \in {"fill", "acquire"} => pc' \in {"fill", "acquire"}
            /\ pc \in {"fill", "acquire"} => sent' = sent
            /\ pc = "fill" \/ (pc = "acquire" /\ ~Limited) => ckptStep' = ckptStep
         \/ \A g \in Live : groups[g].to = 0
  PROVE  (\A g \in Live : WaitingAt(g))'
<1>1. Live' = Live /\ Capacity' = Capacity /\ \A g : TasksOf(g)' = TasksOf(g)
  BY DEF Live, TasksOf, Inflight, Count, Rollouts, Capacity
<1>2. SUFFICES ASSUME NEW g \in Live
               PROVE  WaitingAt(g)'
  BY <1>1
<1>3. CASE groups[g].to = 0
  BY <1>3 DEF WaitingAt
<1>4. CASE groups[g].to # 0
  <2>1. WaitingAt(g) /\ groups[g].to > 0
    BY <1>4, GroupTypes
  <2>2. pc \in {"fill", "acquire"}
    BY <2>1 DEF WaitingAt
  <2>3. pc' \in {"fill", "acquire"} /\ sent' = sent /\ (~Limited => ckptStep' = ckptStep)
    BY <1>4, <2>2
  <2> QED
    BY <1>1, <2>1, <2>3 DEF WaitingAt
<1> QED
  BY <1>3, <1>4

(* A step of the main loop or of the stage task that touches no rollout and no
   policy. *)
LEMMA MainQuiet ==
  ASSUME FullInv, TypeOK', CountersInv',
         UNCHANGED <<slots, groups, ckptStep, weights, upd>>,
         pc \in {"commit", "crashed"} => pc' \in {"commit", "crashed"},
         pc' = "commit" => pc = "commit" /\ stg' = stg,
         pc = "joinUpdate" => pc' = "joinUpdate",
         Delta /\ stg'.pc # "idle" => stg'.v = ckptStep + 1,
         pc' = "acquire" => pc = "acquire" /\ target' = target,
         \/ pc \in {"fill", "acquire"} => pc' \in {"fill", "acquire"} /\ sent' = sent
         \/ \A g \in Live : groups[g].to = 0
  PROVE  RInv'
<1>1. TypeOK /\ CountersInv /\ WeightsInv /\ CapturedInv /\ RolloutsInv
  BY DEF FullInv, RInv
<1>2. weights \in Nat
  BY <1>1, CountersTypes
<1>3. (\A s \in Inflight : SlotAt(s))'
  BY <1>1, <1>2, QuietSlots DEF RolloutsInv
<1>4. (\A g \in Live : GroupAt(g))'
  BY <1>1, QuietGroups DEF RolloutsInv
<1>5. (\A g \in Live : WaitingAt(g))'
  BY <1>1, QuietWaiting DEF RolloutsInv
<1>6. RolloutsInv'
  BY <1>1, <1>3, <1>4, <1>5 DEF RolloutsInv, Live
<1>7. WeightsInv'
  BY <1>1 DEF WeightsInv
<1>8. CapturedInv'
  BY <1>1 DEF CapturedInv, Inflight
<1> QED
  BY <1>6, <1>7, <1>8 DEF RInv

(* The version that the pool is brought to, when it is to be brought further. *)
LEMMA NextVersion ==
  ASSUME FullInv, NextCkptStep(step) > ckptStep
  PROVE  /\ NextCkptStep(step) \in Versions
         /\ Delta => NextCkptStep(step) = ckptStep + 1
<1> DEFINE n == NextCkptStep(step)
           t == Max({step - 1, published})
<1>1. /\ sent \in Nat /\ step \in Nat /\ published \in Nat /\ ckptStep \in Nat
      /\ published <= MaxSteps /\ sent <= MaxSteps /\ step <= sent
  BY CountersTypes DEF FullInv, RInv, SInv, BarrierInv
<1>2. n \in Nat /\ (n <= published \/ n <= step - 1)
  BY NextBounds DEF FullInv, SInv
<1>3. Delta => n <= ckptStep + 1
  <2>1. step - 1 \in Int /\ published \in Int
    BY <1>1
  <2>2. t \in Int
    <3>1. t \in {step - 1, published}
      BY <2>1, MaxPair
    <3> QED
      BY <2>1, <3>1
  <2>3. Delta => n = Min({t, ckptStep + 1})
    BY DEF NextCkptStep
  <2> HIDE DEF n, t
  <2>4. Min({t, ckptStep + 1}) <= ckptStep + 1
    <3>1. ckptStep + 1 \in Int
      BY <1>1
    <3> QED
      BY <2>2, <3>1, MinPair
  <2> QED
    BY <2>3, <2>4
<1>4. n > ckptStep
  OBVIOUS
<1> HIDE DEF n
<1>5. n \in 0..MaxSteps /\ (Delta => n = ckptStep + 1)
  BY <1>1, <1>2, <1>3, <1>4, Sizes
<1> QED
  BY <1>5 DEF n, Versions

LEMMA PhaseRInv ==
  ASSUME FullInv,
         \/ EvalEnd \/ Begin \/ BarrierPassed \/ FillDone \/ Collect \/ ProcessDone
         \/ Dropped \/ ScheduleGone \/ Send \/ Filtered \/ Stopped \/ Publish
         \/ \E cancel \in BOOLEAN : EvalBegin(cancel)
         \/ \E s \in Slots : TakeGone(s)
  PROVE  RInv'
<1>1. /\ TypeOK /\ CountersInv /\ WeightsInv /\ CapturedInv /\ RolloutsInv
      /\ BarrierInv
  BY DEF FullInv, RInv, SInv
<1>2. CASE FillDone
  <2>1. \A g \in Live : groups[g].to = 0
    <3>1. SUFFICES ASSUME NEW g \in Live, groups[g].to # 0
                   PROVE  FALSE
      OBVIOUS
    <3>2. groups[g].to > 0 /\ groups[g].to \in Nat
      BY <1>1, <3>1, GroupTypes
    <3>3. groups[g].to <= Capacity /\ Capacity \in Int
      BY <1>1, <3>2, TasksTypes, Sizes DEF RolloutsInv, WaitingAt
    <3>4. Cost(g) <= Capacity
      BY <3>2, <3>3 DEF Cost
    <3> QED
      BY <1>2, <3>2, <3>4 DEF FillDone, Pending
  <2>2. TypeOK' /\ CountersInv'
    BY <1>1, <1>2 DEF FillDone, TypeOK, CountersInv, weightVars, rolloutVars, Inflight
  <2> QED
    BY <1>1, <1>2, <2>1, <2>2, MainQuiet DEF FillDone, WeightsInv, weightVars, rolloutVars
<1>3. CASE Send
  <2>1. TypeOK' /\ CountersInv'
    BY <1>1, <1>3, Sizes DEF Send, TypeOK, CountersInv, weightVars, rolloutVars, Versions
  <2> QED
    BY <1>1, <1>3, <2>1, MainQuiet DEF Send, WeightsInv, weightVars, rolloutVars
<1>4. CASE Filtered
  <2>1. TypeOK' /\ CountersInv'
    BY <1>1, <1>4, Sizes DEF Filtered, TypeOK, CountersInv, weightVars, rolloutVars
  <2> QED
    BY <1>1, <1>4, <2>1, MainQuiet DEF Filtered, WeightsInv, weightVars, rolloutVars
<1>5. CASE Publish
  <2>1. published' = published + 1 /\ published' <= sent /\ published' \in Versions
    BY <1>1, <1>5, CountersTypes, Sizes DEF Publish, Versions
  <2>2. TypeOK' /\ CountersInv'
    BY <1>1, <1>5, <2>1, CountersTypes DEF Publish, TypeOK, CountersInv, mainVars, rolloutVars
  <2> QED
    BY <1>1, <1>5, <2>2, MainQuiet DEF Publish, WeightsInv, mainVars, rolloutVars
<1>6. CASE EvalEnd
  <2>1. TypeOK' /\ CountersInv'
    BY <1>1, <1>6, Sizes DEF EvalEnd, TypeOK, CountersInv, rolloutVars, Versions
  <2> QED
    BY <1>1, <1>6, <2>1, MainQuiet DEF EvalEnd, WeightsInv, rolloutVars
<1>7. ASSUME NEW cancel \in BOOLEAN, EvalBegin(cancel) PROVE RInv'
  <2>1. TypeOK' /\ CountersInv'
    BY <1>1, <1>7, Sizes, ZenonT(30) DEF EvalBegin, TypeOK, CountersInv, rolloutVars, Versions
  <2> QED
    BY <1>1, <1>7, <2>1, MainQuiet DEF EvalBegin, WeightsInv, rolloutVars
<1>8. CASE Begin
  <2>1. TypeOK' /\ CountersInv'
    BY <1>1, <1>8, Sizes DEF Begin, TypeOK, CountersInv, weightVars, rolloutVars
  <2> QED
    BY <1>1, <1>8, <2>1, MainQuiet DEF Begin, WeightsInv, weightVars, rolloutVars
<1>9. CASE BarrierPassed
  <2>1. TypeOK' /\ CountersInv'
    BY <1>1, <1>9, Sizes DEF BarrierPassed, TypeOK, CountersInv, weightVars, rolloutVars
  <2> QED
    BY <1>1, <1>9, <2>1, MainQuiet DEF BarrierPassed, WeightsInv, weightVars, rolloutVars
<1>10. CASE Collect \/ ProcessDone \/ Dropped
  <2>1. TypeOK' /\ CountersInv'
    BY <1>1, <1>10
       DEF Collect, ProcessDone, Dropped, TypeOK, CountersInv, weightVars, rolloutVars
  <2> QED
    BY <1>1, <1>10, <2>1, MainQuiet
       DEF Collect, ProcessDone, Dropped, WeightsInv, weightVars, rolloutVars
<1>11. ASSUME NEW s \in Slots, TakeGone(s) PROVE RInv'
  <2>1. TypeOK' /\ CountersInv'
    BY <1>1, <1>11 DEF TakeGone, TypeOK, CountersInv, weightVars, rolloutVars
  <2> QED
    BY <1>1, <1>11, <2>1, MainQuiet DEF TakeGone, Taking, WeightsInv, weightVars, rolloutVars
<1>12. CASE ScheduleGone
  <2>1. TypeOK' /\ CountersInv'
    <3>1. 1 \in GroupIds
      BY Sizes DEF GroupIds
    <3> QED
      BY <1>1, <1>12, <3>1 DEF ScheduleGone, TypeOK, CountersInv, weightVars, rolloutVars
  <2> QED
    BY <1>1, <1>12, <2>1, MainQuiet DEF ScheduleGone, WeightsInv, weightVars, rolloutVars
<1>13. CASE Stopped
  <2>1. TypeOK' /\ CountersInv'
    BY <1>1, <1>13
       DEF Stopped, TypeOK, CountersInv, vars, mainVars, weightVars, rolloutVars
  <2> QED
    BY <1>1, <1>13, <2>1, MainQuiet
       DEF Stopped, WeightsInv, vars, mainVars, weightVars, rolloutVars
<1> QED
  BY <1>2, <1>3, <1>4, <1>5, <1>6, <1>7, <1>8, <1>9, <1>10, <1>11, <1>12, <1>13

LEMMA StageRInv ==
  ASSUME FullInv, StgLanded \/ StgDone \/ StgFail \/ CommitFail \/ BarrierCommit
  PROVE  RInv'
<1>1. /\ TypeOK /\ CountersInv /\ WeightsInv /\ CapturedInv /\ RolloutsInv
      /\ BarrierInv /\ StageInv
  BY DEF FullInv, RInv, SInv
<1>2. CASE StgLanded \/ StgDone \/ StgFail
  <2>1. /\ stg' \in {[stg EXCEPT !.pc = p] : p \in {"load", "done", "failed"}}
        /\ stg.pc \in {"wait", "load"}
        /\ UNCHANGED <<mainVars, weightVars, rolloutVars, loop, upd>>
        /\ faults' \in 0..MaxFaults
    BY <1>1, <1>2, Sizes DEF StgLanded, StgDone, StgFail, TypeOK
  <2>2. /\ stg' \in [pc : {"idle", "wait", "load", "done", "failed"}, v : Versions]
        /\ stg'.v = stg.v /\ stg'.pc # "idle" /\ stg.pc # "idle"
    BY <1>1, <2>1 DEF TypeOK
  <2>3. TypeOK' /\ CountersInv'
    BY <1>1, <2>1, <2>2 DEF TypeOK, CountersInv, mainVars, weightVars, rolloutVars
  <2>4. pc # "commit"
    BY <1>1, <2>1 DEF StageInv
  <2> QED
    BY <1>1, <2>1, <2>2, <2>3, <2>4, MainQuiet
       DEF WeightsInv, mainVars, weightVars, rolloutVars
<1>3. CASE CommitFail
  <2>1. TypeOK' /\ CountersInv'
    BY <1>1, <1>3, Sizes
       DEF CommitFail, TypeOK, CountersInv, weightVars, rolloutVars, NoStage, Versions
  <2> QED
    BY <1>1, <1>3, <2>1, MainQuiet DEF CommitFail, WeightsInv, rolloutVars, NoStage
<1>4. CASE BarrierCommit
  <2> DEFINE n == NextCkptStep(step)
  <2>1. n \in Versions /\ (Delta => n = ckptStep + 1)
    BY <1>4, NextVersion DEF BarrierCommit
  <2>2. GetOrStartStage(n)
    BY <1>4 DEF BarrierCommit
  <2> HIDE DEF n
  <2>3. stg' = stg \/ stg' = [pc |-> "wait", v |-> n]
    BY <2>2 DEF GetOrStartStage
  <2>4. /\ stg' \in [pc : {"idle", "wait", "load", "done", "failed"}, v : Versions]
        /\ Delta /\ stg'.pc # "idle" => stg'.v = ckptStep + 1
    BY <1>1, <2>1, <2>3 DEF TypeOK, WeightsInv
  <2>5. TypeOK' /\ CountersInv'
    BY <1>1, <1>4, <2>4 DEF BarrierCommit, TypeOK, CountersInv, rolloutVars
  <2> QED
    BY <1>1, <1>4, <2>4, <2>5, MainQuiet DEF BarrierCommit, WeightsInv, rolloutVars
<1> QED
  BY <1>2, <1>3, <1>4

---------------------------------------------------------------------------
(* Updates up to the commit *)

LEMMA UpdQuiet ==
  ASSUME FullInv, TypeOK', ~Background,
         UNCHANGED <<slots, groups, ckptStep, sent, published, stg, attempts, target>>,
         upd.pc \notin {"drop", "cancel"},
         upd'.pc \in {"idle", "start", "wait", "load", "loaded"},
         upd'.stale = {}, upd'.bump = {}, Delta => weights <= weights',
         ckptStep <= weights',
         upd'.pc = "loaded" => weights' = upd'.v,
         Delta => weights' <= ckptStep + 1 /\ (upd'.pc # "idle" => upd'.v = ckptStep + 1),
         pc' = pc \/ (pc \in {"barrier", "joinUpdate"} /\ pc' \in {"barrier", "joinUpdate", "crashed"})
  PROVE  RInv'
<1>1. /\ TypeOK /\ CountersInv /\ WeightsInv /\ CapturedInv /\ RolloutsInv /\ StageInv
  BY DEF FullInv, RInv, SInv
<1>2. weights \in Nat /\ weights' \in Nat /\ ckptStep \in Nat
  <2>1. weights' \in Versions
    BY DEF TypeOK
  <2> QED
    BY <1>1, <2>1, CountersTypes, Sizes
<1>3. (\A s \in Inflight : SlotAt(s))'
  BY <1>1, <1>2, QuietSlots DEF RolloutsInv
<1>4. (\A g \in Live : GroupAt(g))'
  BY <1>1, QuietGroups DEF RolloutsInv
<1>5. (\A g \in Live : WaitingAt(g))'
  BY <1>1, QuietWaiting DEF RolloutsInv
<1>6. RolloutsInv'
  BY <1>1, <1>3, <1>4, <1>5 DEF RolloutsInv, Live
<1>7. pc # "commit"
  BY <1>1 DEF StageInv
<1>8. WeightsInv'
  BY <1>1, <1>2, <1>7 DEF WeightsInv
<1>9. CapturedInv'
  BY <1>1, FS_EmptySet, Sizes DEF CapturedInv, Inflight
<1>10. CountersInv'
  BY <1>1 DEF CountersInv
<1> QED
  BY <1>6, <1>8, <1>9, <1>10 DEF RInv

LEMMA UpdateRInv ==
  ASSUME FullInv,
         UpdBegin \/ UpdLanded \/ UpdSwitch \/ UpdFail \/ Poll \/ BarrierUpdate
  PROVE  RInv'
<1>1. /\ TypeOK /\ CountersInv /\ WeightsInv /\ CapturedInv /\ RolloutsInv
      /\ BarrierInv /\ UpdateInv
  BY DEF FullInv, RInv, SInv
<1>2. /\ upd.v \in Nat /\ weights \in Nat /\ ckptStep \in Nat
      /\ upd \in [pc : {"idle", "start", "wait", "load", "loaded", "drop", "cancel"},
                  v : Versions, cleared : BOOLEAN,
                  stale : SUBSET GroupIds, bump : SUBSET Slots]
  BY <1>1, CountersTypes DEF TypeOK
<1>3. CASE UpdBegin
  <2> DEFINE forced == upd.v = Max({step - 1, 0})
  <2>1. /\ upd' = [upd EXCEPT !.pc = IF forced THEN "wait" ELSE "load", !.cleared = forced]
        /\ upd.pc = "start" /\ ~Background
        /\ UNCHANGED <<mainVars, published, ckptStep, weights, rolloutVars, loop, stg, faults>>
        /\ ready' = (ready /\ ~forced)
    BY <1>1, <1>3 DEF UpdBegin, UpdateInv
  <2>2. forced \in BOOLEAN
    OBVIOUS
  <2> HIDE DEF forced
  <2>3. /\ upd'.v = upd.v /\ upd'.pc \in {"wait", "load"}
        /\ upd'.stale = upd.stale /\ upd'.bump = upd.bump
        /\ upd' \in [pc : {"idle", "start", "wait", "load", "loaded", "drop", "cancel"},
                     v : Versions, cleared : BOOLEAN,
                     stale : SUBSET GroupIds, bump : SUBSET Slots]
    BY <1>2, <2>1, <2>2
  <2>4. TypeOK'
    BY <1>1, <2>1, <2>2, <2>3 DEF TypeOK, mainVars, rolloutVars
  <2> QED
    BY <1>1, <1>2, <2>1, <2>3, <2>4, UpdQuiet
       DEF WeightsInv, CapturedInv, mainVars, rolloutVars
<1>4. CASE UpdLanded
  <2>1. /\ upd' = [upd EXCEPT !.pc = "load"] /\ upd.pc = "wait" /\ ~Background
        /\ UNCHANGED <<mainVars, weightVars, rolloutVars, loop, stg, faults>>
    BY <1>1, <1>4 DEF UpdLanded, UpdateInv
  <2>2. /\ upd'.v = upd.v /\ upd'.pc = "load"
        /\ upd'.stale = upd.stale /\ upd'.bump = upd.bump
        /\ upd' \in [pc : {"idle", "start", "wait", "load", "loaded", "drop", "cancel"},
                     v : Versions, cleared : BOOLEAN,
                     stale : SUBSET GroupIds, bump : SUBSET Slots]
    BY <1>2, <2>1
  <2>3. TypeOK'
    BY <1>1, <2>1, <2>2 DEF TypeOK, mainVars, weightVars, rolloutVars
  <2> QED
    BY <1>1, <1>2, <2>1, <2>2, <2>3, UpdQuiet
       DEF WeightsInv, CapturedInv, mainVars, weightVars, rolloutVars
<1>5. CASE UpdSwitch
  <2>1. /\ upd' = [upd EXCEPT !.pc = "loaded"] /\ upd.pc = "load" /\ ~Background
        /\ weights' = upd.v
        /\ UNCHANGED <<mainVars, published, ckptStep, ready, rolloutVars, loop, stg, faults>>
    BY <1>1, <1>5 DEF UpdSwitch, UpdateInv
  <2>2. /\ upd'.v = upd.v /\ upd'.pc = "loaded" /\ upd.v \in Versions
        /\ upd'.stale = upd.stale /\ upd'.bump = upd.bump
        /\ upd' \in [pc : {"idle", "start", "wait", "load", "loaded", "drop", "cancel"},
                     v : Versions, cleared : BOOLEAN,
                     stale : SUBSET GroupIds, bump : SUBSET Slots]
    BY <1>2, <2>1
  <2>3. TypeOK'
    BY <1>1, <2>1, <2>2 DEF TypeOK, mainVars, rolloutVars
  <2>4. (Delta => weights <= weights') /\ ckptStep <= weights'
    BY <1>1, <1>2, <2>1 DEF WeightsInv, UpdateInv
  <2> QED
    BY <1>1, <1>2, <2>1, <2>2, <2>3, <2>4, UpdQuiet
       DEF WeightsInv, CapturedInv, mainVars, rolloutVars
<1>6. CASE UpdFail
  <2>1. /\ upd' = Idle /\ upd.pc \in {"load", "loaded"} /\ ~Background
        /\ UNCHANGED <<published, ckptStep, weights, rolloutVars, stg, sent, step, target,
                       watch, progress, attempts, evalFrom>>
        /\ pc' = pc \/ (pc = "joinUpdate" /\ pc' = "crashed")
        /\ loop' \in {loop, "dead"} /\ ready' \in BOOLEAN /\ faults' \in 0..MaxFaults
    BY <1>1, <1>6, Sizes DEF UpdFail, Joined, UpdateInv, TypeOK
  <2>2. /\ upd'.pc = "idle" /\ upd'.stale = {} /\ upd'.bump = {}
        /\ upd' \in [pc : {"idle", "start", "wait", "load", "loaded", "drop", "cancel"},
                     v : Versions, cleared : BOOLEAN,
                     stale : SUBSET GroupIds, bump : SUBSET Slots]
    BY <2>1, Sizes DEF Idle, Versions
  <2>3. TypeOK'
    BY <1>1, <2>1, <2>2 DEF TypeOK, rolloutVars
  <2> QED
    BY <1>1, <1>2, <2>1, <2>2, <2>3, UpdQuiet DEF WeightsInv, rolloutVars
<1>7. CASE Poll \/ BarrierUpdate
  <2> DEFINE n == NextCkptStep(step)
  <2>1. n \in Versions /\ (Delta => n = ckptStep + 1)
    BY <1>7, NextVersion DEF Poll, BarrierUpdate
  <2> HIDE DEF n
  <2>2. CASE Poll /\ Background
    <3>1. /\ GetOrStartStage(n)
          /\ UNCHANGED <<mainVars, weightVars, rolloutVars, faults, loop, upd>>
      BY <2>2 DEF Poll, n
    <3>2. stg' = stg \/ stg' = [pc |-> "wait", v |-> n]
      BY <3>1 DEF GetOrStartStage
    <3>3. /\ stg' \in [pc : {"idle", "wait", "load", "done", "failed"}, v : Versions]
          /\ Delta /\ stg'.pc # "idle" => stg'.v = ckptStep + 1
      BY <1>1, <2>1, <3>2 DEF TypeOK, WeightsInv
    <3>4. TypeOK' /\ CountersInv'
      BY <1>1, <3>1, <3>3 DEF TypeOK, CountersInv, mainVars, weightVars, rolloutVars
    <3>5. pc # "commit"
      BY <1>1, <2>2 DEF Poll, BarrierInv, InBarrier
    <3> QED
      BY <1>1, <3>1, <3>3, <3>4, <3>5, MainQuiet
         DEF WeightsInv, mainVars, weightVars, rolloutVars
  <2>3. CASE (Poll \/ BarrierUpdate) /\ ~Background
    <3>1. /\ UpdStart(n) \/ UNCHANGED upd
          /\ upd.pc = "idle" => UpdStart(n)
          /\ upd.pc # "idle" => UNCHANGED upd
          /\ UNCHANGED <<sent, step, target, watch, progress, attempts, evalFrom,
                         weightVars, rolloutVars, stg, faults>>
          /\ pc' = pc \/ (pc = "barrier" /\ pc' = "joinUpdate")
          /\ loop' \in {loop, "join"}
      BY <2>3 DEF Poll, BarrierUpdate, n, mainVars
    <3>2. CASE UpdStart(n) /\ upd.pc = "idle"
      <4>1. upd' = [pc |-> "start", v |-> n, cleared |-> FALSE, stale |-> {}, bump |-> {}]
        BY <3>2 DEF UpdStart, Idle
      <4>2. /\ upd'.pc = "start" /\ upd'.v = n /\ upd'.stale = {} /\ upd'.bump = {}
            /\ upd' \in [pc : {"idle", "start", "wait", "load", "loaded", "drop", "cancel"},
                         v : Versions, cleared : BOOLEAN,
                         stale : SUBSET GroupIds, bump : SUBSET Slots]
        BY <2>1, <4>1
      <4>3. TypeOK'
        BY <1>1, <3>1, <4>2 DEF TypeOK, weightVars, rolloutVars
      <4> QED
        BY <1>1, <1>2, <2>1, <2>3, <3>1, <3>2, <4>2, <4>3, UpdQuiet
           DEF WeightsInv, weightVars, rolloutVars
    <3>3. CASE UNCHANGED upd
      <4>1. TypeOK' /\ CountersInv'
        BY <1>1, <3>1, <3>3 DEF TypeOK, CountersInv, weightVars, rolloutVars
      <4> QED
        BY <1>1, <3>1, <3>3, <4>1, MainQuiet DEF WeightsInv, weightVars, rolloutVars
    <3> QED
      BY <3>1, <3>2, <3>3
  <2> QED
    BY <1>7, <2>2, <2>3 DEF BarrierUpdate
<1> QED
  BY <1>3, <1>4, <1>5, <1>6, <1>7

---------------------------------------------------------------------------
(* Commits: the rollouts in flight fall one policy behind *)

(* A step after which the same tasks stand for the same rollouts. *)
SameTasks ==
  /\ UNCHANGED groups /\ Inflight' = Inflight
  /\ \A s \in Inflight : /\ slots'[s].group = slots[s].group
                         /\ slots'[s].count = slots[s].count
                         /\ slots'[s].salt = slots[s].salt

LEMMA SameTasksCount ==
  ASSUME SameTasks
  PROVE  /\ Live' = Live /\ Capacity' = Capacity
         /\ \A g : TasksOf(g)' = TasksOf(g) /\ Count(TasksOf(g))' = Count(TasksOf(g))
<1>1. Live' = Live /\ \A g : TasksOf(g)' = TasksOf(g) /\ TasksOf(g) \in SUBSET Inflight
  BY DEF SameTasks, Live, TasksOf
<1>2. ASSUME NEW S \in SUBSET Inflight
      PROVE  Rollouts(S)' = Rollouts(S)
  <2>1. \A s \in S : slots'[s].count = slots[s].count
    BY DEF SameTasks
  <2>2. Pairs(slots', S) = Pairs(slots, S)
    BY <2>1, PairsSame
  <2> QED
    BY <2>2 DEF Pairs, Rollouts
<1>3. \A g : Count(TasksOf(g))' = Count(TasksOf(g))
  BY <1>1, <1>2 DEF Count, Rollouts
<1>4. Count(Inflight)' = Count(Inflight)
  BY <1>2 DEF SameTasks, Count, Rollouts
<1> QED
  BY <1>1, <1>3, <1>4 DEF Capacity

LEMMA SameTasksGroups ==
  ASSUME SameTasks, \A g \in Live : GroupAt(g)
  PROVE  (\A g \in Live : GroupAt(g))'
<1>1. SUFFICES ASSUME NEW g \in Live
               PROVE  GroupAt(g)'
  BY SameTasksCount
<1>2. /\ TasksOf(g)' = TasksOf(g) /\ Count(TasksOf(g))' = Count(TasksOf(g))
      /\ groups'[g] = groups[g] /\ TasksOf(g) \in SUBSET Inflight
      /\ \A s \in TasksOf(g) : slots'[s].salt = slots[s].salt
  BY SameTasksCount DEF SameTasks, TasksOf
<1> QED
  BY <1>2 DEF GroupAt

LEMMA SameTasksWaiting ==
  ASSUME SameTasks, TypeOK, \A g \in Live : WaitingAt(g),
         \/ /\ pc \in {"fill", "acquire"} => pc' \in {"fill", "acquire"}
            /\ pc \in {"fill", "acquire"} => sent' = sent
            /\ pc = "fill" \/ (pc = "acquire" /\ ~Limited) => ckptStep' = ckptStep
         \/ \A g \in Live : groups[g].to = 0
  PROVE  (\A g \in Live : WaitingAt(g))'
<1>1. SUFFICES ASSUME NEW g \in Live
               PROVE  WaitingAt(g)'
  BY SameTasksCount
<1>2. /\ TasksOf(g)' = TasksOf(g) /\ Capacity' = Capacity /\ Live' = Live /\ groups' = groups
      /\ \A s \in TasksOf(g) : slots'[s].salt = slots[s].salt
  BY SameTasksCount DEF SameTasks, TasksOf
<1>3. CASE groups[g].to = 0
  BY <1>2, <1>3 DEF WaitingAt
<1>4. CASE groups[g].to # 0
  <2>1. WaitingAt(g) /\ groups[g].to > 0
    BY <1>4, GroupTypes
  <2>2. pc \in {"fill", "acquire"}
    BY <2>1 DEF WaitingAt
  <2>3. pc' \in {"fill", "acquire"} /\ sent' = sent /\ (~Limited => ckptStep' = ckptStep)
    BY <1>4, <2>2
  <2> QED
    BY <1>2, <2>1, <2>3 DEF WaitingAt
<1> QED
  BY <1>3, <1>4

LEMMA BumpTasks ==
  ASSUME TypeOK, NEW S \in SUBSET Inflight, Bump(S), UNCHANGED groups
  PROVE  /\ SameTasks
         /\ \A s \in Inflight : /\ slots'[s].first = slots[s].first
                                /\ slots'[s].last = slots[s].last
                                /\ slots'[s].state = slots[s].state
                                /\ slots'[s].off = IF s \in S THEN slots[s].off + 1
                                                   ELSE slots[s].off
         /\ slots' = [s \in Slots |-> slots'[s]]
         /\ \A s \in Slots : s \notin Inflight => slots'[s] = None
<1>1. ASSUME NEW s \in Inflight
      PROVE  /\ slots'[s].group = slots[s].group /\ slots'[s].count = slots[s].count
             /\ slots'[s].salt = slots[s].salt /\ slots'[s].first = slots[s].first
             /\ slots'[s].last = slots[s].last /\ slots'[s].state = slots[s].state
             /\ slots'[s].off = IF s \in S THEN slots[s].off + 1 ELSE slots[s].off
             /\ slots'[s] # None
  <2>1. s \in Slots /\ slots[s] \in Rollout /\ slots[s] # None
    BY SlotTypes
  <2>2. slots'[s] = IF s \in S THEN [slots[s] EXCEPT !.off = @ + 1] ELSE slots[s]
    BY <2>1 DEF Bump
  <2>3. CASE s \in S
    <3>1. /\ slots'[s].group = slots[s].group /\ slots'[s].count = slots[s].count
          /\ slots'[s].salt = slots[s].salt /\ slots'[s].first = slots[s].first
          /\ slots'[s].last = slots[s].last /\ slots'[s].state = slots[s].state
          /\ slots'[s].off = slots[s].off + 1
      BY <2>1, <2>2, <2>3 DEF Rollout
    <3>2. slots'[s] # None
      BY <2>1, <2>2, <2>3 DEF Rollout, None
    <3> QED
      BY <2>3, <3>1, <3>2
  <2>4. CASE s \notin S
    BY <2>1, <2>2, <2>4
  <2> QED
    BY <2>3, <2>4
<1>2. \A s \in Slots : s \notin Inflight => slots'[s] = None
  BY DEF Bump, Inflight
<1>3. Inflight' = Inflight
  BY <1>1, <1>2 DEF Inflight
<1>4. slots' = [s \in Slots |-> slots'[s]]
  BY DEF Bump
<1> QED
  BY <1>1, <1>2, <1>3, <1>4 DEF SameTasks

(* Once the counters are right, so are the types. *)
LEMMA BumpTypes ==
  ASSUME TypeOK, NEW S \in SUBSET Inflight, Bump(S), UNCHANGED groups,
         \A s \in Inflight : slots'[s].off <= MaxSteps
  PROVE  slots' \in [Slots -> Rollout \cup {None}]
<1>1. ASSUME NEW s \in Slots
      PROVE  slots'[s] \in Rollout \cup {None}
  <2>1. CASE s \in Inflight
    <3>1. /\ slots[s] \in Rollout /\ slots[s].off \in Nat
          /\ slots'[s].off \in {slots[s].off, slots[s].off + 1} /\ slots'[s].off <= MaxSteps
          /\ slots'[s] = IF s \in S THEN [slots[s] EXCEPT !.off = @ + 1] ELSE slots[s]
      BY <2>1, BumpTasks, SlotTypes DEF Bump
    <3>2. slots[s].off + 1 \in Nat /\ (s \in S => slots[s].off + 1 <= MaxSteps)
      BY <3>1, <2>1, BumpTasks
    <3> QED
      BY <3>1, <3>2, Sizes DEF Rollout
  <2>2. CASE s \notin Inflight
    BY <2>2, BumpTasks
  <2> QED
    BY <2>1, <2>2
<1> QED
  BY <1>1, BumpTasks

LEMMA StaleTypes ==
  ASSUME TypeOK
  PROVE  /\ Stale \in SUBSET GroupIds /\ IsFiniteSet(Stale)
         /\ Cardinality(Stale) \in Nat /\ Cardinality(Stale) <= MaxInflight
         /\ Survivors \in SUBSET Inflight
<1> DEFINE R == {r \in Inflight : slots[r].off >= MaxOff}
           f == [s \in R |-> slots[s].group]
<1>1. R \in SUBSET Slots /\ IsFiniteSet(R) /\ Cardinality(R) <= MaxInflight /\ Cardinality(R) \in Nat
  BY TasksTypes, SlotsFinite
<1>2. f \in Surjection(R, Stale)
  BY DEF Surjection, Stale
<1>3. /\ IsFiniteSet(Stale) /\ Cardinality(Stale) \in Nat
      /\ Cardinality(Stale) <= Cardinality(R)
  BY <1>1, <1>2, FS_Surjection, FS_CardinalityType
<1>4. Stale \in SUBSET GroupIds
  BY SlotTypes DEF Stale
<1>5. Cardinality(Stale) <= MaxInflight
  BY <1>1, <1>3, Sizes
<1> QED
  BY <1>3, <1>4, <1>5 DEF Survivors

LEMMA CommitStep ==
  ASSUME TypeOK, \A s \in Inflight : SlotAt(s), UNCHANGED groups,
         NEW v \in Versions, v > ckptStep, Delta => v = ckptStep + 1,
         weights = v, weights' = v, ckptStep' = v, upd.pc \notin {"drop", "cancel"},
         \/ Stale = {} /\ Bump(Inflight) /\ upd'.pc = "idle" /\ upd'.bump = {}
         \/ /\ UNCHANGED slots /\ upd'.pc = "drop"
            /\ upd'.stale = Stale /\ upd'.bump = Survivors
  PROVE  /\ SameTasks /\ slots' \in [Slots -> Rollout \cup {None}]
         /\ (\A s \in Inflight : SlotAt(s))'
<1>1. v \in Nat /\ v <= MaxSteps /\ ckptStep \in Nat
  BY Sizes, CountersTypes
<1>2. ASSUME NEW s \in Inflight
      PROVE  /\ slots[s].off \in Nat /\ slots[s].salt \in Nat /\ slots[s].last \in Nat
             /\ SlotAt(s) /\ Owed(s) = 0
             /\ slots[s].off >= MaxOff => slots[s].group \in Stale
             /\ s \in Survivors <=> slots[s].group \notin Stale
  BY SlotTypes DEF Owed, Stale, Survivors
<1>3. CASE Stale = {} /\ Bump(Inflight) /\ upd'.pc = "idle" /\ upd'.bump = {}
  <2>1. /\ SameTasks
        /\ \A s \in Inflight : /\ slots'[s].first = slots[s].first
                               /\ slots'[s].last = slots[s].last
                               /\ slots'[s].off = slots[s].off + 1
    BY <1>3, BumpTasks
  <2>2. ASSUME NEW s \in Inflight
        PROVE  SlotAt(s)' /\ slots'[s].off <= MaxSteps
    <3>1. /\ slots'[s].group = slots[s].group /\ slots'[s].count = slots[s].count
          /\ slots'[s].salt = slots[s].salt /\ slots'[s].first = slots[s].first
          /\ slots'[s].last = slots[s].last /\ slots'[s].off = slots[s].off + 1
          /\ Live' = Live /\ Owed(s)' = 0
      BY <1>3, <2>1, SameTasksCount DEF SameTasks, Owed
    <3>2. slots[s].off < MaxOff
      BY <1>2, <1>3, Sizes
    <3>3. /\ slots'[s].off <= MaxOff
          /\ slots'[s].off + 0 <= v - slots[s].salt
          /\ Delta => slots'[s].off + 0 = v - slots[s].salt /\ slots'[s].last <= v
          /\ slots[s].salt <= v
      BY <1>1, <1>2, <3>1, <3>2, Sizes DEF SlotAt
    <3>4. SlotAt(s)'
      BY <1>2, <1>3, <3>1, <3>3 DEF SlotAt
    <3> QED
      BY <1>1, <1>2, <3>1, <3>3, <3>4, Sizes
  <2>3. slots' \in [Slots -> Rollout \cup {None}]
    BY <1>3, <2>2, BumpTypes
  <2> QED
    BY <2>1, <2>2, <2>3 DEF SameTasks
<1>4. CASE /\ UNCHANGED slots /\ upd'.pc = "drop"
           /\ upd'.stale = Stale /\ upd'.bump = Survivors
  <2>1. SameTasks
    BY <1>4 DEF SameTasks, Inflight
  <2>2. ASSUME NEW s \in Inflight
        PROVE  SlotAt(s)'
    <3>1. slots[s].salt <= ckptStep /\ slots[s].salt < v
      BY <1>1, <1>2 DEF SlotAt
    <3>2. Owed(s)' = 1 /\ Live' = Live
      BY <1>2, <1>4, <3>1, <2>1, SameTasksCount DEF Owed
    <3>3. /\ slots[s].off + 1 <= v - slots[s].salt
          /\ Delta => slots[s].off + 1 = v - slots[s].salt /\ slots[s].last <= v
          /\ slots[s].salt <= v
      BY <1>1, <1>2, <3>1 DEF SlotAt
    <3>4. s \in Survivors => slots[s].off < MaxOff
      BY <1>2, Sizes
    <3> QED
      BY <1>2, <1>4, <3>1, <3>2, <3>3, <3>4 DEF SlotAt
  <2> QED
    BY <1>4, <2>1, <2>2 DEF SameTasks, TypeOK
<1> QED
  BY <1>3, <1>4

LEMMA CommitRInv ==
  ASSUME FullInv, CommitSwitch \/ UpdAnswered \/ CommitAnswered
  PROVE  RInv'
<1>1. /\ TypeOK /\ CountersInv /\ WeightsInv /\ CapturedInv /\ RolloutsInv
      /\ BarrierInv /\ UpdateInv /\ StageInv
  BY DEF FullInv, RInv, SInv
<1>2. /\ upd.v \in Versions /\ stg.v \in Versions /\ ckptStep \in Nat /\ weights \in Nat
      /\ upd.v \in Nat /\ stg.v \in Nat
      /\ upd \in [pc : {"idle", "start", "wait", "load", "loaded", "drop", "cancel"},
                  v : Versions, cleared : BOOLEAN,
                  stale : SUBSET GroupIds, bump : SUBSET Slots]
  BY <1>1, CountersTypes DEF TypeOK
<1>3. CASE CommitSwitch
  <2>1. /\ pc = "joinStage" /\ stg.pc = "done" /\ Background /\ stg.v > ckptStep
        /\ upd.pc = "idle" /\ weights = ckptStep
    BY <1>1, <1>3 DEF CommitSwitch, StageInv, CapturedInv, WeightsInv
  <2>2. TypeOK' /\ CountersInv'
    BY <1>1, <1>2, <1>3 DEF CommitSwitch, TypeOK, CountersInv, rolloutVars
  <2>3. (\A s \in Inflight : SlotAt(s))'
    BY <1>1, <1>2, <1>3, <2>1, QuietSlots DEF RolloutsInv, CommitSwitch, rolloutVars
  <2>4. (\A g \in Live : GroupAt(g))'
    BY <1>1, <1>3, QuietGroups DEF RolloutsInv, CommitSwitch, rolloutVars
  <2>5. (\A g \in Live : WaitingAt(g))'
    BY <1>1, <1>3, <2>1, QuietWaiting DEF RolloutsInv, CommitSwitch, rolloutVars
  <2>6. RolloutsInv'
    BY <1>3, <2>3, <2>4, <2>5 DEF RolloutsInv, CommitSwitch
  <2>7. WeightsInv'
    BY <1>1, <1>2, <1>3, <2>1 DEF WeightsInv, CommitSwitch
  <2>8. CapturedInv'
    BY <1>1, <1>3, <2>1 DEF CapturedInv, Inflight, CommitSwitch, rolloutVars
  <2> QED
    BY <2>2, <2>6, <2>7, <2>8 DEF RInv
<1>4. CASE UpdAnswered
  <2>1. /\ upd.pc = "loaded" /\ ckptStep' = upd.v /\ ~Busy /\ ready' = TRUE
        /\ UNCHANGED <<published, weights, stg, faults, sent, step, target, watch,
                       progress, attempts, evalFrom, groups>>
        /\ ~Background /\ upd.v > ckptStep /\ weights = upd.v
        /\ Delta => upd.v = ckptStep + 1
    BY <1>1, <1>4
       DEF UpdAnswered, Reopen, OffPolicy, Joined, mainVars, rolloutVars, UpdateInv, WeightsInv
  <2>2. /\ \/ Stale = {} /\ Bump(Inflight) /\ upd' = Idle
           \/ /\ UNCHANGED slots
              /\ upd' = [upd EXCEPT !.pc = "drop", !.v = upd.v, !.stale = Stale,
                                    !.bump = Survivors]
        /\ pc' = pc \/ (pc = "joinUpdate" /\ pc' = "barrier")
        /\ loop' \in {loop, "poll"}
    BY <1>4 DEF UpdAnswered, OffPolicy, Joined, mainVars, rolloutVars
  <2>3. /\ \/ Stale = {} /\ Bump(Inflight) /\ upd'.pc = "idle" /\ upd'.bump = {}
              /\ upd'.stale = {}
           \/ /\ UNCHANGED slots /\ upd'.pc = "drop"
              /\ upd'.stale = Stale /\ upd'.bump = Survivors
        /\ upd' \in [pc : {"idle", "start", "wait", "load", "loaded", "drop", "cancel"},
                     v : Versions, cleared : BOOLEAN,
                     stale : SUBSET GroupIds, bump : SUBSET Slots]
    <3>1. Stale \in SUBSET GroupIds /\ Survivors \in SUBSET Slots
      BY <1>1, StaleTypes, TasksTypes
    <3> HIDE DEF Stale, Survivors
    <3>2. CASE Stale = {} /\ Bump(Inflight) /\ upd' = Idle
      BY <3>2, Sizes DEF Idle, Versions
    <3>3. CASE /\ UNCHANGED slots
               /\ upd' = [upd EXCEPT !.pc = "drop", !.v = upd.v, !.stale = Stale,
                                     !.bump = Survivors]
      BY <1>2, <3>1, <3>3
    <3> QED
      BY <2>2, <3>2, <3>3
  <2>4. /\ SameTasks /\ slots' \in [Slots -> Rollout \cup {None}]
        /\ (\A s \in Inflight : SlotAt(s))'
    BY <1>1, <1>2, <2>1, <2>3, CommitStep DEF RolloutsInv
  <2>5. (\A g \in Live : GroupAt(g))'
    BY <1>1, <2>4, SameTasksGroups DEF RolloutsInv
  <2>6. (\A g \in Live : WaitingAt(g))'
    BY <1>1, <2>1, <2>2, <2>4, SameTasksWaiting DEF RolloutsInv, Busy
  <2>7. RolloutsInv'
    BY <1>1, <2>1, <2>2, <2>4, <2>5, <2>6, SameTasksCount DEF RolloutsInv, Live
  <2>8. TypeOK'
    BY <1>1, <1>2, <2>1, <2>2, <2>3, <2>4 DEF TypeOK
  <2>9. CountersInv'
    BY <1>1, <2>1, <2>2 DEF CountersInv, UpdateInv
  <2>10. WeightsInv'
    <3>1. pc # "commit" /\ stg.pc = "idle"
      BY <1>1, <2>1 DEF StageInv
    <3> QED
      BY <1>1, <1>2, <2>1, <2>2, <2>3, <3>1 DEF WeightsInv
  <2>11. CapturedInv'
    <3>1. Inflight' = Inflight
      BY <2>4 DEF SameTasks
    <3> QED
      BY <1>1, <2>1, <2>3, <3>1, StaleTypes, FS_EmptySet, Sizes DEF CapturedInv
  <2> QED
    BY <2>7, <2>8, <2>9, <2>10, <2>11 DEF RInv
<1>5. CASE CommitAnswered
  <2>1. /\ pc = "commit" /\ ckptStep' = stg.v /\ stg' = NoStage /\ ready' = TRUE
        /\ UNCHANGED <<published, weights, sent, step, target, watch, progress, attempts,
                       evalFrom, groups, loop, faults>>
        /\ Background /\ stg.v > ckptStep /\ weights = stg.v /\ upd.pc = "idle"
        /\ Delta => stg.v = ckptStep + 1
        /\ upd.stale = {} /\ upd.bump = {}
    BY <1>1, <1>5 DEF CommitAnswered, Reopen, StageInv, WeightsInv, CapturedInv
  <2>2. \/ Stale = {} /\ Bump(Inflight) /\ pc' = "barrier" /\ UNCHANGED upd
        \/ /\ UNCHANGED slots /\ pc' = "joinUpdate"
           /\ upd' = [Idle EXCEPT !.pc = "drop", !.v = stg.v, !.stale = Stale,
                                  !.bump = Survivors]
    BY <1>5 DEF CommitAnswered
  <2>3. /\ \/ Stale = {} /\ Bump(Inflight) /\ upd'.pc = "idle" /\ upd'.bump = {}
              /\ upd'.stale = {} /\ pc' = "barrier"
           \/ /\ UNCHANGED slots /\ upd'.pc = "drop" /\ pc' = "joinUpdate"
              /\ upd'.stale = Stale /\ upd'.bump = Survivors
        /\ upd' \in [pc : {"idle", "start", "wait", "load", "loaded", "drop", "cancel"},
                     v : Versions, cleared : BOOLEAN,
                     stale : SUBSET GroupIds, bump : SUBSET Slots]
    <3>1. Stale \in SUBSET GroupIds /\ Survivors \in SUBSET Slots
      BY <1>1, StaleTypes, TasksTypes
    <3> HIDE DEF Stale, Survivors
    <3>2. CASE Stale = {} /\ Bump(Inflight) /\ pc' = "barrier" /\ UNCHANGED upd
      BY <1>2, <2>1, <3>2
    <3>3. CASE /\ UNCHANGED slots /\ pc' = "joinUpdate"
               /\ upd' = [Idle EXCEPT !.pc = "drop", !.v = stg.v, !.stale = Stale,
                                      !.bump = Survivors]
      BY <1>2, <3>1, <3>3 DEF Idle
    <3> QED
      BY <2>2, <3>2, <3>3
  <2>4. /\ SameTasks /\ slots' \in [Slots -> Rollout \cup {None}]
        /\ (\A s \in Inflight : SlotAt(s))'
    BY <1>1, <1>2, <2>1, <2>3, CommitStep DEF RolloutsInv
  <2>5. (\A g \in Live : GroupAt(g))'
    BY <1>1, <2>4, SameTasksGroups DEF RolloutsInv
  <2>6. (\A g \in Live : WaitingAt(g))'
    BY <1>1, <2>1, <2>4, SameTasksWaiting DEF RolloutsInv
  <2>7. RolloutsInv'
    BY <2>3, <2>4, <2>5, <2>6 DEF RolloutsInv
  <2>8. TypeOK'
    BY <1>1, <1>2, <2>1, <2>3, <2>4, Sizes DEF TypeOK, NoStage, Versions
  <2>9. CountersInv'
    BY <1>1, <2>1, <2>3 DEF CountersInv, StageInv
  <2>10. WeightsInv'
    BY <1>1, <1>2, <2>1, <2>3 DEF WeightsInv, NoStage
  <2>11. CapturedInv'
    <3>1. Inflight' = Inflight
      BY <2>4 DEF SameTasks
    <3> QED
      BY <1>1, <2>1, <2>3, <3>1, StaleTypes, FS_EmptySet, Sizes DEF CapturedInv
  <2> QED
    BY <2>7, <2>8, <2>9, <2>10, <2>11 DEF RInv
<1> QED
  BY <1>3, <1>4, <1>5

(* The suspended accounting of a commit is caught up with. *)
LEMMA CaughtUpRInv == ASSUME FullInv, UpdDone PROVE RInv'
<1>1. /\ TypeOK /\ CountersInv /\ WeightsInv /\ CapturedInv /\ RolloutsInv
      /\ BarrierInv /\ UpdateInv /\ StageInv
  BY DEF FullInv, RInv, SInv
<1>2. /\ upd.pc = "cancel" /\ upd' = Idle /\ Bump(upd.bump) /\ ~Busy
      /\ UNCHANGED <<weightVars, groups, stg, faults, sent, step, target, watch, progress,
                     attempts, evalFrom>>
      /\ pc' = pc \/ (pc = "joinUpdate" /\ pc' = "barrier")
      /\ loop' \in {loop, "poll"}
      /\ upd.stale = {} /\ upd.bump \in SUBSET Inflight /\ weights = ckptStep
  BY <1>1 DEF UpdDone, Joined, CapturedInv, WeightsInv
<1>3. /\ upd'.pc = "idle" /\ upd'.stale = {} /\ upd'.bump = {}
      /\ upd' \in [pc : {"idle", "start", "wait", "load", "loaded", "drop", "cancel"},
                   v : Versions, cleared : BOOLEAN,
                   stale : SUBSET GroupIds, bump : SUBSET Slots]
  BY <1>2, Sizes DEF Idle, Versions
<1>4. /\ SameTasks
      /\ \A s \in Inflight : /\ slots'[s].first = slots[s].first
                             /\ slots'[s].last = slots[s].last
                             /\ slots'[s].off = IF s \in upd.bump THEN slots[s].off + 1
                                                ELSE slots[s].off
  BY <1>1, <1>2, BumpTasks
<1>5. ASSUME NEW s \in Inflight
      PROVE  SlotAt(s)' /\ slots'[s].off <= MaxSteps
  <2>1. /\ slots[s].off \in Nat /\ slots[s].salt \in Nat /\ slots[s].last \in Nat
        /\ SlotAt(s) /\ ckptStep \in Nat /\ ckptStep <= MaxSteps
    BY <1>1, <1>5, SlotTypes, CountersTypes DEF RolloutsInv
  <2>2. Owed(s) = IF s \in upd.bump THEN 1 ELSE 0
    BY <1>2, <2>1 DEF Owed, SlotAt
  <2>3. /\ slots'[s].group = slots[s].group /\ slots'[s].count = slots[s].count
        /\ slots'[s].salt = slots[s].salt /\ slots'[s].first = slots[s].first
        /\ slots'[s].last = slots[s].last /\ slots'[s].off = slots[s].off + Owed(s)
        /\ Live' = Live /\ Owed(s)' = 0
        /\ ckptStep' = ckptStep /\ weights' = weights
    BY <1>2, <1>3, <1>4, <2>1, <2>2, SameTasksCount DEF SameTasks, Owed, weightVars
  <2>4. slots[s].off + Owed(s) <= MaxOff
    BY <2>1, <2>2, Sizes DEF SlotAt
  <2>5. /\ slots'[s].off <= MaxOff
        /\ slots'[s].off + 0 <= ckptStep - slots[s].salt
        /\ Delta => slots'[s].off + 0 = ckptStep - slots[s].salt
    BY <2>1, <2>2, <2>3, <2>4 DEF SlotAt
  <2>6. SlotAt(s)'
    BY <1>3, <2>1, <2>3, <2>5 DEF SlotAt
  <2> QED
    BY <2>1, <2>2, <2>3, <2>5, <2>6, Sizes
<1>6. slots' \in [Slots -> Rollout \cup {None}]
  BY <1>1, <1>2, <1>5, BumpTypes
<1>7. (\A g \in Live : GroupAt(g))'
  BY <1>1, <1>4, SameTasksGroups DEF RolloutsInv
<1>8. (\A g \in Live : WaitingAt(g))'
  BY <1>1, <1>2, <1>4, SameTasksWaiting DEF RolloutsInv, weightVars
<1>9. RolloutsInv'
  BY <1>1, <1>2, <1>4, <1>5, <1>7, <1>8, SameTasksCount DEF RolloutsInv, SameTasks
<1>10. TypeOK'
  BY <1>1, <1>2, <1>3, <1>6 DEF TypeOK, weightVars
<1>11. CountersInv'
  BY <1>1, <1>2 DEF CountersInv, weightVars
<1>12. WeightsInv'
  BY <1>1, <1>2, <1>3 DEF WeightsInv, weightVars
<1>13. CapturedInv'
  BY <1>1, <1>3, FS_EmptySet, Sizes DEF CapturedInv
<1> QED
  BY <1>9, <1>10, <1>11, <1>12, <1>13 DEF RInv

(* A rollout comes back. *)
LEMMA FinishRInv ==
  ASSUME FullInv, NEW s0 \in Slots, NEW out \in Outcomes, Finish(s0, out)
  PROVE  RInv'
<1>1. TypeOK /\ CountersInv /\ WeightsInv /\ CapturedInv /\ RolloutsInv
  BY DEF FullInv, RInv
<1>2. /\ slots' = [slots EXCEPT ![s0].state = out, ![s0].last = weights]
      /\ s0 \in Inflight
      /\ UNCHANGED <<mainVars, weightVars, groups, loop, upd, stg>>
      /\ faults' \in 0..MaxFaults
  BY <1>1, Sizes DEF Finish, Inflight, TypeOK
<1>3. ASSUME NEW s \in Slots
      PROVE  slots'[s] = IF s = s0 THEN [slots[s] EXCEPT !.state = out, !.last = weights]
                         ELSE slots[s]
  BY <1>1, <1>2 DEF TypeOK
<1>4. ASSUME NEW s \in Inflight
      PROVE  /\ slots'[s].group = slots[s].group /\ slots'[s].count = slots[s].count
             /\ slots'[s].salt = slots[s].salt /\ slots'[s].first = slots[s].first
             /\ slots'[s].off = slots[s].off
             /\ slots'[s].last \in {slots[s].last, weights}
             /\ slots'[s] \in Rollout /\ slots'[s] # None
  <2>1. s \in Slots /\ slots[s] \in Rollout /\ weights \in Versions
    BY <1>1, <1>4, SlotTypes DEF TypeOK
  <2>2. /\ slots'[s].group = slots[s].group /\ slots'[s].count = slots[s].count
        /\ slots'[s].salt = slots[s].salt /\ slots'[s].first = slots[s].first
        /\ slots'[s].off = slots[s].off
        /\ slots'[s].last \in {slots[s].last, weights}
        /\ slots'[s] \in Rollout
    BY <1>3, <2>1 DEF Rollout, Outcomes
  <2> QED
    BY <2>2, NoneIsNone
<1>5. \A s \in Slots : s \notin Inflight => slots'[s] = None
  BY <1>2, <1>3 DEF Inflight
<1>6. Inflight' = Inflight
  BY <1>4, <1>5 DEF Inflight
<1>7. SameTasks
  BY <1>2, <1>4, <1>6 DEF SameTasks
<1>8. slots' \in [Slots -> Rollout \cup {None}]
  <2>1. \A s \in Slots : slots'[s] \in Rollout \cup {None}
    BY <1>4, <1>5
  <2> QED
    BY <1>1, <1>2, <2>1 DEF TypeOK
<1>9. ASSUME NEW s \in Inflight
      PROVE  SlotAt(s)'
  <2>1. /\ SlotAt(s) /\ Owed(s)' = Owed(s) /\ Live' = Live /\ weights \in Nat
        /\ weights' = weights /\ ckptStep' = ckptStep /\ upd' = upd
    BY <1>1, <1>2, <1>4, <1>9, <1>7, SameTasksCount, CountersTypes
       DEF Owed, RolloutsInv, weightVars
  <2> QED
    BY <1>4, <2>1 DEF SlotAt
<1>10. (\A g \in Live : GroupAt(g))'
  BY <1>1, <1>7, SameTasksGroups DEF RolloutsInv
<1>11. (\A g \in Live : WaitingAt(g))'
  BY <1>1, <1>2, <1>7, SameTasksWaiting DEF RolloutsInv, weightVars, mainVars
<1>12. RolloutsInv'
  BY <1>1, <1>2, <1>6, <1>7, <1>9, <1>10, <1>11, SameTasksCount DEF RolloutsInv, mainVars
<1>13. TypeOK'
  BY <1>1, <1>2, <1>8 DEF TypeOK, weightVars, mainVars
<1>14. CountersInv' /\ WeightsInv'
  BY <1>1, <1>2 DEF CountersInv, WeightsInv, weightVars, mainVars
<1>15. CapturedInv'
  BY <1>1, <1>2, <1>6 DEF CapturedInv, mainVars
<1> QED
  BY <1>12, <1>13, <1>14, <1>15 DEF RInv

---------------------------------------------------------------------------
(* Tasks leave: with their group, or one by one *)

LEMMA FreedTasks ==
  ASSUME TypeOK, NEW D \in SUBSET Slots, Freed(D)
  PROVE  /\ Inflight' = Inflight \ D
         /\ slots' \in [Slots -> Rollout \cup {None}]
         /\ \A s \in Slots : s \notin D => slots'[s] = slots[s]
         /\ \A g : TasksOf(g)' = TasksOf(g) \ D
<1>1. \A s \in Slots : slots'[s] = IF s \in D THEN None ELSE slots[s]
  BY DEF Freed
<1>2. Inflight' = Inflight \ D
  BY <1>1 DEF Inflight
<1>3. slots' \in [Slots -> Rollout \cup {None}]
  BY DEF Freed, TypeOK
<1>4. \A g : TasksOf(g)' = TasksOf(g) \ D
  BY <1>1, <1>2 DEF TasksOf, Inflight
<1> QED
  BY <1>1, <1>2, <1>3, <1>4

LEMMA FreedCount ==
  ASSUME TypeOK, NEW D \in SUBSET Slots, Freed(D)
  PROVE  /\ Capacity' \in Int /\ Capacity \in Int /\ Capacity' >= Capacity
         /\ \A g : TasksOf(g) \cap D = {} => /\ TasksOf(g)' = TasksOf(g)
                                             /\ Count(TasksOf(g))' = Count(TasksOf(g))
<1>1. /\ Inflight' = Inflight \ D /\ \A s \in Slots : s \notin D => slots'[s] = slots[s]
      /\ \A g : TasksOf(g)' = TasksOf(g) \ D
  BY FreedTasks
<1>2. ASSUME NEW S \in SUBSET Slots, S \cap D = {}
      PROVE  Pairs(slots', S) = Pairs(slots, S)
  <2>1. \A s \in S : slots'[s].count = slots[s].count
    BY <1>1, <1>2
  <2> QED
    BY <2>1, PairsSame
<1>3. \A S : Count(S)' = Cardinality(Pairs(slots', S'))
  BY DEF Count, Rollouts, Pairs
<1>4. ASSUME NEW g, TasksOf(g) \cap D = {}
      PROVE  TasksOf(g)' = TasksOf(g) /\ Count(TasksOf(g))' = Count(TasksOf(g))
  <2>1. TasksOf(g)' = TasksOf(g)
    BY <1>1, <1>4
  <2>2. Pairs(slots', TasksOf(g)) = Pairs(slots, TasksOf(g))
    BY <1>2, <1>4, TasksTypes
  <2>3. Count(TasksOf(g))' = Cardinality(Pairs(slots', TasksOf(g)'))
    BY DEF Count, Rollouts, Pairs
  <2> QED
    BY <2>1, <2>2, <2>3, CountIsPairs
<1>5. Capacity' \in Int /\ Capacity \in Int /\ Capacity' >= Capacity
  <2>1. Inflight \ D \in SUBSET Inflight /\ Inflight \ D \in SUBSET Slots /\ Inflight \in SUBSET Slots
    BY TasksTypes
  <2>2. Pairs(slots', Inflight \ D) = Pairs(slots, Inflight \ D)
    BY <1>2, <2>1
  <2>3. /\ Cardinality(Pairs(slots, Inflight \ D)) <= Cardinality(Pairs(slots, Inflight))
        /\ Cardinality(Pairs(slots, Inflight \ D)) \in Nat
        /\ Cardinality(Pairs(slots, Inflight)) \in Nat
    BY <2>1, PairsMono, PairsFinite
  <2>4. Capacity' = MaxInflight - Cardinality(Pairs(slots', Inflight \ D))
    BY <1>1 DEF Capacity, Count, Rollouts, Pairs
  <2>5. Capacity = MaxInflight - Cardinality(Pairs(slots, Inflight))
    BY DEF Capacity, Count, Rollouts, Pairs
  <2> QED
    BY <2>2, <2>3, <2>4, <2>5, Sizes
<1> QED
  BY <1>4, <1>5

(* What a suspended update owes the tasks that stay does not change. *)
LEMMA FreedSlots ==
  ASSUME TypeOK, \A s \in Inflight : SlotAt(s), NEW D \in SUBSET Slots, Freed(D),
         UNCHANGED <<ckptStep, weights>>,
         \A s \in Inflight \ D : slots[s].group \in Live',
         upd'.bump = upd.bump \ D,
         \/ upd'.pc = upd.pc /\ upd'.stale = upd.stale
         \/ /\ upd.pc = "drop" /\ upd'.pc = "cancel" /\ upd'.stale = {}
            /\ \A s \in Inflight \ D : slots[s].group \notin upd.stale
  PROVE  (\A s \in Inflight : SlotAt(s))'
<1>1. SUFFICES ASSUME NEW s \in Inflight \ D
               PROVE  SlotAt(s)'
  BY FreedTasks
<1>2. slots'[s] = slots[s] /\ SlotAt(s)
  BY <1>1, FreedTasks, TasksTypes
<1>3. Owed(s)' = Owed(s)
  BY <1>1, <1>2 DEF Owed
<1>4. s \in upd'.bump => s \in upd.bump /\ (slots[s].group \in upd'.stale => slots[s].group \in upd.stale)
  BY <1>1
<1> QED
  BY <1>1, <1>2, <1>3, <1>4 DEF SlotAt

LEMMA FreedGroup ==
  ASSUME TypeOK, NEW D \in SUBSET Slots, Freed(D),
         NEW g \in Live, GroupAt(g), groups'[g] = groups[g], TasksOf(g) \cap D = {}
  PROVE  GroupAt(g)'
<1>1. /\ TasksOf(g)' = TasksOf(g) /\ Count(TasksOf(g))' = Count(TasksOf(g))
  BY FreedCount
<1>2. \A s \in TasksOf(g) : slots'[s] = slots[s]
  BY FreedTasks, TasksTypes
<1> QED
  BY <1>1, <1>2 DEF GroupAt

LEMMA FreedWaiting ==
  ASSUME TypeOK, \A g \in Live : WaitingAt(g), NEW D \in SUBSET Slots, Freed(D),
         \A g \in Live' : g \in Live /\ groups'[g] = groups[g] /\ TasksOf(g) \cap D = {},
         UNCHANGED <<sent, ckptStep>>,
         pc \in {"fill", "acquire"} => pc' = pc
  PROVE  (\A g \in Live : WaitingAt(g))'
<1>1. SUFFICES ASSUME NEW g \in Live'
               PROVE  WaitingAt(g)'
  OBVIOUS
<1>2. /\ g \in Live /\ groups'[g] = groups[g] /\ TasksOf(g) \cap D = {} /\ WaitingAt(g)
      /\ groups[g].to \in Nat
  BY <1>1, GroupTypes
<1>3. /\ TasksOf(g)' = TasksOf(g) /\ Capacity' \in Int /\ Capacity \in Int
      /\ Capacity' >= Capacity
  BY <1>2, FreedCount
<1>4. \A s \in TasksOf(g) : slots'[s] = slots[s]
  BY <1>2, FreedTasks, TasksTypes
<1>5. \A h \in Live' : h \in Live /\ groups'[h] = groups[h]
  OBVIOUS
<1> QED
  BY <1>2, <1>3, <1>4, <1>5 DEF WaitingAt

(* Every action that drops groups does this. *)
LEMMA DropRInv ==
  ASSUME FullInv, TypeOK', NEW D \in SUBSET Slots, Freed(D),
         UNCHANGED <<weightVars, stg, sent, attempts, target>>,
         \A g \in Live' : g \in Live /\ groups'[g] = groups[g] /\ TasksOf(g) \cap D = {},
         \A s \in Inflight \ D : slots[s].group \in Live',
         upd'.bump = upd.bump \ D, upd'.v = upd.v,
         \/ upd'.pc = upd.pc /\ upd'.stale = upd.stale
         \/ /\ upd.pc = "drop" /\ upd'.pc = "cancel" /\ upd'.stale = {}
            /\ \A s \in Inflight \ D : slots[s].group \notin upd.stale,
         \/ pc' = pc
         \/ pc = "process" /\ pc' \in {"process", "dropping"}
         \/ pc = "clear" /\ pc' = "eval"
  PROVE  RInv'
<1>1. /\ TypeOK /\ CountersInv /\ WeightsInv /\ CapturedInv /\ RolloutsInv
  BY DEF FullInv, RInv
<1>2. (\A s \in Inflight : SlotAt(s))'
  BY <1>1, FreedSlots DEF RolloutsInv, weightVars
<1>3. (\A g \in Live : GroupAt(g))'
  <2>1. SUFFICES ASSUME NEW g \in Live' PROVE GroupAt(g)'
    OBVIOUS
  <2>2. g \in Live /\ groups'[g] = groups[g] /\ TasksOf(g) \cap D = {} /\ GroupAt(g)
    BY <1>1, <2>1 DEF RolloutsInv
  <2> QED
    BY <1>1, <2>2, FreedGroup
<1>4. (\A g \in Live : WaitingAt(g))'
  BY <1>1, FreedWaiting DEF RolloutsInv, weightVars
<1>5. RolloutsInv'
  BY <1>1, <1>2, <1>3, <1>4 DEF RolloutsInv
<1>6. CountersInv' /\ WeightsInv'
  BY <1>1 DEF CountersInv, WeightsInv, weightVars
<1>7. CapturedInv'
  <2>1. Inflight' = Inflight \ D
    BY <1>1, FreedTasks
  <2>2. Cardinality(upd'.stale) <= MaxInflight
    <3>1. upd'.stale = upd.stale \/ upd'.stale = {}
      OBVIOUS
    <3>2. Cardinality({}) <= MaxInflight
      BY FS_EmptySet, Sizes
    <3>3. Cardinality(upd.stale) <= MaxInflight
      BY <1>1 DEF CapturedInv
    <3> QED
      BY <3>1, <3>2, <3>3
  <2> QED
    BY <1>1, <2>1, <2>2 DEF CapturedInv
<1> QED
  BY <1>5, <1>6, <1>7 DEF RInv

LEMMA DropsRInv ==
  ASSUME FullInv,
         UpdDrop \/ EvalCleared \/ \E s \in Slots : TakeRaised(s)
  PROVE  RInv'
<1>1. /\ TypeOK /\ CountersInv /\ WeightsInv /\ CapturedInv /\ RolloutsInv
      /\ BarrierInv /\ UpdateInv
  BY DEF FullInv, RInv, SInv
<1>2. upd \in [pc : {"idle", "start", "wait", "load", "loaded", "drop", "cancel"},
               v : Versions, cleared : BOOLEAN,
               stale : SUBSET GroupIds, bump : SUBSET Slots]
  BY <1>1 DEF TypeOK
<1>3. ASSUME NEW G \in SUBSET GroupIds, DropGroups(G)
      PROVE  LET D == UNION {TasksOf(g) : g \in G}
             IN  /\ D \in SUBSET Slots /\ Freed(D)
                 /\ slots' \in [Slots -> Rollout \cup {None}]
                 /\ groups' \in [GroupIds -> Group \cup {None}]
                 /\ \A g \in Live' : /\ g \in Live /\ groups'[g] = groups[g]
                                     /\ TasksOf(g) \cap D = {}
                 /\ \A s \in Inflight \ D : slots[s].group \in Live' /\ slots[s].group \notin G
  <2> DEFINE D == UNION {TasksOf(g) : g \in G}
  <2>1. D \in SUBSET Slots /\ Freed(D)
    BY <1>3, TasksTypes DEF DropGroups
  <2>2. slots' \in [Slots -> Rollout \cup {None}]
    BY <1>1, <2>1, FreedTasks
  <2>3. groups' = [g \in GroupIds |-> IF g \in G THEN None ELSE groups[g]]
    BY <1>3 DEF DropGroups
  <2>4. groups' \in [GroupIds -> Group \cup {None}]
    BY <1>1, <2>3 DEF TypeOK
  <2>5. Live' = Live \ G /\ \A g \in Live' : groups'[g] = groups[g]
    BY <2>3 DEF Live
  <2>6. \A g \in Live' : TasksOf(g) \cap D = {}
    BY <2>5 DEF TasksOf
  <2>7. \A s \in Inflight \ D : slots[s].group \notin G
    BY DEF TasksOf
  <2>8. \A s \in Inflight \ D : slots[s].group \in Live'
    BY <1>1, <2>5, <2>7 DEF RolloutsInv, SlotAt
  <2> QED
    BY <2>1, <2>2, <2>4, <2>5, <2>6, <2>7, <2>8
<1>4. CASE UpdDrop
  <2> DEFINE D == UNION {TasksOf(g) : g \in upd.stale}
  <2>1. /\ upd.pc = "drop" /\ DropGroups(upd.stale) /\ upd.stale \in SUBSET GroupIds
        /\ upd' = [upd EXCEPT !.pc = "cancel", !.stale = {}]
        /\ UNCHANGED <<mainVars, weightVars, loop, stg, faults>>
    BY <1>2, <1>4 DEF UpdDrop
  <2>2. upd.bump \cap D = {}
    BY <1>1 DEF CapturedInv, RolloutsInv, SlotAt, TasksOf
  <2>3. /\ D \in SUBSET Slots /\ Freed(D)
        /\ slots' \in [Slots -> Rollout \cup {None}]
        /\ groups' \in [GroupIds -> Group \cup {None}]
        /\ \A g \in Live' : g \in Live /\ groups'[g] = groups[g] /\ TasksOf(g) \cap D = {}
        /\ \A s \in Inflight \ D : slots[s].group \in Live' /\ slots[s].group \notin upd.stale
    BY <1>3, <2>1
  <2> HIDE DEF D
  <2>4. /\ upd'.pc = "cancel" /\ upd'.stale = {} /\ upd'.bump = upd.bump \ D /\ upd'.v = upd.v
        /\ upd' \in [pc : {"idle", "start", "wait", "load", "loaded", "drop", "cancel"},
                     v : Versions, cleared : BOOLEAN,
                     stale : SUBSET GroupIds, bump : SUBSET Slots]
    BY <1>2, <2>1, <2>2
  <2>5. TypeOK'
    BY <1>1, <2>1, <2>3, <2>4 DEF TypeOK, mainVars, weightVars
  <2> QED
    BY <2>1, <2>3, <2>4, <2>5, DropRInv DEF mainVars
<1>5. CASE EvalCleared
  <2>1. Freed(Slots) /\ Live' = {} /\ Inflight \ Slots = {}
    BY <1>5 DEF EvalCleared, Freed, Live, Inflight
  <2>2. /\ upd' = [upd EXCEPT !.bump = {}] /\ pc = "clear" /\ pc' = "eval"
        /\ UNCHANGED <<sent, step, target, watch, progress, attempts, weightVars, loop, stg, faults>>
        /\ groups' \in [GroupIds -> Group \cup {None}] /\ evalFrom' \in Versions
    BY <1>1, <1>5 DEF EvalCleared, TypeOK
  <2>3. /\ upd'.pc = upd.pc /\ upd'.stale = upd.stale /\ upd'.bump = {} /\ upd'.v = upd.v
        /\ upd' \in [pc : {"idle", "start", "wait", "load", "loaded", "drop", "cancel"},
                     v : Versions, cleared : BOOLEAN,
                     stale : SUBSET GroupIds, bump : SUBSET Slots]
    BY <1>2, <2>2
  <2>4. upd'.bump = upd.bump \ Slots
    BY <1>2, <2>3
  <2>5. slots' \in [Slots -> Rollout \cup {None}]
    BY <1>1, <2>1, FreedTasks
  <2>6. TypeOK'
    BY <1>1, <2>2, <2>3, <2>5 DEF TypeOK, weightVars
  <2> QED
    BY <2>1, <2>2, <2>3, <2>4, <2>6, DropRInv
<1>6. ASSUME NEW s \in Slots, TakeRaised(s)
      PROVE  RInv'
  <2> DEFINE g == slots[s].group
             D == UNION {TasksOf(h) : h \in {g}}
  <2>1. /\ s \in Inflight /\ DropGroup(g) /\ Forgotten(TasksOf(g)) /\ pc = "process"
        /\ pc' \in {"process", "dropping"} /\ watch' \subseteq Slots
        /\ UNCHANGED <<sent, step, target, progress, attempts, evalFrom, weightVars, loop, stg,
                       faults>>
    BY <1>1, <1>6 DEF TakeRaised, Taking, Inflight, TypeOK
  <2>2. {g} \in SUBSET GroupIds
    BY <1>1, <2>1, SlotTypes
  <2>3. /\ D \in SUBSET Slots /\ Freed(D)
        /\ slots' \in [Slots -> Rollout \cup {None}]
        /\ groups' \in [GroupIds -> Group \cup {None}]
        /\ \A h \in Live' : h \in Live /\ groups'[h] = groups[h] /\ TasksOf(h) \cap D = {}
        /\ \A t \in Inflight \ D : slots[t].group \in Live'
    BY <1>3, <2>1, <2>2 DEF DropGroup
  <2>4. TasksOf(g) = D
    OBVIOUS
  <2> HIDE DEF D, g
  <2>5. upd' = [upd EXCEPT !.bump = upd.bump \ D]
    BY <2>1, <2>4 DEF Forgotten
  <2>6. /\ upd'.pc = upd.pc /\ upd'.stale = upd.stale /\ upd'.bump = upd.bump \ D /\ upd'.v = upd.v
        /\ upd' \in [pc : {"idle", "start", "wait", "load", "loaded", "drop", "cancel"},
                     v : Versions, cleared : BOOLEAN,
                     stale : SUBSET GroupIds, bump : SUBSET Slots]
    BY <1>2, <2>5
  <2>7. TypeOK'
    BY <1>1, <2>1, <2>3, <2>6 DEF TypeOK, weightVars
  <2> QED
    BY <2>1, <2>3, <2>6, <2>7, DropRInv
<1> QED
  BY <1>4, <1>5, <1>6

(* Without the task s, its group has that many rollouts less in flight. *)
LEMMA TakenCount ==
  ASSUME FullInv, NEW s \in Inflight
  PROVE  LET T == TasksOf(slots[s].group)
         IN  /\ T \in SUBSET Slots /\ s \in T
             /\ Count(T) = Cardinality(Pairs(slots, T \ {s})) + slots[s].count
             /\ Cardinality(Pairs(slots, T \ {s})) \in Nat
             /\ Cardinality(Pairs(slots, T \ {s})) = 0 => T = {s}
<1> DEFINE T == TasksOf(slots[s].group)
<1>1. /\ T \in SUBSET Slots /\ s \in T /\ T \ {s} \in SUBSET Slots /\ s \in Slots \ (T \ {s})
      /\ \A t \in T : slots[t].count \in 1..GroupSize
  <2>1. /\ T \in SUBSET Inflight /\ s \in T
    BY DEF TasksOf
  <2> QED
    BY <2>1, SlotTypes, TasksTypes DEF FullInv, RInv
<1> HIDE DEF T
<1>2. (T \ {s}) \cup {s} = T
  BY <1>1
<1>3. Cardinality(Pairs(slots, T)) = Cardinality(Pairs(slots, T \ {s})) + slots[s].count
  <2>1. slots[s].count \in 1..GroupSize
    BY <1>1
  <2>2. Cardinality(Pairs(slots, (T \ {s}) \cup {s}))
          = Cardinality(Pairs(slots, T \ {s})) + slots[s].count
    BY <1>1, <2>1, PairsAdd
  <2> QED
    BY <1>2, <2>2
<1>4. Cardinality(Pairs(slots, T \ {s})) \in Nat
  BY <1>1, PairsFinite
<1>5. ASSUME Cardinality(Pairs(slots, T \ {s})) = 0
      PROVE  T = {s}
  <2>1. Cardinality(T \ {s}) <= Cardinality(Pairs(slots, T \ {s}))
    BY <1>1, PairsAtLeast
  <2>2. IsFiniteSet(T \ {s}) /\ Cardinality(T \ {s}) \in Nat
    BY <1>1, SlotsFinite
  <2>3. Cardinality(T \ {s}) = 0
    BY <1>5, <2>1, <2>2
  <2>4. T \ {s} = {}
    BY <2>2, <2>3, FS_EmptySet
  <2> QED
    BY <1>1, <2>4
<1> QED
  BY <1>1, <1>3, <1>4, <1>5, CountIsPairs DEF T

LEMMA TallyCounts ==
  ASSUME FullInv, NEW s \in Inflight, slots[s].state \in {"ok", "bad"}, pc = "process"
  PROVE  LET g == slots[s].group  G == groups[g]
             T == TasksOf(g)  rest == Cardinality(Pairs(slots, T \ {s}))
         IN  /\ g \in Live /\ G.to = 0 /\ rest \in Nat
             /\ rest + slots[s].count + G.done + G.failed = GroupSize
             /\ Tally(s) \in Group /\ Tally(s).to = 0
             /\ slots[s].state = "ok" => /\ Tally(s).done = G.done + slots[s].count
                                         /\ Tally(s).failed = G.failed
                                         /\ Tally(s).oldest \in {G.oldest, slots[s].first}
             /\ slots[s].state = "bad" => /\ Tally(s).done = G.done
                                          /\ Tally(s).failed = G.failed + 1
                                          /\ Tally(s).oldest = G.oldest
<1> DEFINE g == slots[s].group
           G == groups[g]
           rest == Cardinality(Pairs(slots, TasksOf(g) \ {s}))
<1>1. TypeOK /\ RolloutsInv
  BY DEF FullInv, RInv
<1>2. /\ SlotAt(s) /\ g \in Live /\ slots[s].count \in Nat /\ slots[s].count >= 1
      /\ slots[s].first \in Versions
  BY <1>1, SlotTypes DEF RolloutsInv, SlotAt
<1>3. GroupAt(g) /\ G.to = 0
  BY <1>1, <1>2, NobodyWaits DEF RolloutsInv
<1>4. /\ G \in Group /\ G.done \in Nat /\ G.failed \in Nat /\ G.oldest \in Versions
      /\ G.oldest \in Nat
  BY <1>1, <1>2, GroupTypes
<1>5. /\ rest \in Nat /\ Count(TasksOf(g)) = rest + slots[s].count
  BY TakenCount
<1>6. rest + slots[s].count + G.done + G.failed = GroupSize
  BY <1>3, <1>4, <1>5, <1>2, Sizes DEF GroupAt
<1> HIDE DEF rest
<1>7. /\ slots[s].state = "ok" => G.done + slots[s].count \in 0..GroupSize
      /\ G.failed + 1 \in 0..GroupSize
  BY <1>2, <1>4, <1>5, <1>6, Sizes
<1>8. Min({G.oldest, slots[s].first}) \in {G.oldest, slots[s].first}
  <2>1. G.oldest \in Int /\ slots[s].first \in Int
    BY <1>2, <1>4, Sizes
  <2> QED
    BY <2>1, MinPair
<1>9. Tally(s) = [G EXCEPT !.done   = IF slots[s].state = "ok" THEN @ + slots[s].count ELSE @,
                           !.failed = IF slots[s].state = "ok" THEN @ ELSE @ + 1,
                           !.oldest = IF slots[s].state = "ok" THEN Min({@, slots[s].first})
                                      ELSE @]
  BY DEF Tally
<1> HIDE DEF g, G
<1>10. /\ Tally(s) \in Group /\ Tally(s).to = G.to
       /\ slots[s].state = "ok" => /\ Tally(s).done = G.done + slots[s].count
                                   /\ Tally(s).failed = G.failed
                                   /\ Tally(s).oldest \in {G.oldest, slots[s].first}
       /\ slots[s].state = "bad" => /\ Tally(s).done = G.done
                                    /\ Tally(s).failed = G.failed + 1
                                    /\ Tally(s).oldest = G.oldest
  <2>1. CASE slots[s].state = "ok"
    <3>1. Tally(s) = [G EXCEPT !.done = G.done + slots[s].count, !.failed = G.failed,
                               !.oldest = Min({G.oldest, slots[s].first})]
      BY <1>9, <2>1, <1>4 DEF Group
    <3>2. G.done + slots[s].count \in 0..GroupSize /\ Min({G.oldest, slots[s].first}) \in Versions
      BY <1>2, <1>4, <1>7, <1>8, <2>1
    <3> QED
      BY <1>4, <1>8, <2>1, <3>1, <3>2 DEF Group
  <2>2. CASE slots[s].state # "ok"
    <3>1. Tally(s) = [G EXCEPT !.done = G.done, !.failed = G.failed + 1, !.oldest = G.oldest]
      BY <1>9, <2>2, <1>4 DEF Group
    <3> QED
      BY <1>4, <1>7, <2>2, <3>1 DEF Group
  <2> QED
    BY <2>1, <2>2
<1> QED
  BY <1>2, <1>3, <1>5, <1>6, <1>10 DEF g, G, rest

LEMMA TalliedRInv ==
  ASSUME FullInv, NEW s \in Slots, TakeTallied(s)
  PROVE  RInv'
<1> DEFINE g == slots[s].group
           G == Tally(s)
           over == Complete(G) \/ Abandoned(slots[s])
           rest == Cardinality(Pairs(slots, TasksOf(g) \ {s}))
<1>1. TypeOK /\ CountersInv /\ WeightsInv /\ CapturedInv /\ RolloutsInv
  BY DEF FullInv, RInv
<1>2. /\ s \in Inflight /\ pc = "process" /\ slots[s].state \in {"ok", "bad"}
      /\ groups' = [groups EXCEPT ![g] = IF over THEN None ELSE G]
      /\ Freed({s}) /\ upd' = [upd EXCEPT !.bump = upd.bump \ {s}]
      /\ watch' \subseteq Slots /\ faults' \in 0..MaxFaults
      /\ progress' \in {progress, progress + G.done} /\ progress < BatchSize
      /\ UNCHANGED <<pc, sent, step, target, attempts, evalFrom, weightVars, loop, stg>>
  BY <1>1, Sizes DEF TakeTallied, Taking, Inflight, TypeOK, Forgotten
<1>3. /\ g \in Live /\ groups[g].to = 0 /\ rest \in Nat
      /\ rest + slots[s].count + groups[g].done + groups[g].failed = GroupSize
      /\ G \in Group /\ G.to = 0
      /\ slots[s].state = "ok" => /\ G.done = groups[g].done + slots[s].count
                                  /\ G.failed = groups[g].failed
                                  /\ G.oldest \in {groups[g].oldest, slots[s].first}
      /\ slots[s].state = "bad" => /\ G.done = groups[g].done
                                   /\ G.failed = groups[g].failed + 1
                                   /\ G.oldest = groups[g].oldest
  BY <1>2, TallyCounts
<1>4. /\ SlotAt(s) /\ GroupAt(g) /\ slots[s].count \in Nat
      /\ slots[s].count = IF GroupScored THEN GroupSize ELSE 1
      /\ groups[g].done \in Nat /\ groups[g].failed \in Nat
      /\ G.done \in 0..GroupSize /\ G.failed \in 0..GroupSize
  BY <1>1, <1>2, <1>3, SlotTypes, GroupTypes DEF RolloutsInv, SlotAt, Group
<1>5. over => TasksOf(g) = {s}
  <2>1. Complete(G) <=> G.done + G.failed = GroupSize
    BY DEF Complete
  <2>2. Abandoned(slots[s]) <=> GroupScored /\ slots[s].state = "bad"
    BY DEF Abandoned
  <2> HIDE DEF G
  <2>3. over => rest = 0
    <3> HIDE DEF g, rest
    <3> QED
      BY <1>2, <1>3, <1>4, <2>1, <2>2, Sizes
  <2> QED
    BY <1>2, <2>3, TakenCount
<1>6. /\ upd'.pc = upd.pc /\ upd'.stale = upd.stale /\ upd'.bump = upd.bump \ {s}
      /\ upd'.v = upd.v
      /\ upd' \in [pc : {"idle", "start", "wait", "load", "loaded", "drop", "cancel"},
                   v : Versions, cleared : BOOLEAN,
                   stale : SUBSET GroupIds, bump : SUBSET Slots]
  BY <1>1, <1>2 DEF TypeOK
<1>7. slots' \in [Slots -> Rollout \cup {None}]
  BY <1>1, <1>2, FreedTasks
<1>8. /\ groups' \in [GroupIds -> Group \cup {None}]
      /\ \A h \in GroupIds : groups'[h] = IF h = g THEN IF over THEN None ELSE G ELSE groups[h]
      /\ g \in GroupIds
  <2>1. g \in GroupIds
    BY <1>1, <1>3, GroupTypes
  <2> HIDE DEF g, G, over
  <2> QED
    BY <1>1, <1>2, <1>3, <2>1 DEF TypeOK
<1>9. Live' = IF over THEN Live \ {g} ELSE Live
  <2>1. G # None
    BY <1>3, NoneIsNone
  <2> HIDE DEF g, G, over
  <2> QED
    BY <1>3, <1>8, <2>1 DEF Live
<1>10. \A h \in Live' : h # g => h \in Live /\ groups'[h] = groups[h] /\ TasksOf(h) \cap {s} = {}
  <2>1. \A h \in Live' : h # g => h \in Live /\ groups'[h] = groups[h]
    <3> HIDE DEF g, G, over
    <3> QED
      BY <1>8, <1>9 DEF Live
  <2> QED
    BY <2>1 DEF TasksOf
<1>11. \A t \in Inflight \ {s} : slots[t].group \in Live'
  <2>1. \A t \in Inflight : slots[t].group \in Live
    BY <1>1 DEF RolloutsInv, SlotAt
  <2>2. over => \A t \in Inflight \ {s} : slots[t].group # g
    BY <1>5 DEF TasksOf
  <2> HIDE DEF g, over
  <2> QED
    BY <1>9, <2>1, <2>2
<1>12. progress' \in 0..(BatchSize + GroupSize - 1)
  <2> HIDE DEF G
  <2>1. progress \in Nat
    BY <1>1, Sizes DEF TypeOK
  <2> QED
    BY <1>2, <1>4, <2>1, Sizes
<1>13. TypeOK'
  <2> HIDE DEF G, over, g
  <2> QED
    BY <1>1, <1>2, <1>6, <1>7, <1>8, <1>12 DEF TypeOK, weightVars
<1>14. CASE over
  <2>1. \A h \in Live' : h \in Live /\ groups'[h] = groups[h] /\ TasksOf(h) \cap {s} = {}
    BY <1>9, <1>10, <1>14
  <2>2. {s} \in SUBSET Slots
    OBVIOUS
  <2> HIDE DEF G, over, g
  <2> QED
    BY <1>2, <1>6, <1>11, <1>13, <2>1, <2>2, DropRInv
<1>15. CASE ~over
  <2>1. ~GroupScored /\ slots[s].count = 1 /\ G.done + G.failed < GroupSize
    <3>1. G.done + G.failed # GroupSize /\ ~(GroupScored /\ slots[s].state = "bad")
      BY <1>15 DEF Complete, Abandoned
    <3> HIDE DEF G, over, g, rest
    <3> QED
      BY <1>2, <1>3, <1>4, <3>1, Sizes
  <2>2. {s} \in SUBSET Slots /\ Live' = Live
    BY <1>9, <1>15
  <2>3. ASSUME NEW h, h = g
        PROVE  GroupAt(h)'
    <3> DEFINE T == TasksOf(g)
    <3>1. TasksOf(h)' = T \ {s} /\ T \in SUBSET Slots /\ s \in T
      BY <1>1, <1>2, <2>2, <2>3, FreedTasks, TasksTypes DEF TasksOf
    <3>2. \A t \in T \ {s} : slots'[t] = slots[t]
      BY <1>1, <1>2, <2>2, <3>1, FreedTasks
    <3>3. Count(TasksOf(h))' = rest
      <4>1. Count(TasksOf(h))' = Cardinality(Pairs(slots', TasksOf(h)'))
        BY DEF Count, Rollouts, Pairs
      <4>2. Pairs(slots', T \ {s}) = Pairs(slots, T \ {s})
        BY <3>2, PairsSame
      <4> QED
        BY <3>1, <4>1, <4>2
    <3>4. groups'[h] = G
      BY <1>8, <1>15, <2>3
    <3>5. G.to + rest + G.done + G.failed = GroupSize
      <4> HIDE DEF G, g, rest
      <4> QED
        BY <1>2, <1>3, <1>4, <2>1, Sizes
    <3>6. G.done = 0 => G.oldest = MaxSteps
      <4>1. groups[g].done = 0 => groups[g].oldest = MaxSteps
        BY <1>4 DEF GroupAt
      <4> HIDE DEF G, g
      <4> QED
        BY <1>2, <1>3, <1>4, <2>1, <4>1
    <3>7. ASSUME NEW t \in T \ {s}
          PROVE  slots[t].salt <= G.oldest + Slack
      <4>1. /\ slots[t].salt <= slots[s].salt + Slack /\ slots[t].salt <= groups[g].oldest + Slack
        BY <1>4, <3>1 DEF GroupAt
      <4>2. slots[s].salt <= slots[s].first
        BY <1>4 DEF SlotAt
      <4>3. /\ slots[t].salt \in Nat /\ slots[s].salt \in Nat /\ slots[s].first \in Nat
            /\ groups[g].oldest \in Nat
        BY <1>1, <1>2, <1>3, SlotTypes, GroupTypes DEF TasksOf
      <4>4. G.oldest \in {groups[g].oldest, slots[s].first}
        BY <1>2, <1>3
      <4> HIDE DEF G, g, T
      <4> QED
        BY <4>1, <4>2, <4>3, <4>4, Sizes
    <3>8. \A t, u \in T \ {s} : slots[t].salt <= slots[u].salt + Slack
      BY <1>4 DEF GroupAt
    <3> HIDE DEF G, rest, over, T
    <3> QED
      BY <2>1, <3>1, <3>2, <3>3, <3>4, <3>5, <3>6, <3>7, <3>8 DEF GroupAt
  <2>4. ASSUME NEW h \in Live
        PROVE  GroupAt(h)'
    <3>1. CASE h = g
      BY <2>3, <3>1
    <3>2. CASE h # g
      <4>1. groups'[h] = groups[h] /\ TasksOf(h) \cap {s} = {} /\ GroupAt(h)
        BY <1>1, <1>10, <2>2, <2>4, <3>2 DEF RolloutsInv
      <4> QED
        BY <1>1, <1>2, <2>2, <4>1, FreedGroup
    <3> QED
      BY <3>1, <3>2
  <2>5. \A h \in Live : WaitingAt(h)'
    <3>1. \A h \in Live : groups[h].to = 0
      BY <1>1, <1>2, NobodyWaits DEF RolloutsInv
    <3>2. \A h \in Live : groups'[h].to = 0
      <4>1. groups'[g].to = 0
        BY <1>3, <1>8, <1>15
      <4>2. \A h \in Live : h # g => groups'[h] = groups[h]
        BY <1>10, <2>2
      <4> QED
        BY <3>1, <4>1, <4>2
    <3> QED
      BY <3>2 DEF WaitingAt
  <2>6. (\A t \in Inflight : SlotAt(t))'
    <3>1. upd'.bump = upd.bump \ {s} /\ upd'.pc = upd.pc /\ upd'.stale = upd.stale
      BY <1>6
    <3>2. UNCHANGED <<ckptStep, weights>>
      BY <1>2 DEF weightVars
    <3> HIDE DEF G, g, over
    <3> QED
      BY <1>1, <1>2, <1>11, <2>2, <3>1, <3>2, FreedSlots DEF RolloutsInv
  <2>7. RolloutsInv'
    BY <1>2, <2>2, <2>4, <2>5, <2>6 DEF RolloutsInv
  <2>8. CountersInv' /\ WeightsInv'
    BY <1>1, <1>2, <1>6 DEF CountersInv, WeightsInv, weightVars
  <2>9. CapturedInv'
    <3>1. Inflight' = Inflight \ {s}
      BY <1>1, <1>2, <2>2, FreedTasks
    <3> QED
      BY <1>1, <1>2, <1>6, <3>1 DEF CapturedInv
  <2> QED
    BY <1>13, <2>7, <2>8, <2>9 DEF RInv
<1> QED
  BY <1>14, <1>15

---------------------------------------------------------------------------
(* Filling the slots *)

(* There is an id for a new group: each live one has a task, and an update
   captured no more than there were tasks. *)
LEMMA FreshGroup ==
  ASSUME FullInv, \A g \in Live : groups[g].to = 0
  PROVE  /\ Min(FreshGroups) \in FreshGroups
         /\ Min(FreshGroups) \in GroupIds /\ Min(FreshGroups) \notin Live
         /\ TasksOf(Min(FreshGroups)) = {}
<1> DEFINE f == [s \in Inflight |-> slots[s].group]
<1>1. TypeOK /\ CapturedInv /\ RolloutsInv
  BY DEF FullInv, RInv
<1>2. ASSUME NEW g \in Live
      PROVE  \E s \in Inflight : slots[s].group = g
  <2>1. /\ GroupAt(g) /\ groups[g].to = 0 /\ groups[g].done \in Nat /\ groups[g].failed \in Nat
    BY <1>1, <1>2, GroupTypes DEF RolloutsInv
  <2>2. Count(TasksOf(g)) # 0
    BY <2>1, TasksTypes, Sizes DEF GroupAt
  <2>3. TasksOf(g) # {}
    BY <2>2, PairsEmpty, CountIsPairs
  <2> QED
    BY <2>3 DEF TasksOf
<1>3. \A s \in Inflight : slots[s].group \in Live
  BY <1>1 DEF RolloutsInv, SlotAt
<1>4. f \in Surjection(Inflight, Live)
  BY <1>2, <1>3 DEF Surjection
<1>5. IsFiniteSet(Inflight) /\ Cardinality(Inflight) <= MaxInflight /\ Cardinality(Inflight) \in Nat
  BY TasksTypes, SlotsFinite
<1>6. IsFiniteSet(Live) /\ Cardinality(Live) <= Cardinality(Inflight) /\ Cardinality(Live) \in Nat
  BY <1>4, <1>5, FS_Surjection, FS_CardinalityType
<1>7. /\ IsFiniteSet(GroupIds) /\ Cardinality(GroupIds) = 2 * MaxInflight + 1
  <2>1. 1 \in Int /\ 2 * MaxInflight + 1 \in Int /\ 2 * MaxInflight + 1 >= 1
    BY Sizes
  <2>2. /\ IsFiniteSet(1..(2 * MaxInflight + 1))
        /\ Cardinality(1..(2 * MaxInflight + 1)) = IF 1 > 2 * MaxInflight + 1 THEN 0
                                                   ELSE (2 * MaxInflight + 1) - 1 + 1
    BY <2>1, FS_Interval
  <2> QED
    BY <2>1, <2>2, Sizes DEF GroupIds
<1>8. /\ IsFiniteSet(upd.stale) /\ Cardinality(upd.stale) \in Nat
      /\ Cardinality(upd.stale) <= MaxInflight
  <2>1. upd.stale \in SUBSET GroupIds
    BY <1>1, CountersTypes
  <2> QED
    BY <1>1, <1>7, <2>1, FS_Subset, FS_CardinalityType DEF CapturedInv
<1>9. /\ IsFiniteSet(Live \cup upd.stale)
      /\ Cardinality(Live \cup upd.stale) <= 2 * MaxInflight
  <2>1. /\ IsFiniteSet(Live \cup upd.stale)
        /\ Cardinality(Live \cup upd.stale)
             = Cardinality(Live) + Cardinality(upd.stale) - Cardinality(Live \cap upd.stale)
    BY <1>6, <1>8, FS_Union
  <2>2. IsFiniteSet(Live \cap upd.stale) /\ Cardinality(Live \cap upd.stale) \in Nat
    BY <1>6, FS_Intersection, FS_CardinalityType
  <2> QED
    BY <1>5, <1>6, <1>8, <2>1, <2>2, Sizes
<1>10. GroupIds \ (Live \cup upd.stale) # {}
  <2>1. SUFFICES ASSUME GroupIds \subseteq Live \cup upd.stale
                 PROVE  FALSE
    OBVIOUS
  <2>2. Cardinality(GroupIds) <= Cardinality(Live \cup upd.stale)
    BY <1>9, <2>1, FS_Subset
  <2>3. Cardinality(Live \cup upd.stale) \in Nat
    BY <1>9, FS_CardinalityType
  <2> QED
    BY <1>7, <1>9, <2>2, <2>3, Sizes
<1>11. \A g : g \notin Live => TasksOf(g) = {}
  BY <1>3 DEF TasksOf
<1>12. FreshGroups # {} /\ FreshGroups \in SUBSET Nat
  <2>1. GroupIds \in SUBSET Nat
    BY Sizes DEF GroupIds
  <2> QED
    BY <1>10, <1>11, <2>1 DEF FreshGroups
<1>13. Min(FreshGroups) \in FreshGroups
  BY <1>12, LeastNat
<1> QED
  BY <1>13 DEF FreshGroups

(* There is a slot for a task as long as there is capacity for a rollout. *)
LEMMA FreeSlot ==
  ASSUME TypeOK, Capacity >= 1
  PROVE  Min(Slots \ Inflight) \in Slots \ Inflight
<1>1. \A s \in Inflight : slots[s].count \in 1..GroupSize
  BY SlotTypes
<1>2. Cardinality(Inflight) <= Count(Inflight)
  <2>1. Inflight \in SUBSET Slots
    BY TasksTypes
  <2>2. Cardinality(Inflight) <= Cardinality(Pairs(slots, Inflight))
    BY <1>1, <2>1, PairsAtLeast
  <2> QED
    BY <2>2, CountIsPairs
<1>3. Count(Inflight) \in Nat /\ Count(Inflight) < MaxInflight
  BY TasksTypes, Sizes
<1>4. Inflight # Slots
  <2>1. Cardinality(Inflight) \in Nat /\ Cardinality(Slots) = MaxInflight
    BY TasksTypes, SlotsFinite
  <2> QED
    BY <1>2, <1>3, <2>1, Sizes
<1>5. Slots \ Inflight # {} /\ Slots \ Inflight \in SUBSET Nat
  <2>1. Slots \in SUBSET Nat
    BY Sizes DEF Slots
  <2> QED
    BY <1>4, <2>1, TasksTypes
<1> QED
  BY <1>5, LeastNat

LEMMA PickRInv == ASSUME FullInv, PickGroup PROVE RInv'
<1>1. TypeOK /\ CountersInv /\ WeightsInv /\ CapturedInv /\ RolloutsInv /\ weights \in Nat
  BY CountersTypes DEF FullInv, RInv
<1>2. /\ pc = "fill" /\ pc' = "acquire"
      /\ UNCHANGED <<sent, step, watch, progress, attempts, evalFrom, published, ckptStep,
                     weights, ready, slots, loop, upd, stg, faults>>
  BY DEF PickGroup, weightVars
<1>3. CountersInv' /\ WeightsInv' /\ CapturedInv'
  BY <1>1, <1>2 DEF CountersInv, WeightsInv, CapturedInv, Inflight
<1>4. CASE Pending # {} /\ target' = Min(Pending) /\ UNCHANGED groups
  <2>1. target' \in Pending
    <3>1. Pending \in SUBSET Nat
      BY Sizes DEF Pending, Live, GroupIds
    <3> QED
      BY <1>4, <3>1, LeastNat
  <2>2. target' \in GroupIds /\ groups[target'].to > 0
    BY <2>1 DEF Pending, Live
  <2>3. TypeOK'
    BY <1>1, <1>2, <1>4, <2>2 DEF TypeOK
  <2>4. (\A s \in Inflight : SlotAt(s))'
    BY <1>1, <1>2, <1>4, QuietSlots DEF RolloutsInv
  <2>5. (\A g \in Live : GroupAt(g))'
    BY <1>1, <1>2, <1>4, QuietGroups DEF RolloutsInv
  <2>6. (\A g \in Live : WaitingAt(g))'
    BY <1>1, <1>2, <1>4, QuietWaiting DEF RolloutsInv
  <2>7. RolloutsInv'
    BY <1>4, <2>2, <2>4, <2>5, <2>6 DEF RolloutsInv
  <2> QED
    BY <1>3, <2>3, <2>7 DEF RInv
<1>5. CASE /\ Pending = {} /\ Capacity >= GroupSize
           /\ target' = Min(FreshGroups)
           /\ groups' = [groups EXCEPT ![Min(FreshGroups)] =
                           [to |-> GroupSize, done |-> 0, failed |-> 0, oldest |-> MaxSteps]]
  <2>1. \A g \in Live : groups[g].to = 0
    <3>1. SUFFICES ASSUME NEW g \in Live, groups[g].to # 0
                   PROVE  FALSE
      OBVIOUS
    <3>2. groups[g].to > 0 /\ groups[g].to \in Nat
      BY <1>1, <3>1, GroupTypes
    <3>3. groups[g].to <= Capacity /\ Capacity \in Int
      BY <1>1, <3>2, TasksTypes, Sizes DEF RolloutsInv, WaitingAt
    <3>4. Cost(g) <= Capacity
      BY <3>2, <3>3 DEF Cost
    <3> QED
      BY <1>5, <3>2, <3>4 DEF Pending
  <2>2. PICK g0 \in GroupIds : g0 = Min(FreshGroups) /\ g0 \notin Live /\ TasksOf(g0) = {}
    BY <2>1, FreshGroup
  <2> DEFINE G == [to |-> GroupSize, done |-> 0, failed |-> 0, oldest |-> MaxSteps]
  <2>3. /\ groups' = [groups EXCEPT ![g0] = G] /\ target' = g0 /\ G \in Group
    BY <1>5, <2>2, Sizes DEF Group, Versions
  <2>4. G.to = GroupSize /\ G.done = 0 /\ G.failed = 0 /\ G.oldest = MaxSteps
    OBVIOUS
  <2> HIDE DEF G
  <2>5. /\ Live' = Live \cup {g0} /\ groups'[g0] = G
        /\ \A g \in Live : groups'[g] = groups[g]
        /\ groups' \in [GroupIds -> Group \cup {None}]
    BY <1>1, <2>2, <2>3, NoneIsNone DEF TypeOK, Live
  <2>6. /\ Inflight' = Inflight /\ Capacity' = Capacity
        /\ \A g : TasksOf(g)' = TasksOf(g) /\ Count(TasksOf(g))' = Count(TasksOf(g))
    BY <1>2 DEF Inflight, TasksOf, Count, Rollouts, Capacity
  <2>7. (\A s \in Inflight : SlotAt(s))'
    <3>1. SUFFICES ASSUME NEW s \in Inflight
                   PROVE  SlotAt(s)'
      BY <2>6
    <3>2. SlotAt(s) /\ Owed(s)' = Owed(s)
      BY <1>1, <1>2 DEF RolloutsInv, Owed
    <3> QED
      BY <1>2, <2>5, <3>2 DEF SlotAt
  <2>8. ASSUME NEW g \in Live'
        PROVE  GroupAt(g)' /\ WaitingAt(g)'
    <3>1. CASE g = g0
      <4>1. /\ groups'[g] = G /\ TasksOf(g)' = {} /\ Count(TasksOf(g))' = 0
        BY <2>2, <2>5, <2>6, <3>1, PairsEmpty, CountIsPairs
      <4>2. GroupAt(g)'
        BY <2>4, <4>1, Sizes DEF GroupAt
      <4>3. \A h \in Live' : groups'[h].to > 0 => h = g
        BY <2>1, <2>5, <3>1
      <4>4. WaitingAt(g)'
        BY <1>2, <1>5, <2>4, <2>6, <4>1, <4>3, Sizes DEF WaitingAt
      <4> QED
        BY <4>2, <4>4
    <3>2. CASE g # g0
      <4>1. g \in Live /\ groups'[g] = groups[g] /\ GroupAt(g) /\ groups[g].to = 0
        BY <1>1, <2>1, <2>5, <2>8, <3>2 DEF RolloutsInv
      <4> QED
        BY <1>2, <2>6, <4>1 DEF GroupAt, WaitingAt
    <3> QED
      BY <3>1, <3>2
  <2>9. RolloutsInv'
    BY <2>3, <2>4, <2>5, <2>7, <2>8, Sizes DEF RolloutsInv
  <2>10. TypeOK'
    BY <1>1, <1>2, <2>3, <2>5 DEF TypeOK
  <2> QED
    BY <1>3, <2>9, <2>10 DEF RInv
<1> QED
  BY <1>4, <1>5 DEF PickGroup

LEMMA ScheduleRInv == ASSUME FullInv, Schedule PROVE RInv'
<1> DEFINE m == IF GroupScored THEN groups[target].to ELSE 1
           r == [group |-> target, count |-> m, off |-> 0, salt |-> ckptStep,
                 first |-> weights, last |-> weights, state |-> "running"]
<1>1. /\ TypeOK /\ CountersInv /\ WeightsInv /\ CapturedInv /\ RolloutsInv /\ BarrierInv
      /\ ckptStep \in Nat /\ weights \in Nat /\ ckptStep \in Versions /\ weights \in Versions
      /\ sent \in Nat /\ published \in Nat /\ ckptStep <= MaxSteps
  BY CountersTypes DEF FullInv, RInv, SInv, TypeOK
<1>2. /\ pc = "acquire" /\ pc' = "fill" /\ target' = 1 /\ target \in Live
      /\ groups' = [groups EXCEPT ![target].to = @ - m]
      /\ slots' = [slots EXCEPT ![Min(Slots \ Inflight)] = r]
      /\ UNCHANGED <<sent, step, watch, progress, attempts, evalFrom, published, ckptStep,
                     weights, ready, loop, upd, stg, faults>>
  BY <1>1 DEF Schedule, weightVars, Live, TypeOK
<1>3. PICK g \in Live : g = target
  BY <1>2
<1>4. PICK n \in Nat : n = m
  BY <1>1, <1>2, GroupTypes
<1>5. /\ groups[g].to > 0 /\ WaitingAt(g) /\ GroupAt(g) /\ g \in GroupIds /\ groups[g] \in Group
      /\ groups[g].to \in 1..GroupSize /\ groups[g].done = 0 /\ groups[g].failed = 0
      /\ groups[g].to <= Capacity /\ groups[g].oldest = MaxSteps
      /\ \A h \in Live : groups[h].to > 0 => h = g
  <2>1. groups[g].to > 0 /\ WaitingAt(g) /\ GroupAt(g)
    BY <1>1, <1>2, <1>3 DEF RolloutsInv
  <2> QED
    BY <1>1, <2>1, GroupTypes, Sizes DEF WaitingAt, GroupAt
<1>6. /\ n \in 1..GroupSize /\ n <= groups[g].to
      /\ n = IF GroupScored THEN GroupSize ELSE 1
      /\ GroupScored => n = groups[g].to
  BY <1>3, <1>4, <1>5, Sizes DEF WaitingAt
<1>7. PICK s0 \in Slots \ Inflight : s0 = Min(Slots \ Inflight)
  <2>1. Capacity >= 1
    BY <1>5, TasksTypes, Sizes
  <2> QED
    BY <1>1, <2>1, FreeSlot
<1>8. /\ r \in Rollout /\ r # None /\ r.group = g /\ r.count = n /\ r.off = 0
      /\ r.salt = ckptStep /\ r.first = weights /\ r.last = weights
  <2>1. r = [group |-> g, count |-> n, off |-> 0, salt |-> ckptStep,
             first |-> weights, last |-> weights, state |-> "running"]
    BY <1>3, <1>4
  <2>2. r \in Rollout
    BY <1>1, <1>5, <1>6, <2>1, Sizes DEF Rollout
  <2> QED
    BY <2>1, <2>2, NoneIsNone
<1>9. groups' = [groups EXCEPT ![g].to = groups[g].to - n]
  BY <1>2, <1>3, <1>4
<1> HIDE DEF r, m
<1>10. /\ slots' \in [Slots -> Rollout \cup {None}] /\ slots'[s0] = r
       /\ \A s \in Slots : s # s0 => slots'[s] = slots[s]
       /\ Inflight' = Inflight \cup {s0}
  BY <1>1, <1>2, <1>7, <1>8 DEF TypeOK, Inflight
<1>11. /\ groups' \in [GroupIds -> Group \cup {None}] /\ Live' = Live
       /\ groups'[g].to = groups[g].to - n /\ groups'[g].done = 0 /\ groups'[g].failed = 0
       /\ groups'[g].oldest = MaxSteps
       /\ \A h \in Live : h # g => groups'[h] = groups[h]
  <2>1. groups[g].to - n \in 0..GroupSize
    BY <1>5, <1>6, Sizes
  <2>2. /\ groups'[g] = [groups[g] EXCEPT !.to = groups[g].to - n]
        /\ \A h \in GroupIds : h # g => groups'[h] = groups[h]
        /\ groups' = [h \in GroupIds |-> groups'[h]]
    BY <1>1, <1>5, <1>9 DEF TypeOK
  <2>3. /\ groups'[g] \in Group /\ groups'[g].to = groups[g].to - n
        /\ groups'[g].done = groups[g].done /\ groups'[g].failed = groups[g].failed
        /\ groups'[g].oldest = groups[g].oldest
    BY <1>5, <2>1, <2>2 DEF Group
  <2>4. groups'[g] # None
    BY <2>3, NoneIsNone
  <2>5. Live' = Live
    BY <2>2, <2>4, <1>3 DEF Live
  <2>6. groups' \in [GroupIds -> Group \cup {None}]
    BY <1>1, <2>2, <2>3 DEF TypeOK
  <2> QED
    BY <1>5, <2>2, <2>3, <2>5, <2>6 DEF Live
<1>12. ASSUME NEW S \in SUBSET Slots, s0 \notin S
       PROVE  Pairs(slots', S) = Pairs(slots, S)
  <2>1. \A s \in S : slots'[s].count = slots[s].count
    BY <1>10, <1>12
  <2> QED
    BY <2>1, PairsSame
<1>13. ASSUME NEW S \in SUBSET Inflight
       PROVE  Cardinality(Pairs(slots', S \cup {s0})) = Count(S) + n
  <2>1. S \in SUBSET Slots /\ s0 \in Slots \ S /\ slots'[s0].count \in 1..GroupSize
        /\ slots'[s0].count = n /\ s0 \notin S
    BY <1>6, <1>7, <1>8, <1>10, <1>13, TasksTypes
  <2>2. Cardinality(Pairs(slots', S \cup {s0})) = Cardinality(Pairs(slots', S)) + n
    BY <2>1, PairsAdd
  <2>3. Pairs(slots', S) = Pairs(slots, S)
    BY <1>12, <2>1
  <2> QED
    BY <2>2, <2>3, CountIsPairs
<1>14. /\ TasksOf(g)' = TasksOf(g) \cup {s0} /\ Count(TasksOf(g))' = Count(TasksOf(g)) + n
       /\ \A h : h # g => TasksOf(h)' = TasksOf(h) /\ Count(TasksOf(h))' = Count(TasksOf(h))
       /\ Capacity' = Capacity - n
  <2>1. ASSUME NEW h
        PROVE  /\ h = g => TasksOf(h)' = TasksOf(h) \cup {s0}
               /\ h # g => TasksOf(h)' = TasksOf(h)
    BY <1>7, <1>8, <1>10 DEF TasksOf, Inflight
  <2>2. ASSUME NEW h
        PROVE  Count(TasksOf(h))' = Cardinality(Pairs(slots', TasksOf(h)'))
    BY DEF Count, Rollouts, Pairs
  <2>3. Count(Inflight)' = Cardinality(Pairs(slots', Inflight \cup {s0}))
    BY <1>10 DEF Count, Rollouts, Pairs
  <2>4. Count(Inflight)' = Count(Inflight) + n
    BY <1>13, <2>3
  <2>5. Capacity' = Capacity - n
    BY <1>4, <2>4, TasksTypes, Sizes DEF Capacity
  <2>6. Count(TasksOf(g))' = Count(TasksOf(g)) + n
    BY <1>13, <2>1, <2>2, TasksTypes
  <2>7. ASSUME NEW h, h # g
        PROVE  Count(TasksOf(h))' = Count(TasksOf(h))
    <3>1. TasksOf(h) \in SUBSET Slots /\ s0 \notin TasksOf(h)
      BY <1>7, TasksTypes
    <3>2. Pairs(slots', TasksOf(h)) = Pairs(slots, TasksOf(h))
      BY <1>12, <3>1
    <3> QED
      BY <2>1, <2>2, <2>7, <3>2, CountIsPairs
  <2> QED
    BY <2>1, <2>5, <2>6, <2>7
<1>15. ckptStep <= published /\ published <= sent /\ sent - 1 <= ckptStep
  BY <1>1, <1>2 DEF CountersInv, BarrierInv, InBatch
<1>16. ASSUME NEW s \in Inflight'
       PROVE  SlotAt(s)'
  <2>1. CASE s = s0
    <3>1. slots'[s] = r /\ s \notin upd.bump /\ r.group \in Live'
      BY <1>1, <1>3, <1>7, <1>8, <1>10, <1>11, <2>1 DEF CapturedInv
    <3>2. Owed(s)' = 0
      BY <1>1, <1>2, <1>8, <3>1 DEF Owed
    <3>3. ckptStep <= weights /\ (Background => weights = ckptStep)
      BY <1>1, <1>2 DEF WeightsInv
    <3>4. 0 + 0 <= ckptStep - ckptStep /\ 0 + 0 = ckptStep - ckptStep /\ ckptStep <= ckptStep
          /\ weights <= weights /\ 0 <= MaxOff
      BY <1>1, Sizes
    <3> QED
      BY <1>2, <1>6, <1>8, <3>1, <3>2, <3>3, <3>4 DEF SlotAt
  <2>2. CASE s # s0
    <3>1. s \in Inflight /\ slots'[s] = slots[s] /\ SlotAt(s) /\ Owed(s)' = Owed(s)
      BY <1>1, <1>2, <1>10, <1>16, <2>2, TasksTypes DEF RolloutsInv, Owed
    <3> QED
      BY <1>2, <1>11, <3>1 DEF SlotAt
  <2> QED
    BY <2>1, <2>2
<1>17. ASSUME NEW t \in TasksOf(g)
       PROVE  /\ slots'[t] = slots[t] /\ slots[t].salt \in Nat
              /\ slots[t].salt <= ckptStep /\ ckptStep <= slots[t].salt + Slack
              /\ sent - 1 <= slots[t].salt /\ (~Limited => slots[t].salt = ckptStep)
  <2>1. t \in Inflight /\ t # s0 /\ slots'[t] = slots[t] /\ slots[t].salt \in Nat /\ SlotAt(t)
    BY <1>1, <1>7, <1>10, TasksTypes, SlotTypes DEF RolloutsInv
  <2>2. sent - 1 <= slots[t].salt /\ (~Limited => slots[t].salt = ckptStep)
    BY <1>5 DEF WaitingAt
  <2>3. slots[t].salt <= ckptStep
    BY <2>1 DEF SlotAt
  <2> QED
    BY <1>1, <1>15, <2>1, <2>2, <2>3, Sizes DEF Slack
<1>18. ASSUME NEW h \in Live
       PROVE  GroupAt(h)' /\ WaitingAt(h)'
  <2>1. CASE h = g
    <3>1. \A s \in TasksOf(g)' : slots'[s].salt \in Nat /\ slots'[s].salt <= ckptStep
                                 /\ ckptStep <= slots'[s].salt + Slack
                                 /\ sent - 1 <= slots'[s].salt
                                 /\ (~Limited => slots'[s].salt = ckptStep)
      BY <1>1, <1>8, <1>10, <1>14, <1>15, <1>17, Sizes
    <3>2. \A s, t \in TasksOf(g)' : slots'[s].salt <= slots'[t].salt + Slack
      BY <1>1, <3>1, Sizes
    <3>3. \A s \in TasksOf(g)' : slots'[s].salt <= MaxSteps + Slack
      BY <1>1, <3>1, Sizes
    <3>4. groups'[g].to + Count(TasksOf(g))' + groups'[g].done + groups'[g].failed = GroupSize
      BY <1>4, <1>5, <1>11, <1>14, TasksTypes, Sizes DEF GroupAt
    <3>5. GroupAt(g)'
      BY <1>11, <3>2, <3>3, <3>4, Sizes DEF GroupAt
    <3>6. groups'[g].to <= Capacity'
      BY <1>4, <1>5, <1>11, <1>14, TasksTypes, Sizes
    <3>7. GroupScored => groups'[g].to = 0
      BY <1>5, <1>6, <1>11
    <3>8. \A k \in Live' : groups'[k].to > 0 => k = g
      BY <1>5, <1>11
    <3>9. WaitingAt(g)'
      <4>1. \A s \in TasksOf(g)' : sent' - 1 <= slots'[s].salt
                                   /\ (~Limited => slots'[s].salt = ckptStep')
        BY <1>2, <3>1
      <4>2. groups'[g].to > 0 => /\ pc' \in {"fill", "acquire"}
                                 /\ groups'[g].done = 0 /\ groups'[g].failed = 0
                                 /\ GroupScored => groups'[g].to = GroupSize
        BY <1>2, <1>11, <3>7
      <4> QED
        BY <3>6, <3>8, <4>1, <4>2 DEF WaitingAt
    <3> QED
      BY <2>1, <3>5, <3>9
  <2>2. CASE h # g
    <3>1. /\ groups'[h] = groups[h] /\ TasksOf(h)' = TasksOf(h)
          /\ Count(TasksOf(h))' = Count(TasksOf(h)) /\ GroupAt(h)
          /\ \A s \in TasksOf(h) : slots'[s] = slots[s]
      BY <1>1, <1>7, <1>10, <1>11, <1>14, <1>18, <2>2, TasksTypes DEF RolloutsInv
    <3>2. ~(groups'[h].to > 0)
      BY <1>5, <1>18, <2>2, <3>1
    <3> QED
      BY <3>1, <3>2 DEF GroupAt, WaitingAt
  <2> QED
    BY <2>1, <2>2
<1>19. RolloutsInv'
  BY <1>2, <1>11, <1>16, <1>18 DEF RolloutsInv
<1>20. TypeOK'
  <2>1. 1 \in GroupIds
    BY Sizes DEF GroupIds
  <2> QED
    BY <1>1, <1>2, <1>10, <1>11, <2>1 DEF TypeOK
<1>21. CountersInv' /\ WeightsInv'
  BY <1>1, <1>2 DEF CountersInv, WeightsInv
<1>22. CapturedInv'
  BY <1>1, <1>2, <1>10 DEF CapturedInv
<1> QED
  BY <1>19, <1>20, <1>21, <1>22 DEF RInv

---------------------------------------------------------------------------
(* Invariance *)

LEMMA InitRInv == Init => RInv
<1> SUFFICES ASSUME Init PROVE RInv
  OBVIOUS
<1>1. Inflight = {} /\ Live = {}
  BY DEF Init, Inflight, Live
<1>2. TypeOK
  <2>1. 1 \in GroupIds /\ 0 \in Versions
    BY Sizes DEF GroupIds, Versions
  <2>2. /\ upd \in [pc : {"idle", "start", "wait", "load", "loaded", "drop", "cancel"},
                    v : Versions, cleared : BOOLEAN,
                    stale : SUBSET GroupIds, bump : SUBSET Slots]
        /\ stg \in [pc : {"idle", "wait", "load", "done", "failed"}, v : Versions]
    BY <2>1 DEF Init, Idle, NoStage
  <2>3. slots \in [Slots -> Rollout \cup {None}] /\ groups \in [GroupIds -> Group \cup {None}]
    BY DEF Init
  <2> QED
    BY <2>1, <2>2, <2>3, Sizes DEF Init, TypeOK
<1>3. CountersInv
  BY Sizes DEF Init, CountersInv
<1>4. WeightsInv
  BY Sizes DEF Init, WeightsInv, Idle, NoStage
<1>5. CapturedInv
  BY FS_EmptySet, Sizes DEF Init, CapturedInv, Idle
<1>6. RolloutsInv
  BY <1>1 DEF Init, RolloutsInv
<1> QED
  BY <1>2, <1>3, <1>4, <1>5, <1>6 DEF RInv

LEMMA StepRInv == FullInv /\ [Next]_vars => RInv'
<1> SUFFICES ASSUME FullInv, [Next]_vars PROVE RInv'
  OBVIOUS
<1>1. CASE UNCHANGED vars
  <2>1. TypeOK /\ CountersInv /\ WeightsInv
    BY DEF FullInv, RInv
  <2>2. TypeOK' /\ CountersInv'
    BY <1>1, <2>1 DEF TypeOK, CountersInv, vars, mainVars, weightVars, rolloutVars
  <2> QED
    BY <1>1, <2>1, <2>2, MainQuiet DEF WeightsInv, vars, mainVars, weightVars, rolloutVars
<1>2. CASE MainLoop
  BY <1>2, PhaseRInv, StageRInv, UpdateRInv, CommitRInv, DropsRInv, TalliedRInv, PickRInv,
     ScheduleRInv DEF MainLoop, Generate
<1>3. CASE UpdateTask \/ Poll
  BY <1>3, UpdateRInv, CommitRInv, DropsRInv, CaughtUpRInv DEF UpdateTask
<1>4. CASE StageTask \/ Faulty
  BY <1>4, StageRInv, UpdateRInv, PhaseRInv DEF StageTask, Faulty
<1>5. CASE Publish \/ Stopped \/ \E cancel \in BOOLEAN : EvalBegin(cancel)
  BY <1>5, PhaseRInv
<1>6. CASE \E s \in Slots, out \in Outcomes : Finish(s, out)
  BY <1>6, FinishRInv
<1> QED
  BY <1>1, <1>2, <1>3, <1>4, <1>5, <1>6 DEF Next

LEMMA Invariance == Spec => []FullInv
<1>1. Init => FullInv
  BY InitSInv, InitRInv DEF FullInv
<1>2. FullInv /\ [Next]_vars => FullInv'
  BY StepSInv, StepRInv DEF FullInv
<1> QED
  BY <1>1, <1>2, PTL DEF Spec

(* The orchestrator's state stays within its types. *)
THEOREM TypeCorrect == Spec => []TypeOK
<1>1. FullInv => TypeOK
  BY DEF FullInv, RInv
<1> QED
  BY <1>1, Invariance, PTL

(* Whatever is dropped, cancelled, lost or cut short, every rollout of a live
   group is waiting, in flight, or accounted for, and nothing is in flight for
   a group that is gone: a group always completes. *)
THEOREM GroupsComplete == Spec => []GroupAccounted
<1>1. FullInv => GroupAccounted
  BY DEF FullInv, RInv, RolloutsInv, SlotAt, GroupAt, GroupAccounted
<1> QED
  BY <1>1, Invariance, PTL

(* With the commit behind the barrier of generate_batch, no rollout begins on
   another policy than the one its cache salt names. *)
THEOREM SaltNamesPolicy == ASSUME Background PROVE Spec => []SaltIsPolicy
<1>1. FullInv => SaltIsPolicy
  BY DEF FullInv, RInv, RolloutsInv, SlotAt, SaltIsPolicy
<1> QED
  BY <1>1, Invariance, PTL

(* One policy at a time, a rollout's counter is the number of policies that
   have overtaken it, but for the one whose accounting is suspended. *)
THEOREM CountersExact == ASSUME Delta PROVE Spec => []OffPolicyExact
<1>1. FullInv => OffPolicyExact
  BY DEF FullInv, RInv, RolloutsInv, SlotAt, Owed, OffPolicyExact
<1> QED
  BY <1>1, Invariance, PTL

(* How many policies the endpoint served while a rollout ran, one at a     *)
(* time.                                                                   *)
PoliciesOf(r) == r.last - r.first + 1

(* What the accounting of _update_off_policy gives where the documentation
   promises max_off_policy_steps policies: one more, since policy changes are
   counted and the first policy is not one; and one more again when updates run
   under generate_batch, which can take a rollout between the engine's switch
   and the accounting that would drop it. *)
PoliciesSeen ==
  pc = "process" /\ progress < BatchSize =>
    \A s \in watch : slots[s] # None /\ slots[s].state = "ok"
      => PoliciesOf(slots[s]) <= MaxOff + 1 + (IF Background THEN 0 ELSE 1)

THEOREM FewPolicies == ASSUME Delta PROVE Spec => []PoliciesSeen
<1>1. ASSUME FullInv
      PROVE  PoliciesSeen
  <2>1. TypeOK /\ WeightsInv /\ CapturedInv /\ RolloutsInv
    BY <1>1 DEF FullInv, RInv
  <2>2. SUFFICES ASSUME pc = "process", NEW s \in watch, slots[s] # None
                 PROVE  slots[s].last - slots[s].first + 1
                          <= MaxOff + 1 + (IF Background THEN 0 ELSE 1)
    BY DEF PoliciesSeen, PoliciesOf
  <2>3. s \in Inflight
    BY <2>1, <2>2 DEF TypeOK, Inflight
  <2>4. /\ SlotAt(s) /\ slots[s].last \in Nat /\ slots[s].first \in Nat
        /\ slots[s].salt \in Nat /\ slots[s].off \in Nat /\ weights \in Nat /\ ckptStep \in Nat
    BY <2>1, <2>3, SlotTypes, CountersTypes DEF RolloutsInv
  <2>5. Owed(s) \in {0, 1} /\ (Owed(s) = 1 => upd.pc \in {"drop", "cancel"})
    BY DEF Owed
  <2>6. /\ slots[s].last <= weights /\ weights <= ckptStep + 1
        /\ upd.pc \in {"drop", "cancel"} => weights = ckptStep
        /\ Background => weights = ckptStep /\ upd.pc = "idle"
    BY <2>1, <2>2, <2>4 DEF WeightsInv, CapturedInv, SlotAt
  <2>7. /\ slots[s].salt <= slots[s].first /\ slots[s].off <= MaxOff
        /\ slots[s].off + Owed(s) = ckptStep - slots[s].salt
    BY <2>4 DEF SlotAt
  <2> QED
    BY <2>4, <2>5, <2>6, <2>7, Sizes
<1> QED
  BY <1>1, Invariance, PTL

(* One policy at a time, the finished rollouts of a group are no staler than
   the siblings they wait for may become. *)
THEOREM GroupsFresh == ASSUME Delta PROVE Spec => []GroupFresh
<1>1. ASSUME FullInv
      PROVE  GroupFresh
  <2>1. TypeOK /\ RolloutsInv
    BY <1>1 DEF FullInv, RInv
  <2>2. SUFFICES ASSUME NEW g \in Live, groups[g].done > 0
                 PROVE  ckptStep - groups[g].oldest
                          <= MaxOff + Slack + (IF g \in upd.stale THEN 1 ELSE 0)
    BY DEF GroupFresh, Slack
  <2>3. /\ GroupAt(g) /\ groups[g].done \in Nat /\ groups[g].failed \in Nat
        /\ groups[g].oldest \in Nat /\ groups[g].to = 0
    BY <2>1, <2>2, GroupTypes DEF RolloutsInv, WaitingAt
  <2>4. PICK t \in Inflight : t \in TasksOf(g)
    <3>1. Count(TasksOf(g)) # 0
      BY <2>3, TasksTypes, Sizes DEF GroupAt
    <3>2. TasksOf(g) # {}
      BY <3>1, PairsEmpty, CountIsPairs
    <3> QED
      BY <3>2, TasksTypes
  <2>5. /\ SlotAt(t) /\ slots[t].salt \in Nat /\ slots[t].off \in Nat /\ ckptStep \in Nat
        /\ slots[t].salt <= groups[g].oldest + Slack /\ slots[t].group = g
    BY <2>1, <2>3, <2>4, SlotTypes, CountersTypes DEF RolloutsInv, GroupAt, TasksOf
  <2>6. ckptStep - slots[t].salt = slots[t].off + Owed(t) /\ slots[t].off <= MaxOff
    BY <2>5 DEF SlotAt
  <2>7. slots[t].off + Owed(t) <= MaxOff + (IF g \in upd.stale THEN 1 ELSE 0)
    <3>1. Owed(t) = 0 \/ (Owed(t) = 1 /\ (t \in upd.bump \/ g \in upd.stale))
      BY <2>5 DEF Owed
    <3>2. t \in upd.bump => slots[t].off < MaxOff
      BY <2>5 DEF SlotAt
    <3> QED
      BY <2>5, <2>6, <3>1, <3>2, Sizes
  <2>8. Owed(t) \in {0, 1}
    BY DEF Owed
  <2> QED
    BY <2>3, <2>5, <2>6, <2>7, <2>8, Sizes
<1> QED
  BY <1>1, Invariance, PTL
=============================================================================
