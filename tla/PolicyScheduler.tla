--------------------------- MODULE PolicyScheduler ---------------------------
(***************************************************************************)
(* The orchestrator's training loop (orchestrator.py) and its Scheduler    *)
(* (scheduler.py): rollouts are generated continuously while the policy    *)
(* they run on is replaced under them.  The tasks of one event loop are    *)
(* interleaved at their awaits:                                            *)
(*   - the main loop, through generate_batch (pc);                         *)
(*   - update_policy_loop, which polls for new checkpoints (loop);         *)
(*   - the shielded policy update task (upd);                              *)
(*   - the background stage task (stg);                                    *)
(*   - one task per in-flight rollout (slots).                             *)
(* One inference endpoint stands for all of them: a rollout is pinned to   *)
(* one, and LeasePool relates the endpoints to each other.                 *)
(***************************************************************************)
EXTENDS Integers, FiniteSets, FiniteSetsExt

CONSTANTS
  Background,   \* stage_commit with background_stage
  Delta,        \* weight_broadcast.mode = "delta": one policy at a time
  Limited,      \* tasks_per_minute is set: schedule_rollout may wait
  GroupScored,  \* the environment requires group scoring: one task per group
  GroupSize, MaxInflight, BatchSize,
  MaxOff,       \* max_off_policy_steps
  MaxAttempts,  \* MAX_EMPTY_BATCH_ATTEMPTS
  MaxSteps,     \* max_steps; bounds every version number
  MaxFaults     \* bound on failures, rejections and filtered batches

ASSUME SchedulerAssumption ==
  /\ {Background, Delta, Limited, GroupScored} \subseteq BOOLEAN
  /\ GroupSize \in Nat \ {0} /\ BatchSize \in Nat \ {0}
  /\ MaxInflight \in Nat /\ MaxInflight >= GroupSize
  /\ MaxOff \in Nat /\ MaxAttempts \in Nat \ {0}
  /\ MaxSteps \in Nat \ {0} /\ MaxFaults \in Nat

VARIABLES
  pc,         \* where the main loop stands
  sent,       \* progress.step: the batches sent so far
  step,       \* Scheduler.step, set when generate_batch begins
  published,  \* newest STABLE broadcast directory
  ckptStep,   \* Scheduler.ckpt_step
  weights,    \* the policy the endpoint really runs
  ready,      \* checkpoint_ready
  loop,       \* update_policy_loop: "off", "poll", "join", "dead"
  upd,        \* the policy update task and what it captured
  stg,        \* inflight_stage_task and inflight_stage_step
  slots,      \* inflight_requests: one task, or None, per slot
  groups,     \* Scheduler.groups: a GroupState, or None, per id
  target,     \* the group schedule_rollout is about to serve
  watch,      \* tasks asyncio.wait watches, then those it returned
  progress,   \* batch_progress
  attempts,   \* generate_batch calls of this step
  evalFrom,   \* the policy the running evaluation started on
  faults      \* faults left

mainVars == <<pc, sent, step, target, watch, progress, attempts, evalFrom>>
weightVars == <<published, ckptStep, weights, ready>>
rolloutVars == <<slots, groups>>
vars == <<mainVars, weightVars, rolloutVars, loop, upd, stg, faults>>

Versions == 0..MaxSteps
Slots    == 1..MaxInflight
\* Ids are reused once nobody refers to them; the code's only ever grow.
\* As many groups as slots can be live, and as many more captured by an update.
GroupIds == 1..(2 * MaxInflight + 1)
None     == [none |-> TRUE]

Outcomes == {"ok", "bad", "raised"}   \* valid, error or empty, exception

Rollout == [group : GroupIds, count : 1..GroupSize, off : 0..MaxSteps,
            salt : Versions, first : Versions, last : Versions,
            state : Outcomes \cup {"running"}]
Group == [to : 0..GroupSize, done : 0..GroupSize, failed : 0..GroupSize,
          oldest : Versions]

Idle == [pc |-> "idle", v |-> 0, cleared |-> FALSE, stale |-> {}, bump |-> {}]
NoStage == [pc |-> "idle", v |-> 0]

Init ==
  /\ pc = "top" /\ sent = 0 /\ step = 0 /\ target = 1 /\ watch = {}
  /\ progress = 0 /\ attempts = 0 /\ evalFrom = 0
  /\ published = 0 /\ ckptStep = 0 /\ weights = 0 /\ ready = TRUE
  /\ slots = [s \in Slots |-> None] /\ groups = [g \in GroupIds |-> None]
  /\ loop = "off" /\ upd = Idle /\ stg = NoStage /\ faults = MaxFaults

Inflight   == {s \in Slots : slots[s] # None}
Live       == {g \in GroupIds : groups[g] # None}
TasksOf(g) == {s \in Inflight : slots[s].group = g}
\* The rollouts that the tasks S stand for, and how many they are.
Rollouts(S) == {p \in S \X (1..GroupSize) : p[2] <= slots[p[1]].count}
Count(S)   == Cardinality(Rollouts(S))
Capacity   == MaxInflight - Count(Inflight)

\* The event loop runs one task at a time: the main loop does not give way
\* while it fills or processes, unless a rate limiter makes it wait.  When
\* the loop has ended its tasks have too.
Busy == \/ pc \in {"fill", "process", "done", "crashed"}
        \/ pc = "acquire" /\ ~Limited

TypeOK ==
  /\ pc \in {"top", "clear", "eval", "begin", "barrier", "joinUpdate",
             "joinStage", "commit", "fill", "acquire", "collect",
             "process", "dropping", "filled", "done", "crashed"}
  /\ {sent, step, published, ckptStep, weights, evalFrom} \subseteq Versions
  /\ ready \in BOOLEAN /\ loop \in {"off", "poll", "join", "dead"}
  /\ upd \in [pc : {"idle", "start", "wait", "load", "loaded", "drop", "cancel"},
              v : Versions, cleared : BOOLEAN,
              stale : SUBSET GroupIds, bump : SUBSET Slots]
  /\ stg \in [pc : {"idle", "wait", "load", "done", "failed"}, v : Versions]
  /\ slots \in [Slots -> Rollout \cup {None}]
  /\ groups \in [GroupIds -> Group \cup {None}]
  /\ target \in GroupIds /\ watch \subseteq Slots
  /\ progress \in 0..(BatchSize + GroupSize - 1)
  /\ attempts \in 0..MaxAttempts /\ faults \in 0..MaxFaults

---------------------------------------------------------------------------
(* Dropping groups.  A task that leaves inflight_requests also leaves what  *)
(* a suspended update captured: the code captures task objects, not slots. *)

Freed(S) == slots' = [s \in Slots |-> IF s \in S THEN None ELSE slots[s]]

Forgotten(S) == upd' = [upd EXCEPT !.bump = @ \ S]

\* drop_group pops the group's tasks and the group without giving way.
DropGroups(G) ==
  /\ Freed(UNION {TasksOf(g) : g \in G})
  /\ groups' = [g \in GroupIds |-> IF g \in G THEN None ELSE groups[g]]

---------------------------------------------------------------------------
(* Which policy comes next.                                                *)

\* An orchestrator that runs two steps ahead.
NextTwoAhead(s) == LET t == Max({s - 2, published})
                   IN  IF Delta THEN Min({t, ckptStep + 1}) ELSE t

\* At least step - 1; anything newer that has landed; one delta at a time.
NextCkptStep(s) == LET t == Max({s - 1, published})
                   IN  IF Delta THEN Min({t, ckptStep + 1}) ELSE t

\* One policy later than the code.
StaleLate == {slots[s].group : s \in {r \in Inflight : slots[r].off > MaxOff}}
\* Groups no task of which survives another policy, and the tasks that do.
Stale     == {slots[s].group : s \in {r \in Inflight : slots[r].off >= MaxOff}}
Survivors == {s \in Inflight : slots[s].group \notin Stale}

\* Also the rollouts begun while others were being cancelled.
BumpAll(S)  == slots' = [s \in Slots |-> IF s \in Inflight
                                         THEN [slots[s] EXCEPT !.off = @ + 1]
                                         ELSE slots[s]]
\* Not the rollouts that have come back but are not taken yet.
BumpRunning(S) == slots' = [s \in Slots |-> IF s \in S /\ slots[s].state = "running"
                                            THEN [slots[s] EXCEPT !.off = @ + 1]
                                            ELSE slots[s]]
Bump(S)     == slots' = [s \in Slots |-> IF s \in S
                                         THEN [slots[s] EXCEPT !.off = @ + 1]
                                         ELSE slots[s]]

---------------------------------------------------------------------------
(* The policy update task: _apply_policy_update and _update_off_policy.    *)

UpdStart(v) == upd' = [Idle EXCEPT !.pc = "start", !.v = v]

\* Forcing step - 1 closes the gate until its broadcast has landed.
UpdBegin ==
  /\ upd.pc = "start" /\ ~Busy
  /\ LET forced == upd.v = Max({step - 1, 0})
     IN  /\ upd' = [upd EXCEPT !.pc = IF forced THEN "wait" ELSE "load",
                               !.cleared = forced]
         /\ ready' = (ready /\ ~forced)
  /\ UNCHANGED <<mainVars, published, ckptStep, weights, rolloutVars, loop, stg,
                 faults>>

\* wait_for_path(STABLE) returns.
UpdLanded ==
  /\ upd.pc = "wait" /\ published >= upd.v /\ ~Busy
  /\ upd' = [upd EXCEPT !.pc = "load"]
  /\ UNCHANGED <<mainVars, weightVars, rolloutVars, loop, stg, faults>>

\* The engine switches policies before the client has its answer.
UpdSwitch ==
  /\ upd.pc = "load"
  /\ weights' = upd.v
  /\ upd' = [upd EXCEPT !.pc = "loaded"]
  /\ UNCHANGED <<mainVars, published, ckptStep, ready, rolloutVars, loop, stg,
                 faults>>

\* Whoever awaits the shielded task resumes.
Joined(main, poller) ==
  /\ pc' = IF pc = "joinUpdate" THEN main ELSE pc
  /\ loop' = IF loop = "join" THEN poller ELSE loop
  /\ UNCHANGED <<sent, step, target, watch, progress, attempts, evalFrom>>

\* The event is set on every way out of an update.
StayClosed == ready' = ready
Reopen     == ready' = TRUE

\* _update_off_policy up to its first await.  Without a stale group nothing
\* suspends and the counters move at once.
OffPolicy(v) ==
  IF Stale = {}
  THEN /\ Bump(Inflight)
       /\ upd' = Idle
       /\ Joined("barrier", "poll")
       /\ UNCHANGED groups
  ELSE /\ upd' = [upd EXCEPT !.pc = "drop", !.v = v, !.stale = Stale,
                             !.bump = Survivors]
       /\ UNCHANGED <<mainVars, loop, rolloutVars>>

\* The weights are updated: ckpt_step moves, the gate opens.
UpdAnswered ==
  /\ upd.pc = "loaded" /\ ~Busy
  /\ ckptStep' = upd.v
  /\ Reopen
  /\ OffPolicy(upd.v)
  /\ UNCHANGED <<published, weights, stg, faults>>

\* The drop_group tasks gather started pop everything before one is awaited.
UpdDrop ==
  /\ upd.pc = "drop" /\ ~Busy
  /\ DropGroups(upd.stale)
  /\ upd' = [upd EXCEPT !.pc = "cancel", !.stale = {}]
  /\ UNCHANGED <<mainVars, weightVars, loop, stg, faults>>

\* The cancelled rollouts have unwound; the others are one policy older.
UpdDone ==
  /\ upd.pc = "cancel" /\ ~Busy
  /\ Bump(upd.bump)
  /\ upd' = Idle
  /\ Joined("barrier", "poll")
  /\ UNCHANGED <<weightVars, groups, stg, faults>>

\* Staging, committing or loading raised: the waiter gets the exception,
\* which ends the orchestrator or, unnoticed, the polling loop.
UpdFail ==
  /\ upd.pc \in {"load", "loaded"} /\ ~Busy /\ faults > 0
  /\ ready' = (ready \/ upd.cleared)
  /\ upd' = Idle
  /\ Joined("crashed", "dead")
  /\ faults' = faults - 1
  /\ UNCHANGED <<published, ckptStep, weights, rolloutVars, stg>>

UpdateTask == UpdBegin \/ UpdLanded \/ UpdSwitch \/ UpdAnswered \/ UpdDrop \/ UpdDone

---------------------------------------------------------------------------
(* The background stage task: _stage_policy_update.                        *)

\* A finished task for another step is replaced, a running one is kept.
GetOrStartStage(v) ==
  stg' = IF stg.pc = "idle" \/ (stg.pc \in {"done", "failed"} /\ stg.v # v)
         THEN [pc |-> "wait", v |-> v] ELSE stg

StgLanded ==
  /\ stg.pc = "wait" /\ published >= stg.v /\ ~Busy
  /\ stg' = [stg EXCEPT !.pc = "load"]
  /\ UNCHANGED <<mainVars, weightVars, rolloutVars, loop, upd, faults>>

\* A stage that commits itself, without the barrier.
StgDoneCommits ==
  /\ stg.pc = "load" /\ ~Busy
  /\ stg' = [stg EXCEPT !.pc = "done"] /\ weights' = stg.v
  /\ UNCHANGED <<mainVars, published, ckptStep, ready, rolloutVars, loop, upd, faults>>

StgDone ==
  /\ stg.pc = "load" /\ ~Busy
  /\ stg' = [stg EXCEPT !.pc = "done"]
  /\ UNCHANGED <<mainVars, weightVars, rolloutVars, loop, upd, faults>>

StgFail ==
  /\ stg.pc = "load" /\ ~Busy /\ faults > 0
  /\ stg' = [stg EXCEPT !.pc = "failed"]
  /\ faults' = faults - 1
  /\ UNCHANGED <<mainVars, weightVars, rolloutVars, loop, upd>>

StageTask == StgLanded \/ StgDone

---------------------------------------------------------------------------
(* update_policy_loop: maybe_update_policy(block=False), then sleep.       *)

Poll ==
  /\ loop = "poll" /\ ~Busy
  /\ NextCkptStep(step) > ckptStep
  /\ IF Background
     THEN /\ GetOrStartStage(NextCkptStep(step)) /\ UNCHANGED <<loop, upd>>
          /\ stg' # stg
     ELSE /\ loop' = "join" /\ UNCHANGED stg
          /\ IF upd.pc = "idle" THEN UpdStart(NextCkptStep(step)) ELSE UNCHANGED upd
  /\ UNCHANGED <<mainVars, weightVars, rolloutVars, faults>>

---------------------------------------------------------------------------
(* The trainer, and the rollouts on the inference side.                    *)

\* Training on batch n takes the batch; it publishes policy n + 1.
Publish ==
  /\ published < sent
  /\ published' = published + 1
  /\ UNCHANGED <<mainVars, ckptStep, weights, ready, rolloutVars, loop, upd, stg,
                 faults>>

Finish(s, out) ==
  /\ slots[s] # None /\ slots[s].state = "running" /\ ~Busy
  /\ out = "ok" \/ faults > 0
  /\ faults' = IF out = "ok" THEN faults ELSE faults - 1
  /\ slots' = [slots EXCEPT ![s].state = out, ![s].last = weights]
  /\ UNCHANGED <<mainVars, weightVars, groups, loop, upd, stg>>

---------------------------------------------------------------------------
(* The orchestrator loop around generate_batch.                            *)

\* The evaluation of this step closes the gate and, configured so, cancels
\* every rollout in flight.
EvalBegin(cancel) ==
  /\ pc = "top" /\ sent < MaxSteps /\ ~Busy
  /\ pc' = IF cancel THEN "clear" ELSE "eval"
  /\ ready' = FALSE
  /\ evalFrom' = weights
  /\ UNCHANGED <<sent, step, target, watch, progress, attempts, published,
                 ckptStep, weights, rolloutVars, loop, upd, stg, faults>>

\* cancel_inflight_rollouts once the cancelled tasks have unwound.
EvalCleared ==
  /\ pc = "clear"
  /\ pc' = "eval" /\ evalFrom' = weights
  /\ slots' = [s \in Slots |-> None] /\ groups' = [g \in GroupIds |-> None]
  /\ upd' = [upd EXCEPT !.bump = {}]
  /\ UNCHANGED <<sent, step, target, watch, progress, attempts, weightVars, loop,
                 stg, faults>>

EvalEnd ==
  /\ pc = "eval"
  /\ pc' = "begin" /\ ready' = TRUE /\ evalFrom' = 0
  /\ UNCHANGED <<sent, step, target, watch, progress, attempts, published,
                 ckptStep, weights, rolloutVars, loop, upd, stg, faults>>

\* generate_batch cancels the polling loop; an update in flight is shielded.
Begin ==
  /\ pc = "begin" \/ (pc = "top" /\ sent < MaxSteps)
  /\ pc' = "barrier" /\ step' = sent /\ loop' = "off"
  /\ progress' = 0 /\ watch' = {}
  /\ UNCHANGED <<sent, target, attempts, evalFrom, weightVars, rolloutVars, upd,
                 stg, faults>>

\* maybe_update_policy(block=True): one round of its while loop.
BarrierPassed ==
  /\ pc = "barrier" /\ NextCkptStep(step) <= ckptStep
  /\ pc' = "fill" /\ loop' = "poll"
  /\ UNCHANGED <<sent, step, target, watch, progress, attempts, evalFrom,
                 weightVars, rolloutVars, upd, stg, faults>>

BarrierUpdate ==
  /\ pc = "barrier" /\ NextCkptStep(step) > ckptStep /\ ~Background
  /\ IF upd.pc = "idle" THEN UpdStart(NextCkptStep(step)) ELSE UNCHANGED upd
  /\ pc' = "joinUpdate"
  /\ UNCHANGED <<sent, step, target, watch, progress, attempts, evalFrom,
                 weightVars, rolloutVars, loop, stg, faults>>

BarrierCommit ==
  /\ pc = "barrier" /\ NextCkptStep(step) > ckptStep /\ Background
  /\ GetOrStartStage(NextCkptStep(step))
  /\ pc' = "joinStage" /\ ready' = FALSE
  /\ UNCHANGED <<sent, step, target, watch, progress, attempts, evalFrom, published,
                 ckptStep, weights, rolloutVars, loop, upd, faults>>

\* _commit_staged_policy_update: the stage is in, the engine switches.  Its
\* off-policy accounting is that of an update task the main loop awaits.
CommitSwitch ==
  /\ pc = "joinStage" /\ stg.pc = "done"
  /\ weights' = stg.v
  /\ pc' = "commit"
  /\ UNCHANGED <<sent, step, target, watch, progress, attempts, evalFrom, published,
                 ckptStep, ready, rolloutVars, loop, upd, stg, faults>>

CommitAnswered ==
  /\ pc = "commit"
  /\ ckptStep' = stg.v /\ stg' = NoStage
  /\ Reopen
  /\ IF Stale = {}
     THEN Bump(Inflight) /\ pc' = "barrier" /\ UNCHANGED upd
     ELSE /\ upd' = [Idle EXCEPT !.pc = "drop", !.v = stg.v, !.stale = Stale,
                                 !.bump = Survivors]
          /\ pc' = "joinUpdate" /\ UNCHANGED slots
  /\ UNCHANGED <<sent, step, target, watch, progress, attempts, evalFrom, published,
                 weights, groups, loop, faults>>

\* The stage task raised, or the commit did: generate_batch raises too.
CommitFail ==
  /\ \/ pc = "joinStage" /\ stg.pc = "failed" /\ UNCHANGED faults
     \/ pc = "commit" /\ faults > 0 /\ faults' = faults - 1
  /\ pc' = "crashed" /\ ready' = TRUE /\ stg' = NoStage
  /\ UNCHANGED <<sent, step, target, watch, progress, attempts, evalFrom, published,
                 ckptStep, weights, rolloutVars, loop, upd>>

---------------------------------------------------------------------------
(* generate_batch: filling the in-flight requests.                         *)

Cost(g) == IF GroupScored THEN groups[g].to ELSE 1

Pending == {g \in Live : groups[g].to > 0 /\ Cost(g) <= Capacity}

FreshGroups == {g \in GroupIds \ Live : TasksOf(g) = {} /\ g \notin upd.stale}

\* _schedule_next_request: the oldest group that fits, else a new one.
PickGroup ==
  /\ pc = "fill" /\ pc' = "acquire"
  /\ \/ /\ Pending # {} /\ target' = Min(Pending)
        /\ UNCHANGED groups
     \/ /\ Pending = {} /\ Capacity >= GroupSize
        /\ target' = Min(FreshGroups)
        /\ groups' = [groups EXCEPT ![Min(FreshGroups)] =
                        [to |-> GroupSize, done |-> 0, failed |-> 0,
                         oldest |-> MaxSteps]]
  /\ UNCHANGED <<sent, step, watch, progress, attempts, evalFrom, weightVars, slots,
                 loop, upd, stg, faults>>

\* schedule_rollout once the limiter lets it through: the group may be gone.
ScheduleGone ==
  /\ pc = "acquire" /\ groups[target] = None
  /\ pc' = "fill" /\ target' = 1
  /\ UNCHANGED <<sent, step, watch, progress, attempts, evalFrom, weightVars,
                 rolloutVars, loop, upd, stg, faults>>

Schedule ==
  /\ pc = "acquire" /\ groups[target] # None
  /\ LET n == IF GroupScored THEN groups[target].to ELSE 1
         s == Min(Slots \ Inflight)
     IN  /\ groups' = [groups EXCEPT ![target].to = @ - n]
         /\ slots' = [slots EXCEPT ![s] =
                        [group |-> target, count |-> n, off |-> 0,
                         salt |-> ckptStep, first |-> weights, last |-> weights,
                         state |-> "running"]]
  /\ pc' = "fill" /\ target' = 1
  /\ UNCHANGED <<sent, step, watch, progress, attempts, evalFrom, weightVars, loop,
                 upd, stg, faults>>

\* Full: wait for a rollout, or leave with the batch complete.
FillDone ==
  /\ pc = "fill" /\ Pending = {} /\ Capacity < GroupSize
  /\ IF progress >= BatchSize
     THEN pc' = "filled" /\ watch' = {}
     ELSE pc' = "collect" /\ watch' = Inflight
  /\ UNCHANGED <<sent, step, target, progress, attempts, evalFrom, weightVars,
                 rolloutVars, loop, upd, stg, faults>>

---------------------------------------------------------------------------
(* generate_batch: taking finished rollouts.                               *)

\* asyncio.wait(FIRST_COMPLETED), where a cancelled task is done as well,
\* then checkpoint_ready.wait().
Collect ==
  LET done == {s \in watch : slots[s] = None \/ slots[s].state # "running"}
  IN  /\ pc = "collect" /\ done # {} /\ ready
      /\ watch' = done
      /\ pc' = "process"
      /\ UNCHANGED <<sent, step, target, progress, attempts, evalFrom, weightVars,
                     rolloutVars, loop, upd, stg, faults>>

\* The for loop ends with its tasks, or as soon as the batch is complete.
ProcessDone ==
  /\ pc = "process" /\ (watch = {} \/ progress >= BatchSize)
  /\ pc' = "fill" /\ watch' = {}
  /\ UNCHANGED <<sent, step, target, progress, attempts, evalFrom, weightVars,
                 rolloutVars, loop, upd, stg, faults>>

TakingOn(s) == pc = "process" /\ s \in watch
Taking(s)   == pc = "process" /\ progress < BatchSize /\ s \in watch

\* Popped from inflight_requests by a drop_group since.
TakeGone(s) ==
  /\ Taking(s) /\ slots[s] = None
  /\ watch' = watch \ {s}
  /\ UNCHANGED <<pc, sent, step, target, progress, attempts, evalFrom, weightVars,
                 rolloutVars, loop, upd, stg, faults>>

\* Siblings of a failed rollout still in flight are cancelled, and awaited.
DropOnlyTasks(g) == Freed(TasksOf(g)) /\ UNCHANGED groups
DropGroup(g)     == DropGroups({g})

TakeRaised(s) ==
  /\ Taking(s) /\ slots[s] # None /\ slots[s].state = "raised"
  /\ LET g == slots[s].group
     IN  /\ DropGroup(g)
         /\ Forgotten(TasksOf(g))
         /\ pc' = IF TasksOf(g) = {s} THEN "process" ELSE "dropping"
  /\ watch' = watch \ {s}
  /\ UNCHANGED <<sent, step, target, progress, attempts, evalFrom, weightVars, loop,
                 stg, faults>>

Dropped ==
  /\ pc = "dropping" /\ pc' = "process"
  /\ UNCHANGED <<sent, step, target, watch, progress, attempts, evalFrom, weightVars,
                 rolloutVars, loop, upd, stg, faults>>

\* A rollout that came back: count it, and finalize the group with its last
\* one.  The buffer may keep all of the group's rollouts from the batch.
Tally(s) ==
  LET r == slots[s]  g == r.group  G == groups[g]
  IN  [G EXCEPT !.done   = IF r.state = "ok" THEN @ + r.count ELSE @,
                !.failed = IF r.state = "ok" THEN @ ELSE @ + 1,
                !.oldest = IF r.state = "ok" THEN Min({@, r.first}) ELSE @]

Complete(G)  == G.done + G.failed = GroupSize
Abandoned(r) == GroupScored /\ r.state = "bad"

TakeTallied(s) ==
  /\ Taking(s) /\ slots[s] # None /\ slots[s].state \in {"ok", "bad"}
  /\ LET g == slots[s].group  G == Tally(s)  over == Complete(G) \/ Abandoned(slots[s])
     IN  /\ groups' = [groups EXCEPT ![g] = IF over THEN None ELSE G]
         /\ \E lost \in BOOLEAN :
              /\ lost => faults > 0 /\ Complete(G) /\ ~Abandoned(slots[s]) /\ G.done > 0
              /\ faults' = IF lost THEN faults - 1 ELSE faults
              /\ progress' = IF over /\ ~Abandoned(slots[s]) /\ ~lost
                             THEN progress + G.done ELSE progress
  /\ Freed({s}) /\ Forgotten({s})
  /\ watch' = watch \ {s}
  /\ UNCHANGED <<pc, sent, step, target, attempts, evalFrom, weightVars, loop, stg>>

---------------------------------------------------------------------------
(* The rest of an orchestrator step.                                       *)

Send ==
  /\ pc = "filled"
  /\ sent' = sent + 1 /\ attempts' = 0 /\ progress' = 0
  /\ pc' = IF sent + 1 = MaxSteps THEN "done" ELSE "top"
  /\ UNCHANGED <<step, target, watch, evalFrom, weightVars, rolloutVars, loop, upd,
                 stg, faults>>

\* Every rollout of the batch was filtered out: generate it again, or give up.
Filtered ==
  /\ pc = "filled" /\ faults > 0
  /\ faults' = faults - 1
  /\ attempts' = attempts + 1 /\ progress' = 0
  /\ pc' = IF attempts + 1 = MaxAttempts THEN "crashed" ELSE "begin"
  /\ UNCHANGED <<sent, step, target, watch, evalFrom, weightVars, rolloutVars, loop,
                 upd, stg>>

\* The orchestrator has stopped, by itself or on an exception.
Stopped == pc \in {"done", "crashed"} /\ UNCHANGED vars

Generate ==
  \/ PickGroup \/ ScheduleGone \/ Schedule \/ FillDone
  \/ Collect \/ ProcessDone \/ Dropped
  \/ \E s \in Slots : TakeGone(s) \/ TakeRaised(s) \/ TakeTallied(s)

MainLoop ==
  \/ Generate \/ EvalCleared \/ EvalEnd \/ Begin \/ BarrierPassed \/ BarrierUpdate
  \/ BarrierCommit \/ CommitSwitch \/ CommitAnswered \/ Send

Faulty == UpdFail \/ StgFail \/ Filtered \/ CommitFail

Next ==
  \/ MainLoop \/ UpdateTask \/ StageTask \/ Poll \/ Publish \/ Faulty \/ Stopped
  \/ \E cancel \in BOOLEAN : EvalBegin(cancel)
  \/ \E s \in Slots, out \in Outcomes : Finish(s, out)

Spec == Init /\ [][Next]_vars

\* Tasks and files make progress, and rollouts eventually come back.  Faults
\* are never owed.
Fairness == /\ WF_vars(MainLoop) /\ WF_vars(UpdateTask) /\ WF_vars(StageTask)
            /\ WF_vars(CommitFail) /\ WF_vars(Publish)
            /\ \A s \in Slots : WF_vars(Finish(s, "ok"))
FairSpec == Spec /\ Fairness

---------------------------------------------------------------------------
(* Properties.                                                             *)

\* In-flight counters are exact, whoever suspends where: a rollout has been
\* overtaken by as many policies as were committed since it was scheduled,
\* less the one whose accounting is still suspended (_update_off_policy);
\* that one is not owed to a rollout that began after it.
\* With deltas, that is; one full update may pass several policies.
OffPolicyExact ==
  \A s \in Inflight :
    LET r == slots[s]
        owed == IF /\ upd.pc \in {"drop", "cancel"} /\ r.salt < ckptStep
                   /\ s \in upd.bump \/ r.group \in upd.stale
                THEN 1 ELSE 0
    IN  r.off + owed = ckptStep - r.salt

\* The finished rollouts of a group wait for their siblings no longer than
\* the siblings may live: the group is dropped with its stalest task.  A rate
\* limiter may let one policy pass between the siblings' starts.
GroupFresh ==
  \A g \in Live : groups[g].done > 0 =>
    ckptStep - groups[g].oldest
      <= MaxOff + (IF Limited THEN 1 ELSE 0) + (IF g \in upd.stale THEN 1 ELSE 0)

\* Every rollout of a live group is waiting, in flight, or accounted for, and
\* nothing is in flight for a group that is gone: the group always completes.
GroupAccounted ==
  /\ \A s \in Inflight : slots[s].group \in Live
  /\ \A g \in Live :
       groups[g].to + Count(TasksOf(g)) + groups[g].done + groups[g].failed = GroupSize

\* Commits wait for the barrier of generate_batch: a rollout begins on the
\* policy its cache salt names.
SaltIsPolicy == \A s \in Inflight : slots[s].salt = slots[s].first

\* Weights do not change under an evaluation (the comments of the evaluation
\* block of orchestrator.py).
EvalOneCheckpoint == pc = "eval" => weights = evalFrom

\* The orchestrator sends batch n only from policy n - 1 or newer, the pool
\* serves only policies that were published, in order.
Async == INSTANCE AsyncRL WITH served <- ckptStep
ImplementsAsync == Async!Spec

\* With every fault behind it the orchestrator sends its batches, or has
\* stopped on an exception: nobody waits for the gate, the stage or an update
\* that never comes.
StepsComplete == <>(pc \in {"done", "crashed"})
=============================================================================
