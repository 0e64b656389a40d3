# A verification project for aurora-rl

aurora-rl trains language models by asynchronous reinforcement learning: an
*orchestrator* generates rollouts on an *inference pool*, a *trainer* turns
batches of rollouts into new policies, and every new policy goes back to the
pool while rollouts are still running on it. This directory holds TLA+ models of
the parts of the code where that overlap happens, TLC configurations that check
them on small instances, and TLAPS proofs for every size of instance.

Paths below are relative to `src/src/prime_rl/` unless they begin with `src/`.

## 1. Results at a glance

| part of the system | modules | model-checked | proved for all constants |
|---|---|---|---|
| weight updates of one server | `WeightChain`, `StageServer` | ledger, staging, staged files, lock, refinement | type, ledger, staging, staged files, lock, refinement |
| lease-managed pool | `LeasePool` (refines `WeightChain` per server) | routing soundness, late requests, staged bookkeeping, recovery liveness, refinement | all but recovery |
| elastic pool | `ElasticPool` | exposed servers have the adapter, servers get in | type, exposed servers |
| weights over NCCL | `NcclBroadcast` | rendezvous order, served weights, nobody waits for ever | type, rendezvous order, served weights |
| scheduler and orchestrator step | `AsyncRL`, `PolicyScheduler` | off-policy accounting, staleness of groups, cache salts, step liveness, refinement | all but liveness; salts for the barrier protocol, counters, ages and policies per rollout for deltas |
| run registry across trainer ranks | `RunRegistry` | agreement of ranks, set-up of adapters | type, agreement, adapters |
| packing for several runs | `TenantPacker` | whole batches, own samples, aligned ranks, every batch trained on | all but liveness |
| a run over crashes and resumes | `TrainingRun` | labels of weights, retention, resumability, the run finishes | type, labels of weights, no file missing, resumability |

Three statements of the documentation or of comments were found not to describe
the code, each shown by a run (section 7): an evaluation may span two checkpoints
when weights are updated directly; the gradient of a batch spread over several
packs is scaled more than once; and a resume from the latest step may give
orchestrator and trainer different steps.

## 2. Inventory

### 2.1 The parts and how they talk

```
             batches (step files / ZMQ)            broadcasts/step_n + STABLE
 orchestrator ----------------------> trainer -----------------------------+
   main loop                           packer, run manager                  |
   Scheduler (asyncio tasks) <---------- polls the broadcast directory -----+
     |  rollouts (HTTP)    |  stage / commit / reload / load_lora / NCCL_READY
     v                     v
   inference pool: client side (StaticInferencePool, ElasticInferencePool)
     |
     v
   inference servers: FastAPI handlers -> engine RPC -> workers; relays
                                                        ^
 trainer ranks ------------- NCCL collective ----------+
 launcher: starts them all, ends them all, cleans up before a resume
```

The orchestrator, the pool's client side and each server's handlers are asyncio
programs: a task runs alone up to its next `await`, and what is hard in them
happens because a task reads shared state before an `await` and acts on it after.
The trainer is a set of ranks that synchronise by collectives and by files. A
crash ends all processes of a run and leaves the files.

### 2.2 Inference server (`inference/vllm/server.py`, `inference/patches.py`, `worker/*.py`)

- *State*: `staged_versions`, `stage_uploads`, `active_version`,
  `weights_dirty`, `weight_update_lock` on `app.state`; the weights in the
  workers; the table of LoRA adapters; temporary files.
- *Operations*: `/stage`, `/stage_stream_init|chunk|finalize`,
  `/stage_chunk|finalize`, `/commit`, `/reload_weights`, `/load_lora_adapter`;
  also `/update_weights`, `/init_broadcaster`, `/pause`, `/resume`.
- *Hard*: uploads suspended half-way while commits and reloads happen;
  validation and registration apart; engine RPCs that fail after some workers
  have applied a delta; concurrent uploads of one version; loads given up by
  their client that go on in the server.
- *Correct when*: a version number never claims weights that the workers do not
  hold; a staged delta applies to the active version, and its file stays as it was
  when it was finished; each delta is
  applied once and in order; the lock is always returned.

### 2.3 Pools, client side (`utils/client.py`, `utils/elastic.py`)

- *State*: per endpoint a lease (`healthy`, `quarantine`, `retired`,
  `recovering`) with its cooldown; `_active_version`, `_staged_endpoints`,
  `_delta_replay_entries`; `_weight_update_lock`. Elastic: `_servers` with their
  status, `_desired`, `_lock`.
- *Operations*: `stage_weights`, `commit_weights`, `update_weights`,
  `reload_weights`, `quarantine_client`, `get_next_client`, recovery by reload
  and replay; `sync`, `sync_weights`.
- *Hard*: partial failures, clients that give up on requests the server still
  executes, servers that restart silently under the same address, rollouts that
  quarantine an endpoint in the middle of an update.
- *Correct when*: an endpoint that rollouts are routed to serves the pool's
  policy; nothing abandoned can change it later; a pool that lost every endpoint
  gets one back; a listed server gets in.

### 2.4 Scheduler and orchestrator (`orchestrator/scheduler.py`, `orchestrator/orchestrator.py`)

- *State*: `step`, `ckpt_step`, `checkpoint_ready`, `inflight_requests` with
  `off_policy_steps`, `groups`, `inflight_policy_update_task`,
  `inflight_stage_task`, the batch under construction, `progress.step`.
- *Operations*: `generate_batch`, `schedule_rollout`, `drop_group`,
  `update_policy_loop`, `maybe_update_policy`, `_apply_policy_update`,
  `_stage_policy_update`, `_commit_staged_policy_update`,
  `_update_off_policy`, `cancel_inflight_rollouts`; around them the step:
  evaluation, empty-batch retries, checkpoints, sending the batch; resume.
- *Hard*: five kinds of tasks share the state above; an update is shielded from
  the cancellation of the loop that started it; the accounting of off-policy
  rollouts itself awaits; the gate is an event that several parties set.
- *Correct when*: batches come from recent enough policies, groups neither leak
  nor stall, the gate is opened again, and every step ends.

### 2.5 Trainer (`trainer/`, `transport/`) and launcher (`entrypoints/rl.py`)

- *Weight broadcast* (`trainer/rl/broadcast/*.py`, `trainer/rl/train.py`):
  `STABLE` markers, retention of old broadcasts, `NCCL_READY`.
- *Run manager* (`trainer/runs.py`): creation, deletion and eviction of runs,
  agreed on by the ranks; slots, `ready_to_update`.
- *Packer and batching* (`trainer/rl/packer.py`, `trainer/batch.py`), *transport*
  (`transport/*.py`), *optimizers* (`trainer/optim.py`), *checkpoints*
  (`trainer/ckpt.py`, `orchestrator/ckpt.py`).
- *Hard*: several runs share packs, ranks and micro batches, and each has its own
  count of steps; three writers of files keep and remove them by their own
  counts; a crash may fall between any two of them; collectives hang when one
  side does not come.
- *Correct when*: ranks agree on the run in each slot and on the collectives of a
  step; a batch is trained on once and as a whole; weights are named by the steps
  they have had; what is read is there; a run can be resumed and finishes.

### 2.6 Elsewhere

Relay seeds (`server.py` 84-490) fan updates out to peers. The delta codec
(`utils/delta.py`) transforms bytes. The configuration package only decides which
combinations of options exist. Model code, kernels, the SFT trainer and monitors
hold no state that the properties here could be about.

`PROJECT.json` lists every component with its status, and under `hazards` the
places in the code that are hard to test, each with the properties that would
catch it going wrong or the reason why none does.

## 3. Modules

| module | kind | content |
|---|---|---|
| `WeightChain` | abstract | what one endpoint promises about its weights |
| `StageServer` | component | the update handlers of one server |
| `StageServerProofs` | proofs | its type, ledger, staging, file, lock and refinement theorems |
| `LeasePool` | composition | the pool's client side with the servers it calls |
| `LeasePoolProofs` | proofs | its type, health, surprise and refinement theorems |
| `ElasticPool` | composition | discovered servers and the pool that brings them to an adapter |
| `ElasticPoolProofs` | proofs | its type theorem and that what is exposed matches |
| `NcclBroadcast` | composition | trainer ranks, orchestrator and workers around one collective |
| `NcclBroadcastProofs` | proofs | its type theorem, that nobody is early and what is served |
| `AsyncRL` | abstract | what asynchronous training promises |
| `PolicyScheduler` | component | the scheduler's tasks and the step around them |
| `PolicySchedulerProofs` | proofs | its refinement theorem and the theorems about rollouts |
| `RunRegistry` | component | the table of runs on the trainer's master and other ranks |
| `RunRegistryProofs` | proofs | its type theorem, that ranks follow and adapters are fresh |
| `TenantPacker` | composition | orchestrators' batches, packer, training step and broadcast of several runs |
| `TenantPackerProofs` | proofs | its type theorem, that buffers are the run's own, ranks aligned and steps whole batches |
| `TrainingRun` | composition | launcher, trainer, packer and orchestrator over crashes |
| `TrainingRunProofs` | proofs | its type, label, file and resumability theorems |
| `MC*` | instances | model values and symmetry for TLC |

How they fit together. `LeasePool` contains a server with the same ledger as
`StageServer` and coarser uploads; both implement `WeightChain`.
`PolicyScheduler` sees one endpoint: a rollout is pinned to one server, and that
every routed endpoint serves the same policy is `HealthyInSync` of `LeasePool`
(or `ExposedMatch` of `ElasticPool`), so one stands for all. `TrainingRun` has the
orchestrator of `PolicyScheduler` reduced to what `AsyncRL` promises of it (batch
n comes from policy n - 1 or newer), and so has `TenantPacker` for each of its
runs. `TenantPacker` has one process for the ranks, which `RunRegistry` justifies;
`RunRegistry` lets the packer choose any runs, which `TenantPacker` refines.
`NcclBroadcast` replaces the files of `TrainingRun` by the collective.

### 3.1 `StageServer`

One action per await-free stretch of a handler; several handlers
(`Handlers`) are in flight at once.

| code | actions |
|---|---|
| `/stage` and registration | `Stage`, `Register` |
| `/stage_stream_*` | `StreamInit`, `StreamOpen`, `StreamChunk`, `StreamWrite`, `StreamFinalize` |
| `/stage_chunk`, `/stage_finalize` | `ChunkArrive`, `ChunkWrite`, `ChunkFinalize` |
| `/commit` | `CommitBegin`, `CommitApplied`, `CommitFailed`, `CommitAgain`, `FanoutDone` |
| `/reload_weights` | `ReloadBegin`, `ReloadDone`, `ReloadFailed`, `FanoutDone` |
| death of the process | `Restart` |

`weights` is the policy the workers really hold, or `Mixed`; the code has no
such variable, and it is what `active_version` is judged against. `files` is
the staging directory: a file is the set of the chunks written to it and the set
of those whose bytes are not the trainer's, so overlapping, repeated and wrong
writes are visible and byte offsets are not. An upload's entry in
`stage_uploads` records what was received apart from the file, and a streaming
upload's two names are fixed when it begins: what a handler writes after its
`await` goes to the temporary name, whatever has become of the upload
(`Target`). The digest is compared where the code compares one: always in
`/stage_finalize`, if one was sent in `/stage_stream_finalize`, never in
`/stage`; `checked` in an entry remembers it. Names are those of the code, with
`uuid4` never drawing a name in use. `base_version` is always `version - 1`,
as the scheduler sends it. Requests refused before any assignment change
nothing and have no action. The lock's waiters are not ordered (a superset of
the FIFO order of `asyncio.Lock`).

### 3.2 `LeasePool`

The holder of `_weight_update_lock` is in one `phase`: `stage`, `restage` (the
late stage of endpoints without the version), `commit` or `recover`. Each
endpoint operation is a client coroutine (`task`: pause, send, wait, resume)
against a server with a FIFO `queue` of requests, because handlers queue on
`weight_update_lock` in order of arrival. `Abandon` is the client's time-out:
the request stays in the queue with `live = FALSE`. `Crash`, `Boot`,
`Quarantine` (a failed rollout) and `CoolDown` happen at any time. `lost` is
history: the server has died since it last proved its version, which no client
can know before its next answer.

### 3.3 `ElasticPool`

| in the code | state | actions |
|---|---|---|
| DNS, the pods | `listed`, `host`, `crashes` | `List`, `Unlist`, `Boot`, `Crash` |
| `load_lora_adapter` of the server | `host[s].loads`, `.root`, `.weights` | `LoadBegin`, `LoadDone`, `LoadFails` |
| `sync` under `_lock` | `lock`, `todo` | `SyncStart`, `Add`, `Remove`, `Check`, `SyncEnd` |
| `sync_weights` | `desired` | `UpdateStart`, `UpdateEnd` |
| `_sync_server_adapter`, `load_lora_adapter` of the client | `task`, `status` | `Query`, `SendLoad`, `LoadTimesOut`, `Unreachable`, `Verify` |

`root` is the path that `/v1/models` reports, `weights` what the engine runs:
the patched handler moves the first before the second. An adapter is the step it
was broadcast for, 0 the base model. `lost` is history as in `LeasePool`.

### 3.4 `NcclBroadcast`

| in the code | state | actions |
|---|---|---|
| each rank's loop around `broadcast_weights` | `rank` | `Skip`, `Notify`, `SeeReady`, `Train` |
| `STABLE`, `NCCL_READY` | `stable`, `marked` | `Notify`, `Post` |
| the orchestrator's barrier, poll and resume | `orch`, `sent` | `Resume`, `Barrier`, `Poll`, `SendBatch` |
| `_apply_policy_update`, `update_weights` | `upd`, `post` | `UpdStable`, `Pause`, `Post`, `UpdDone`; `PauseFails`, `PostFails`, `PostTimesOut` |
| workers in `update_weights_from_path` | `host` | `Transfer` |

The collective is one step that needs all ranks and one RPC in every worker. An
RPC whose request was given up stays in its worker (`rpcs`) and takes part in the
next collective.

### 3.5 `PolicyScheduler`

| task in the code | state | actions |
|---|---|---|
| main loop, `generate_batch` | `pc`, `watch`, `target` | `Begin` ... `Send`, `Filtered` |
| `update_policy_loop` | `loop` | `Poll` |
| `_apply_policy_update`, `_update_off_policy` | `upd` | `UpdBegin` ... `UpdDone`, `UpdFail` |
| `_stage_policy_update` | `stg` | `StgLanded`, `StgDone`, `StgFail` |
| one rollout | `slots` | `Schedule`, `Finish` |
| the trainer | `published` | `Publish` |

`Busy` says that the event loop is occupied by a stretch of the main loop
without an `await`: nothing else in the process moves then, though the engine
and the trainer do. `Finish` stands for the moment a rollout's task is done. An
update captures *task objects* before it suspends; here it captures slots, and a
slot that is freed leaves the captured set (`Forgotten`), which is the same
thing. Group ids are reused once nobody refers to them; the code's only grow.
`first` and `last` are the policies a rollout really began and ended on, which
the code does not record; `salt` and `off` are what it believes.

The options that change the control are constants: `Background` (the
`stage_commit` protocol with `background_stage`) or direct updates, `Delta` or
full checkpoints, a rate limiter, group scoring.

### 3.6 `RunRegistry`

| in the code | state | actions |
|---|---|---|
| the `run_*` directories | `dir`, `born` | `Create`, `Configure`, `Remove`, `GiveUp` |
| `id_2_idx`, on each rank | `table` | `Discover`, `Evict` (master), `SyncOther` |
| `_last_synced_id_2_idx` | `synced` | `SyncMaster` |
| the key `"runs"` of the c10d store | `store` | `Announce` |
| `ready_to_update` | `ready` | `Announce`, `SyncOther`, `Train` |
| what the hooks set up for a slot | `adapter` | `SyncMaster`, `SyncOther` |

`synchronize_state` is cut where ranks can overtake each other: publishing,
`dist.barrier()`, and each rank's own reading and hooks. `Train` is the rest of a
training step, which is collective and so brings the ranks together again.
`reg` and `reused` are history: the directory that a name stood for when it was
registered, and whether a name ever came back between two synchronisations. The
order in which new runs get free slots is that of a Python set: any.

### 3.7 `TenantPacker`

| in the code | state | actions |
|---|---|---|
| run directories and step files | `dir`, `outbox`, `stable` | `Create`, `Delete`, `Send` |
| `_get_batch`: discovery, receiver, eviction | `seat` | `GetBatch` |
| `pack`: `_select_samples_round_robin`, `_update_run_progress`, `prepare_batch` | `seat`, `position`, `packed` | `Pack` |
| synchronisation, forward and backward | `adapter`, `grad` | `Backward` |
| `MultiLoRAOptimizer.step`, `zero_grad` | `adapter`, `grad` | `OptimizerStep` |
| the top of the trainer's loop | `stable`, `seat` | `Broadcast` |

The selection of samples is stated as a set: `Offered` are the samples of current
steps, `Before` the order in which the loop looks at them from the round-robin
position on, and `Fitting` the longest beginning within the token budget.
The gradient of a slot is the set of samples that have been through a backward
pass since it was last zeroed, each with the number of times it has been scaled.
First fit by decreasing length, the padding of the groups and the dealing out to
the data-parallel ranks are translated as they stand: `Sorted` puts the samples in
the order of their lengths, `FirstFit` places them one after the other (`Placed`),
`PadGroup` and `Dealt` fill up and deal out the bins, `Prepared` does it for each
kind of bin. `Trained` is what is under way to the ranks.

### 3.8 `TrainingRun`

| in the code | state | actions |
|---|---|---|
| the trainer's loop and `SinglePacker` | `tr` | `TrainerTop`, `Notify`, `CleanBroadcasts`, `TrainerSave`, `TrainerSaved`, `PruneOne`, `Pruned`, `Receive`, `Train` |
| the orchestrator's loop | `orch` | `OrchResume`, `OrchSave`, `OrchSaved`, `LoadBegin`, `LoadEnd`, `SendBatch` |
| checkpoints, broadcasts, step files | `trained`, `orched`, `casts`, `batches` | all of these |
| `rl`, `clean_future_steps` | `up` | `Crash`, `Launch`, `Ended` |

A checkpoint or broadcast is `partial` while it is being written, a checkpoint also
while it is being removed: retention (`maybe_clean`) takes the checkpoints it drops
one after the other, the oldest first (`PruneOne`), and a crash may fall in the
middle of each. `tr.step` is
the trainer's progress and `tr.label` the packer's: the code restores them from
different places and names directories by the second. A restart is given its
step by somebody who looks at what is there (`Resume = "explicit"`), or finds it
itself (`"latest"`, `resume_step -1`).

Some definitions of these modules have a second version next to them that no
action uses (`StaleLate`, `ValidNoBase`, `CandidateOne`, ...). Each is a plausible
error in the definition that follows it; `PROJECT.json` `mutants` says which
property notices the exchange. They document how sensitive the properties are.

## 4. Runs

| run | instance | distinct states | question |
|---|---|---|---|
| `stage_server` | 2 handlers, 2 versions, 1 chunk, 1 stream, 2 finished files | 2 078 470 | Do ledger, staged entries and their files, and lock stay sound under interleaved and late uploads, commits, failures, reloads and restarts? |
| `lease_pool` | 2 endpoints, 2 deltas, 2 faults, `FairSpec` | 107 824 | Do all endpoints in routing serve the pool's policy, and does an empty pool recover? |
| `scheduler_direct` | direct updates, delta, limiter, 3 slots, groups of 2, batches of 2, `MaxOff` 0, 3 steps, 1 fault, `FairSpec` | 1 621 762 | Do rollouts begun during an update keep their counters, are groups accounted for when an update or a raising rollout drops them under `generate_batch`, is batch n made when policy n - 1 or newer is served, does every step end? |
| `scheduler_background` | background staging, delta, `MaxOff` 1, 4 steps, 1 fault, `FairSpec` | 406 988 | Are counters exact of rollouts that survive a commit, do the tighter bounds of the barrier protocol hold, does every step end? |
| `run_registry` | 3 names, 4 directories, 2 slots, 3 ranks | 878 136 | Do the ranks follow the master, on adapters set up for the runs they train? |
| `tenant_packer` | 2 runs, 2 slots, 2 ranks, 3 kinds of batch, 2 batches each, `FairSpec` | 72 189 | Is every batch trained on once and whole, its samples its own, the ranks aligned? |
| `training_run` | 6 steps, interval 2, 2 kept, 3 crashes, explicit resume, `FairSpec` | 31 755 | Are weights named rightly, files there when they are read, the run resumable at any time and finished in the end? |
| `elastic_pool` | 2 servers, 2 adapters, 2 faults, 2 deaths, `FairSpec` | 313 619 | Do exposed servers have the adapter, and do listed servers get in? |
| `nccl_broadcast` | 2 servers, 2 ranks, 5 steps, begun at 0 or resumed at 2, 3 faults, `FairSpec` | 12 857 | Is nobody in the collective too early, are the served weights those of `ckpt_step`, does everybody get on? |
| `eval_checkpoints` | direct updates, 1 slot, 2 steps | violation | Can an evaluation span two checkpoints? (section 7) |
| `scaled_once` | as `tenant_packer` with 1 batch each | violation | Is a gradient scaled once? (section 7) |
| `resume_latest` | 4 steps, interval 2, 2 crashes, latest resume | violation | Do all parts of a run resume from one step? (section 7) |

Every passing run completes its state space. `CHECK_DEADLOCK FALSE` appears where
the system may really stop: in `LeasePool`, when all deltas are committed, no
fault is left and every endpoint is healthy; in `RunRegistry`, when a rank has
raised or no run is left to create and to pack; in `TenantPacker`, when all
batches are trained on; in the schedulers and in `NcclBroadcast`, at the last
step, after an exception, or with the engines left paused. There, the liveness
properties (`StepsComplete`, `BatchesTrained`, `Ends`) say that the system stops
nowhere else, and catch a livelock as well.

### Why the bounds are enough

- *Handlers, endpoints, servers*: the hazards are between two parties: an upload
  and a commit, a commit and a reload, an endpoint that succeeded and one that did
  not. The proofs remove the bound for the server.
- *Versions, adapters*: the smallest number at which the base of a delta can be
  wrong in both directions, or a late load can undo a later one, is 2.
- *Chunks and files*: a chunk that is late or wrong, an upload finished under it and
  one of the same name need one chunk each; two finished files beside the streamed
  one are one that is registered, one that is to replace it and one on its way. With
  two chunks, so that a part may be missing, three finished files and one version
  `StagedIntact` holds as well (340 190 states), and it is proved for any number.
- *Faults*: two in the pools allow a failure and a failure of the recovery; three
  in `NcclBroadcast` a failed update, a failure of its retry and a failed resume of
  the engines.
- *Slots and groups*: groups of two in three slots leave one group partly
  scheduled, which is where drops and schedules meet.
- *Scheduler steps*: `OffPolicyExact` is about rollouts begun while an update
  awaits, which must not age, and about those that survive it, which must. Direct
  updates with `MaxOff` 0 have the first (each update drops what is in flight, also
  a group that waits for the limiter, which no update under one `generate_batch` can
  do with a larger `MaxOff`); `MaxOff` 1 in `scheduler_background` has the second: a
  group goes while another survives. Direct updates with `MaxOff` 1 have both and
  complete as well (1 828 625 states, with `TypeOK`, `ImplementsAsync` and
  `StepsComplete`). Four steps let a group collect rollouts over `MaxOff + 2`
  policies, where the bound of `GroupFresh` is tight.
- *Options of the scheduler*: both runs use deltas and score rollouts one by one,
  because `OffPolicyExact` and `GroupFresh` count versions, and a full checkpoint
  may pass several at once. With `Delta` and `GroupScored` exchanged, 4 slots,
  batches of 3 and 2 faults, `MCSchedulerBackground.cfg` without `OffPolicyExact`
  completes as well (63 131 states), also with `TypeOK`, `GroupAccounted` and
  `ImplementsAsync`; the theorems of section 6 say which options they cover.
- *Runs and ranks*: four directories of three names are three runs that compete
  for two slots, or runs that go and come back; two ranks besides the master can
  be at different points of `synchronize_state`.
- *Batches of `TenantPacker`*: one has three samples of different forms that do
  not fit one pack, one has a single sample, one has an invalid sample after a
  valid one; two runs and two batches are enough for packs shared by a batch that
  ends and one that begins.
- *Steps of `TrainingRun`*: three checkpoint intervals, so that retention
  (2 kept) removes one while a crash may fall between any two writers. With other
  values (5 steps and interval 3, 6 steps and interval 3, 7 steps, interval 3 and 3
  kept) it passes as well. Its safety properties are proved for all values;
  `StaysResumable` needs the conditions of `Retained`, see section 7.
- *Group numbers*: `GroupIds` has twice `MaxInflight` and one more, which the
  proofs show to be enough, so that a new group always finds a number.
- `MaxStreams`, `MaxVersion`, `MaxSteps`, `MaxStep`, `MaxFaults`, `MaxCrashes`,
  `MaxBorn`, `MaxDirs`, `MaxBatches` are the only caps, and each is a guard of the
  actions that count up.

### What the properties say

*Server.* `LedgerSound`: unless `weights_dirty` is up, the workers hold
`active_version`. `StagedFollowsActive`: a staged delta is the active version's
or its successor's, although validation and registration are apart.
`StagedIntact`: the file of what can be committed is in place and complete, and
without wrong bytes where a digest was compared, although a chunk may be read while
its upload is finalized, and entries are replaced, refused and dropped with their
files. `LockHeldInside`: the lock is with a handler inside a locked section, so
every way out has returned it. `ImplementsChain`: no delta is skipped or applied
twice, and only a reload leads out of a failed update.

*Lease pool.* `HealthyInSync`: what rollouts are routed to serves the pool's
policy; the exceptions (`Trusted`) are the windows in which the pool cannot know
better: its own operation is in flight, has just failed, or the process has died
silently. `NoSurprise`: no request that was given up waits on a healthy endpoint,
and what is noted as staged is staged. `PoolRecovers`: an empty pool gets an
endpoint back. `ImplementsChain` is checked per server.

*Elastic pool.* `ExposedMatch`: an exposed server reports the adapter of the
current step and, as long as no load has failed or been given up, runs it.
`ServersJoin`: a server that stays listed and up gets into routing for good.

*NCCL.* `NobodyEarly`: until a request fails, no rank is in the collective while
an engine runs (`trainer/rl/broadcast/nccl.py:203-208`). `ServesWhatItSays`: when
`ckpt_step` moves, every worker has the weights of that step, although left-over
RPCs receive what is meant for later ones. `Ends`: the run finishes, or a request
has failed and the orchestrator has ended it or left the engines paused.

*Scheduler.* `OffPolicyExact` compares `off_policy_steps` with the difference of
version numbers it stands for. How many policies a rollout in a batch may come from
is not checked but proved (`FewPolicies`, section 6), as it is not what the
documentation says (section 7). `GroupFresh` bounds how long finished rollouts wait
for their siblings. `GroupAccounted`: each rollout of a live group is waiting, in
flight or counted, and no task outlives its group, so a group always completes.
`SaltIsPolicy`: with the barrier, the cache salt of a rollout is the policy it
starts on (with direct updates it need not be, and the property says nothing of
them). `StepsComplete`: every step ends; in particular a closed `checkpoint_ready`
is opened again. `ImplementsAsync`: batch n leaves only when policy n - 1 or newer
is served; only published policies are served, never an older one again.

*Run registry.* `RanksFollow`: no rank raises while it follows the master, and
when a training step begins slots and ready flags are the same everywhere.
`AdapterFresh`: whatever sits in a slot, the slot was set up for it on every
rank. Both hold as long as no name is forgotten and found again between two
synchronisations (`reused`); section 7 says what happens otherwise.

*Packer.* `BufferOwn`: a slot's buffer holds samples of its run, for steps not
completed. `RanksAligned`: at every micro step all ranks have a batch of the same
run and modality. `StepIsBatch`: of its run's own samples the optimizer steps on
those of exactly one whole batch, whatever else is in the gradient is of an evicted
or deleted run, and the adapter that goes out as step n has had n such steps since
it was reset for its run (this half is `StepsCounted`).
`BatchesTrained`: a batch of a run that stays is trained on and broadcast.

*Training run.* `LabelIsStep`: a broadcast with `STABLE` holds as many optimizer
steps as its name says. `NothingMissing`: what the orchestrator resumes from or
loads is there until it has been read. `StaysResumable`: once there is a step with
both checkpoints and weights, there is one at any later moment. `Finishes`: after
finitely many crashes the final checkpoints are there.

## 5. Fairness

- *Lease pool*: weak fairness of coroutines, handlers, the holder's progress, the
  restart of a dead server by its supervisor and the passing of a cooldown; weak
  fairness of asking for a client again (schedulers and evaluations poll once a
  second while there is none) and strong fairness of serving that request, by the
  FIFO order of `asyncio.Lock`. Faults are bounded, not fair, and no policy is
  owed.
- *Scheduler*: weak fairness of the main loop, of the update and the stage task,
  of the trainer and of each rollout coming back. An evaluation may or may not
  be due, and polling is not assumed to happen: `StepsComplete` holds by the
  barrier alone.
- *Packer*: weak fairness of the trainer's loop; `pack` gives up waiting for a full
  budget after its timeout. Nobody has to create, feed or remove a run.
- *Training run*: weak fairness of trainer, orchestrator and of starting a run
  that has ended early again. Crashes are bounded.
- *Elastic pool*: weak fairness of the sync loop, the end of an update, each
  server's work on its loads and each request's end (an answer or a time-out). No
  adapter and no server is owed.
- *NCCL*: weak fairness of the ranks, the barrier, the sending of batches and the
  steps of an update; a time-out is only sure to strike when the collective
  cannot happen (`~Coming`), because it is longer than a transfer.
- *Server, run registry*: none; only safety is stated.

## 6. Proofs

All theorems hold for every value of the constants that meets the named assumptions
(`ConstantsAssumption`, `AbsentAssumption`, `SchedulerAssumption`, `PoolAssumption`,
`ElasticAssumption`, `NcclAssumption`, `RegistryAssumption`, `PackerAssumption`,
`RunAssumption`). These say that counts are natural numbers, that the values
standing for "none" are distinct from data, and what the code refuses to start with.
Where a theorem needs more it says so (`ASSUME ... PROVE`), and TLC shows what
happens otherwise. Each inductive invariant was checked by TLC before it was proved.

### 6.1 `StageServerProofs`

The safety properties are not inductive, because a commit reads `staged_versions`
and `active_version` before its RPC and uses them after. `IInv` adds `LockInv` (the
lock belongs to the one handler in a locked section), `DirtyInv` (the flag is up
while an RPC is open), `CommitInv` (the validated entry is still there and still
applies) and `LocalsInv` (what other suspended handlers remember). From it follow
`TypeCorrect`, `LedgerIsSound`, `StagedIsCommittable` and `LockIsReturned`.
`StagedStaysIntact` needs to know why nobody writes into or removes what is staged.
`OwnersInv`: a finished file is owned by one entry or by one handler waiting to
register it, and never has the name of a partial one, where late chunks go.
`StreamsInv`: an upload is opened once, and its final name is free until it is
finished, so that finishing it writes over nobody's file. `ServerImplementsChain`
maps each action to a step of `WeightChain` or a stutter; `CommitInv` is what makes
`CommitApplied` exactly one link.

### 6.2 `LeasePoolProofs`

The argument is local to an endpoint. `ServerInv` has what a server by itself
keeps: its queue, what is staged, and that an open commit raises the flag.
`TaskInv` ties the pool's coroutine to the queue, in which only the last request
can have a client waiting, and says, for an endpoint that is healthy or being
recovered and whose operation has not failed, how far its server is on the way
from the policy the operation starts at to the one it ends at. `GatherInv`,
`RecoverInv` and `SettledInv` are the pool's side: which operation that is in each
phase, and that between operations all healthy endpoints have completed the last
one. `TypeCorrect`, `HealthyServePolicy` and `NothingIsWaiting` follow;
`PoolImplementsChain` is proved per endpoint, a request at the head of the queue
being the link in progress.

### 6.3 `ElasticPoolProofs`

`HostAt` says that the loads a server has queued are in the order of the steps
they are for, none newer than the pool's step and none older than what the server
reports, and that the server runs what it reports while nothing has failed. So a
server that reports the pool's step can only be at work on that step. `LockInv`
keeps an update from moving the step under a server that is being asked, and
`StatusAt` says that a server is exposed from a matching answer to the next time it
is asked. `TypeCorrect`, `ExposedAreCurrent`.

### 6.4 `NcclBroadcastProofs`

Three parties that never talk to each other agree on one step. `RankInv` keeps the
ranks together and says that who sends a step has seen its marker; `OrchInv`, that
versions are asked for in increasing order and only once the trainer has reached
them; so what is sent is what is being asked for. `EngineInv` and `RpcInv` say which
RPCs an update has out and bound those that were given up (`TypeCorrect`: two in a
worker at most, `rpcs : 0 .. 2`). `EarlyInv` holds until the first fault: no
request times out, because the trainer is on its way to it, and a marker not yet
used means that the engines are paused. `EnginesArePaused`, `ServedIsWhatItSays`
(an action property).

### 6.5 `PolicySchedulerProofs`

- `SuspendedTasksSound`: `Spec => []SInv`. An update computes its version from
  `step` and `published`, is suspended, and commits when both may have moved;
  the batch leaves long after the barrier. `SInv` says what survives:
  `BarrierInv` (the barrier let this step pass; otherwise the pool is at most
  two behind), `UpdateInv` (an update in flight moves forward, to a published
  version or to the forced one the main loop awaits), `StageInv` (the same of
  the stage task).
- `SchedulerImplementsAsync`: from `SInv`, every step is a step of `AsyncRL` or a
  stutter.
- The rest is about the rollouts, by `RInv`. `CountersInv` and `WeightsInv` relate
  the served and the running policy at each point of an update; `CapturedInv` says
  what an update suspended in its accounting still holds: slots whose rollouts
  began before it. `SlotAt` (of every rollout in flight: its salt, its counter and
  the policies it has seen), `GroupAt` (of every live group: the sum of
  `GroupAccounted` and the age of what is finished) and `WaitingAt` (of what
  `generate_batch` waits for) are the parts of `RolloutsInv`.
- `TypeCorrect` and `GroupsComplete` hold in all four settings of the options.
  `SaltNamesPolicy` assumes `Background`: a direct update changes the policy under
  a rollout that is being scheduled. `CountersExact`, `FewPolicies` and
  `GroupsFresh` assume `Delta`: a full checkpoint may pass several versions and is
  counted once.
- `FewPolicies` is the bound the code keeps where the documentation has
  `max_off_policy_steps`: a rollout taken into a batch has been served by at most
  `max_off_policy_steps + 1` policies, and by one more with direct updates, where
  `generate_batch` can take it after the engine has switched and before the update
  task has dropped it.
- The sum of `GroupAccounted` counts tasks, so the lemmas on `Pairs` say how the
  number of rollouts of a group changes when one is scheduled, finished or
  dropped, and `FreshGroup` that there is a free group number: each of at most
  `MaxInflight` rollouts, and of as many groups begun without one in flight, holds
  one number. A proof with half as many numbers failed, and TLC confirmed that the
  bound of the model, not the code, was wrong.

### 6.6 `RunRegistryProofs`

The properties look at the moment after `synchronize_state`; what makes them hold
is decided before. `MasterInv` keeps the master's tables injective and its flags on
its runs, `PhaseInv` says which ranks can be where. While no name has come back
(`~reused`, which the properties assume), `FollowInv` says that a run that both the
master's table and a follower's know keeps its slot (`StayPut`), so that what a
follower works out from the names that are new and gone is the master's table, and
that what sits in a slot has been through the hooks. `TypeCorrect`,
`RanksStayTogether`, `AdaptersAreFresh`.

### 6.7 `TrainingRunProofs`

- `TypeCorrect`, for both ways to resume. `CountInv` adds that the trainer waits
  for a batch, and the orchestrator makes one, only before `max_steps`.
- The others are about `Resume = "explicit"`; `resume_latest` (section 7) shows the
  other way fail.
- `LabelFollowsStep`: `LabelIsStep`. `LabelInv` says how far the packer's count and
  the trainer's are apart at each point of the loop, and that a restart sets both
  to one step.
- `FilesStayForReaders`: `NothingMissing`, although the trainer removes by its own
  count and the orchestrator reads in its own time. `AheadInv` is the reason: a
  batch is sent under the policy before it or a newer one, so the packer is at most
  two ahead of the policy served, and the directory two behind the packer is not
  one still to be loaded. `FreshInv` adds that no directory is written over,
  `LoadInv` and `ResumeInv` that what is about to be read is there.
- `ResumePointRemains`: `StaysResumable`, under `Retained`. A step is lost as a
  resume point when its checkpoint is written over or removed. `SavedAt` and
  `OwedAt` say that any checkpoint behind the trainer has its weights and the
  orchestrator's checkpoint (`BehindIsComplete`), and `KeptInv` that these are the
  ones the checkpoint manager counts; so of the ones it keeps, one is complete
  (`RetentionKeeps`). Removing takes time and a crash may cut it off: the oldest
  goes first, and one that is half removed lies below a resume point that stays
  (`CutInv`). A checkpoint ahead is a left-over of an earlier start, and
  then there is a resume point behind (`LeftoverInv`). `Retained` has the three
  conditions without which TLC finds a violation (section 7).

### 6.8 `TenantPackerProofs`

- `BufferIsOwn`: `BufferOwn`, for any runs, slots, batches and token budget. Its
  invariant is `SeatOK`, one slot at a time: a buffer holds samples of the run in
  the slot, of steps from `progress` up to those received, in the order of steps
  (`BufferOK`), and a slot without a run is `Vacant`. The order is what makes
  completing a step right: when the first sample left is of a later step, all of
  them are. A discovery leaves a slot, frees it or gives it to a run that is live
  (`Rediscovered`); receiving appends samples of a step not received before.
- `BroadcastStepsCounted`: `StepsCounted`, a conjunct of `StepIsBatch`.
  `CountInv` says at each point of the loop how far the optimizer is behind the
  packer: by the step that is ready, or not started when the slot has passed to
  another run since. `PastInv` is needed for the latter: the run whose adapter is
  left in a slot does not come back, since
  a name is used once here (what happens otherwise is in section 7).
- A second invariant, `BatchInv`, follows every sample from the step file to the
  optimizer step; TLC checked it with one and two slots and one and two ranks before
  it was proved (`BatchInvariance`). Its parts are:
  - `WholeInv`: of the run in a slot, the samples of the steps received and not yet
    made (`Due`) are in the buffer, under way to the ranks or in `.grad`, and the
    latter two hold samples of one step only, the one the optimizer is to make next
    (`At`). A run whose directory is gone is exempt until it is discovered, as its
    step files are gone with it.
  - `Apart`: a run sits in one slot at most. Otherwise the samples of a pack, which
    are told apart by run, would reach the gradient of two slots.
  - `LeftoverInv`: a gradient left in a slot is of a run that does not come back, so
    that it never counts as part of a later run's batch.
  - `PackInv`: what is under way is a sequence of rows with one micro batch per rank
    (`Rows`), all of one run and modality and within the sequence length, and nothing
    is under way outside `sync`.
- What is packed is what was taken, no more and no less. The lemmas follow the
  samples through `prepare_batch`: sorting keeps them (`SortedRange`: as many places
  as samples, none used twice), first fit puts each into a bin of its run and kind
  (`FirstFitOK`), padding adds micro batches without samples (`PadGroupOK`), dealing
  out makes rows of the ranks and loses no bin (`DealtOK`, `PreparedOK`). A pack that
  is due takes something (`NextPositionOK`), so that the trainer has a row to work on.
- `TypeCorrect`, `RanksAreAligned` and `EveryStepIsABatch` (`StepIsBatch`) follow.
  For the last one, the optimizer steps the runs that are ready, and of those the
  packer has moved on to the next step: nothing of the step being made is left in the
  buffer, by the order in `BufferOK`, so by `WholeInv` all of it is in `.grad`; and
  what is there of another run is, by `LeftoverInv`, of one that is evicted or gone.

Sums, first fit and the dealing out are recursive functions over the places of a
sequence. The library's induction theorems cannot be instantiated here, so the
module proves induction up to a bound for a set instead of a predicate
(`Induction`, from the least element of a set of naturals), and from it that such a
recursion has its values (`Recursion`).

### 6.9 Only model-checked

- All liveness (`PoolRecovers`, `ServersJoin`, `Ends`, `StepsComplete`,
  `BatchesTrained`, `Finishes`): liveness under fairness and `ENABLED` are outside
  what the prover supports.
- The three claims that a run refutes (section 7): TLC's counterexample shows them.

Every invariant and every action property of a passing run is stated by a theorem.

## 7. Where documentation and code disagree, and other observations

Shown by a run:

- `eval_checkpoints` (`EvalOneCheckpoint`). `orchestrator/orchestrator.py:354`
  says that weight updates are paused through `checkpoint_ready` during an
  evaluation, line 373 that evaluating across different checkpoints is avoided.
  `update_policy_loop` does not look at the event, and without background staging
  it applies the update. The event holds back the processing of rollouts, not the
  update. With background staging commits wait for the barrier.
- `scaled_once` (`ScaledOnce`). `trainer/rl/train.py:537-538` says that FSDP's
  averaging is undone so that the gradient is the true mean over the batch. The
  factor is applied to every gradient after every pack, also to the part of an
  incomplete batch that earlier packs left in `.grad`, which is so scaled once per
  pack.
- `resume_latest` (`OneResumeStep`). `src/docs/training.md:205-221` has one
  `checkpoints/step_N` for both parts and `--ckpt.resume-step -1` for the latest.
  Trainer and orchestrator write to different directories at different moments
  and each looks for its own latest.

Met while modelling, stated as the conditions under which a property holds:

- *Policies of one rollout* (`FewPolicies`). `src/docs/training.md:61` ("How many
  distinct policies may have contributed to one rollout before it's discarded") and
  `configs/orchestrator.py:691` of the configuration package ("Maximum policies
  allowed to generate a single rollout") describe `max_off_policy_steps` as a number
  of policies. `_update_off_policy` counts changes of policy
  (`orchestrator/scheduler.py:641`) and drops a rollout at the change after that
  many, so a kept one may come from one policy more, in either protocol: TLC finds a
  rollout of two policies in a batch with `max_off_policy_steps` 1, directly updated
  and with background commits. With direct updates it may come from two more.
- *Reused run names* (`reused` in `RunRegistry`). `trainer/runs.py:96` says that
  creation hooks are called when a new run is added. `synchronize_state` compares
  names (line 426): a run forgotten and discovered again under its name between
  two synchronisations gets no hooks and trains on what the previous run left. If
  it also came back in another slot the ranks disagree, and when a third run takes
  the old slot they raise `KeyError`.
- *A gradient left behind* (`StepIsBatch` speaks of the run's own samples, and only
  says whose the others may be). The `.grad` that a run deleted in the middle of a
  batch leaves on the parameters of its slot is neither zeroed nor reset for the
  next run (`trainer/optim.py:289`).
- *Padding and adapters.* `trainer/batch.py:249-251` counts padding tokens to the
  last adapter; `multi_moe.py:325` chooses an adapter by the largest count. A micro
  batch shorter than its padding would use the wrong one. `TenantPacker` pads
  nothing to a length.
- *Retention* (`StaysResumable`, `Retained` in `TrainingRunProofs`). With one kept
  checkpoint there is a moment between the writers at which no step is complete.
  With two the same happens when `max_steps - 1` is a multiple of the interval: the
  trainer saves there and counts it among the ones it keeps, the orchestrator does
  not save at `max_steps - 1` (`orchestrator.py:334-340`). And when `max_steps` is a
  multiple of the interval the orchestrator saves there twice, at the top of the
  loop and after it (lines 344 and 807); while the second one is written, the run
  cannot be resumed at all if no earlier step was saved by both, as with
  `max_steps` equal to the interval.
- *Left-overs of a crash.* `clean_future_steps` removes rollouts and broadcasts
  past the resume step, not checkpoints, and keeps the rollouts of the resume step
  itself (`step > resume_step`, `utils/pathing.py:165`): the trainer trains on them
  at once. `AheadInv` counts this batch.
- *Cache salts with direct updates* (`SaltIsPolicy` is about the barrier protocol). A
  rollout scheduled between the engine's switch and the assignment of `ckpt_step`
  carries the salt of the policy before (`orchestrator/scheduler.py:312`, 460-471).
- *Silent restarts* (`lost` in `LeasePool`). A server that dies and comes back
  between two operations serves the base model until its next answer;
  `HealthyInSync` leaves it out, since no client can know.
- *Elastic pool.* A load over a known adapter that fails, or goes on after it was
  given up, leaves a server reporting an adapter it does not run
  (`inference/patches.py:464`), and the pool compares reports. A server that
  restarts between two health checks keeps its status `ready` until the next
  update (`utils/elastic.py:428`). `ExposedMatch` excludes both.
- *NCCL.* `_pause_engines` is outside the `try` whose `finally` resumes
  (`utils/client.py:861`): after a failed pause the other engines stay paused, and
  the loop that would try again has ended (`Abandoned`). Right after a resume no
  run is notified and the ranks enter the collective without waiting for
  `NCCL_READY`. Resumed at `max_steps - 1` the trainer has no broadcast to make
  while the orchestrator asks for one (excluded by `NcclAssumption`). An update
  tried again for a step that was already sent ends by its time-out only.

## 8. Not modelled, and why

- `/update_weights` without NCCL on the server; relay peers beyond the suspension
  point of their fan-out; disk space of abandoned uploads.
- The static pool without leases, and the pool's direct `reload_weights`.
- Files named by path in `/stage`, which the server never removes, after their entry
  is gone; failures of `shutil.rmtree`, and a broadcast directory of which a crash
  leaves a part: it is two steps behind and neither a resume point nor loaded again.
- In `TenantPacker`: a batch file that cannot be decoded yet, which the receiver
  reads again at its next poll, as if it came later; runs that begin at a resumed
  step.
- Which client a rollout goes to; metrics; LoRA names; eviction by the
  orchestrator; conversion of rollouts to training samples.
- In the run registry: the loop in which `setup_optimizer` waits for run 0 of a
  single-run trainer, scaling factors, parsed configurations, directories that are
  modified while they are read. The per-run checkpoints of `trainer/multi_ckpt.py`,
  whose hazard is a storage failure on one rank only.
- ZMQ transport; padding and context parallelism in batching; weight-only
  checkpoints; multi-node launchers; a resume in delta mode, which the code
  refuses.
- The delta codec: sequential code over bytes, compared with a reference decoder
  by its own tests.
- Model definitions, kernels, quantisation, losses, tensor layouts, the SFT loop,
  configuration classes, monitors: they are most of the repository's lines and
  keep no state that a property here could tell apart.

## 9. Plan

Done: all modules of section 3, with theorems about all of them. Next:

1. `RelaySeed`: the seed and its relays, refining `WeightChain` per relay.
2. `RunCheckpoint` (`trainer/multi_ckpt.py`): a failure on one rank inside `save`
   and the barriers of the others.
3. Pure algorithms: merging of received ranges, the index codec of deltas.
