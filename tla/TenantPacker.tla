---------------------------- MODULE TenantPacker ----------------------------
(***************************************************************************)
(* A trainer shared by several LoRA runs ("tenants"): the orchestrators'    *)
(* step files (transport/filesystem.py), the packer of the master rank      *)
(* (trainer/rl/packer.py, MultiPacker), the training step                   *)
(* (trainer/rl/train.py) with one optimizer per slot (trainer/optim.py),    *)
(* and the broadcast of adapters (trainer/rl/broadcast/filesystem.py).      *)
(*                                                                         *)
(* A pack takes samples of several runs up to a token budget.  Each pack    *)
(* is one forward and backward pass, so the gradient of a run's batch is    *)
(* gathered over as many packs as the batch is spread over, and its         *)
(* optimizer steps when the packer says that the batch is complete.         *)
(*                                                                         *)
(* Abstractions.  The ranks are one process: RunRegistry shows that they    *)
(* agree.  A run name is used once.  A sample is its place in the batch,    *)
(* its length and its form, which says whether it has images and otherwise  *)
(* its training mode; length 0 stands for any sample _validate_sample       *)
(* rejects.  Without context parallelism nothing is padded to a length.     *)
(* The timeout of pack may strike whenever something can be packed.         *)
(***************************************************************************)
EXTENDS Naturals, FiniteSetsExt, SequencesExt

CONSTANTS
    Runs,        \* run_* directories, each created once
    NoRun,       \* a slot without a run
    NumSlots,    \* max_concurrent_runs
    SeqLen,      \* model.seq_len, in tokens
    DpSize,      \* dp_world_size, the trainer's data-parallel ranks
    BatchKinds,  \* the batches an orchestrator may write
    MaxBatches   \* bound: batches of one run

ASSUME PackerAssumption ==
    /\ NumSlots \in Nat \ {0} /\ SeqLen \in Nat \ {0} /\ DpSize \in Nat \ {0}
    /\ MaxBatches \in Nat /\ NoRun \notin Runs
    /\ BatchKinds \subseteq Seq([size : 0 .. SeqLen, form : {"rl", "sft", "image"}])

VARIABLES
    dir,       \* run -> "none", "live", "evicted" (control/evicted.txt), "gone"
    outbox,    \* run -> the batches written to rollouts/step_n, in order
    stable,    \* run -> newest broadcasts/step_n with its STABLE file
    seat,      \* slot -> the master's data about the run in it
    position,  \* _round_robin_position
    packed,    \* data-parallel rank -> the micro batches sent to it
    adapter,   \* slot -> whose parameters and optimizer they are, and their steps
    grad,      \* slot -> the samples whose gradient .grad holds
    pc         \* where the trainer's loop stands

envVars == <<dir, outbox>>
trainVars == <<adapter, grad>>
vars == <<envVars, stable, seat, position, packed, trainVars, pc>>

Slots == 0 .. NumSlots - 1
Ranks == 1 .. DpSize
Budget == SeqLen * DpSize

(* buffer: self.buffers[idx]; received: the receiver's _received_steps[idx].*)
Vacant == [run |-> NoRun, progress |-> 0, ready |-> FALSE, received |-> 0, buffer |-> << >>]

Sample(r, n, i) ==
    [run |-> r, step |-> n, i |-> i,
     size |-> outbox[r][n + 1][i].size, form |-> outbox[r][n + 1][i].form]

Forms == {"rl", "sft", "image"}
Samples == [run : Runs, step : 0 .. MaxBatches, i : Nat, size : 1 .. SeqLen, form : Forms]
MicroBatches == [run : Runs, form : Forms, samples : Seq(Samples)]

(* A gradient and whether the division by the ranks was undone for it more  *)
(* than once.                                                               *)
Grads == [run : Runs, step : 0 .. MaxBatches, i : Nat, times : {0, 1, 2}]

TypeOK ==
    /\ dir \in [Runs -> {"none", "live", "evicted", "gone"}]
    /\ \A r \in Runs : outbox[r] \in Seq(BatchKinds) /\ Len(outbox[r]) <= MaxBatches
    /\ stable \in [Runs -> 0 .. MaxBatches]
    /\ \A s \in Slots :
         /\ seat[s].run \in Runs \cup {NoRun} /\ seat[s].ready \in BOOLEAN
         /\ seat[s].progress \in 0 .. MaxBatches /\ seat[s].received \in 0 .. MaxBatches
         /\ seat[s].buffer \in Seq(Samples)
         /\ grad[s] \subseteq Grads
    /\ position \in Slots
    /\ packed \in [Ranks -> Seq(MicroBatches)]
    /\ adapter \in [Slots -> [run : Runs \cup {NoRun}, steps : 0 .. MaxBatches]]
    /\ pc \in {"top", "pack", "polled", "sync", "step"}

Init ==
    /\ dir = [r \in Runs |-> "none"]
    /\ outbox = [r \in Runs |-> << >>]
    /\ stable = [r \in Runs |-> 0]
    /\ seat = [s \in Slots |-> Vacant]
    /\ position = 0 /\ packed = [w \in Ranks |-> << >>]
    /\ adapter = [s \in Slots |-> [run |-> NoRun, steps |-> 0]]
    /\ grad = [s \in Slots |-> {}]
    /\ pc = "top"

-----------------------------------------------------------------------------
(* The orchestrators and whoever starts and removes them.                   *)

Create(r) ==
    /\ dir[r] = "none"
    /\ dir' = [dir EXCEPT ![r] = "live"]
    /\ UNCHANGED <<outbox, stable, seat, position, packed, trainVars, pc>>

(* The directory goes with everything in it.                                *)
Delete(r) ==
    /\ dir[r] \in {"live", "evicted"}
    /\ dir' = [dir EXCEPT ![r] = "gone"]
    /\ outbox' = [outbox EXCEPT ![r] = << >>]
    /\ stable' = [stable EXCEPT ![r] = 0]
    /\ UNCHANGED <<seat, position, packed, trainVars, pc>>

(* Batch n is generated from policy n - 1 or newer (AsyncRL), and renamed   *)
(* to its final name when it is complete.                                   *)
Send(r, batch) ==
    /\ dir[r] = "live"
    /\ Len(outbox[r]) < MaxBatches /\ Len(outbox[r]) <= stable[r] + 1
    /\ outbox' = [outbox EXCEPT ![r] = Append(@, batch)]
    /\ UNCHANGED <<dir, stable, seat, position, packed, trainVars, pc>>

-----------------------------------------------------------------------------
(* _get_batch *)

Known(t) == {t[s].run : s \in Slots} \ {NoRun}

(* Mutant: the forgotten hook is not registered. *)
ForgetRunOnly(x) == [x EXCEPT !.run = NoRun, !.progress = 0]
(* _delete_run_data and the forgotten hook _on_run_data_deleted.            *)
Forget(x) == Vacant

(* The tables that put new runs into free slots, as many as there is room   *)
(* for, in whatever order the set of names is iterated.                     *)
Placements(kept, live) ==
    LET new  == live \ Known(kept)
        free == {s \in Slots : kept[s].run = NoRun}
    IN  {[s \in Slots |-> IF s \in free THEN [kept[s] EXCEPT !.run = f[s]] ELSE kept[s]] :
            f \in {g \in [free -> new \cup {NoRun}] :
                     /\ \A s1, s2 \in free : g[s1] = g[s2] /\ g[s1] # NoRun => s1 = s2
                     /\ \/ \A r \in new : \E s \in free : g[s] = r
                        \/ \A s \in free : g[s] # NoRun}}

(* discover_runs, with directories d.                                       *)
Discovered(t, d) ==
    Placements([s \in Slots |-> IF t[s].run # NoRun /\ d[t[s].run] # "live"
                                THEN Forget(t[s]) ELSE t[s]],
               {r \in Runs : d[r] = "live"})

Receivable(x) ==
    /\ x.run # NoRun /\ ~x.ready
    /\ x.received < Len(outbox[x.run])

(* How many samples are appended before the first invalid one.              *)
Valid(batch) ==
    LET bad == {i \in DOMAIN batch : batch[i].size = 0}
    IN  IF bad = {} THEN Len(batch) ELSE Min(bad) - 1

(* One batch of the run is read and its samples buffered up to an invalid   *)
(* one.  A file that does not decode is read again at the next poll, as if   *)
(* it had come later; runs begin at step 0, not at a resumed one.           *)
Received(x) ==
    LET n == x.received
        got == [i \in 1 .. Valid(outbox[x.run][n + 1]) |-> Sample(x.run, n, i)]
    IN  IF Receivable(x)
        THEN [x EXCEPT !.received = n + 1, !.buffer = @ \o got]
        ELSE x

(* A batch that is empty or holds an invalid sample evicts its run.         *)
Evicted(t) ==
    {t[s].run : s \in {z \in Slots :
        /\ Receivable(t[z])
        /\ LET batch == outbox[t[z].run][t[z].received + 1]
           IN  batch = << >> \/ Valid(batch) < Len(batch)}}

GetBatch ==
    /\ pc \in {"pack", "polled"} /\ pc' = "polled"
    /\ \E t \in Discovered(seat, dir) :
         /\ dir' = [r \in Runs |-> IF r \in Evicted(t) THEN "evicted" ELSE dir[r]]
         /\ seat' \in Discovered([s \in Slots |-> Received(t[s])], dir')
    /\ UNCHANGED <<outbox, stable, position, packed, trainVars>>

-----------------------------------------------------------------------------
(* pack *)

Workable(x) == x.buffer # << >> /\ x.buffer[1].step <= x.progress

(* _count_tokens is positive: some run has a sample of its current step.    *)
Counted == {s \in Slots : seat[s].run # NoRun /\ Workable(seat[s])}

(* The head of a buffer, up to a later step.                                *)
Current(x) ==
    SubSeq(x.buffer, 1,
           Cardinality({k \in DOMAIN x.buffer :
                          \A j \in 1 .. k : x.buffer[j].step <= x.progress}))

(* _select_samples_round_robin looks into the slots in turn, from the       *)
(* round-robin position on.  Offered is what it would select if nothing      *)
(* stopped it, <<s, k>> being the k-th sample in the buffer of slot s.       *)
Turn(s) == (s + NumSlots - position) % NumSlots
Offered == UNION {{s} \X DOMAIN Current(seat[s]) : s \in Slots}

Before(p, o) == Turn(p[1]) < Turn(o[1]) \/ (p[1] = o[1] /\ p[2] < o[2])

Tokens(S) == MapThenSumSet(LAMBDA o : seat[o[1]].buffer[o[2]].size, S)

(* How far the budget lets it go.  (A sample that alone exceeds the budget   *)
(* does not pass _validate_sample.)                                         *)
Fitting(Q) ==
    UNION {P \in {{p \in Q : ~Before(o, p)} : o \in Q} : Tokens(P) <= Budget}

(* How many of them come from the head of the buffer of slot s.             *)
Taken(S, s) == Cardinality({k \in DOMAIN Current(seat[s]) : <<s, k>> \in S})

(* The position has moved past the last run that was looked into, whether   *)
(* or not a sample of it did fit.                                           *)
NextPosition(Q, S) ==
    LET more  == IF Tokens(S) < Budget THEN Q \ S ELSE {}
        turns == {Turn(o[1]) : o \in S}
        last  == IF more = {} THEN Max(turns) ELSE Min({Turn(o[1]) : o \in more})
    IN  (position + last + 1) % NumSlots

Completed(x) == x.buffer = << >> \/ x.buffer[1].step > x.progress

(* _update_run_progress, for the runs that were selected from.              *)
Progressed(x) ==
    IF Completed(x) THEN [x EXCEPT !.progress = @ + 1, !.ready = TRUE] ELSE x

Total(samples) ==
    LET sum[n \in 0 .. Len(samples)] == IF n = 0 THEN 0 ELSE sum[n - 1] + samples[n].size
    IN  sum[Len(samples)]

(* Longer samples first, otherwise in the order they have (sort is stable): *)
(* the p-th sample is the one that p - 1 samples come before.               *)
Sorted(samples) ==
    LET before(j, k) == \/ samples[j].size > samples[k].size
                        \/ samples[j].size = samples[k].size /\ j < k
        place(k) == Cardinality({j \in DOMAIN samples : before(j, k)}) + 1
    IN  [p \in DOMAIN samples |-> samples[CHOOSE k \in DOMAIN samples : place(k) = p]]

(* The micro batches sample x fits into.                                    *)
Bins(bs, x) ==
    {k \in DOMAIN bs : bs[k].form = x.form /\ Total(bs[k].samples) + x.size <= SeqLen}

Alone(x) == [run |-> x.run, form |-> x.form, samples |-> <<x>>]

(* The first of them gets it; if there is none, one of its own.             *)
Filled(bs, x) ==
    IF Bins(bs, x) = {} THEN Append(bs, Alone(x))
    ELSE [bs EXCEPT ![Min(Bins(bs, x))].samples = Append(@, x)]

(* An image always has one of its own.  Images and texts are listed apart,  *)
(* as prepare_batch does.                                                   *)
Placed(bins, x) ==
    IF x.form = "image" THEN [bins EXCEPT !.image = Append(@, Alone(x))]
                        ELSE [bins EXCEPT !.text = Filled(@, x)]

(* packed_samples_into_micro_bs: first fit, by decreasing length.           *)
FirstFit[samples \in Seq(Samples)] ==
    LET bins[n \in 0 .. Len(samples)] ==
          IF n = 0 THEN [image |-> << >>, text |-> << >>]
                   ELSE Placed(bins[n - 1], Sorted(samples)[n])
    IN  bins[Len(samples)]

(* _pad_group_for_distribution: batches of zero loss, like the first, until *)
(* every rank has as many.                                                  *)
PadGroup(bs) ==
    IF bs = << >> THEN bs
    ELSE bs \o [k \in 1 .. (DpSize - 1) - ((Len(bs) - 1) % DpSize) |-> [bs[1] EXCEPT !.samples = << >>]]

(* Micro batches are dealt out to the ranks in turn: a row for each step.   *)
Dealt(bs) ==
    [k \in 1 .. Len(bs) \div DpSize |-> SubSeq(bs, (k - 1) * DpSize + 1, k * DpSize)]

(* Mutant: the modalities are padded together. *)
PreparedTogether(samples) ==
    LET bins == FirstFit[samples] IN Dealt(PadGroup(bins.image \o bins.text))

(* prepare_batch: images first.                                             *)
Prepared(samples) ==
    LET bins == FirstFit[samples] IN Dealt(PadGroup(bins.image) \o PadGroup(bins.text))

(* Enough tokens, or the timeout has struck and there are some.  No micro   *)
(* batch mixes runs.                                                        *)
Pack ==
    /\ pc = "polled" /\ pc' = "sync" /\ Counted # {}
    /\ \E Q \in {Offered} : \E S \in {Fitting(Q)} :
         /\ \E grid \in {[k \in 1 .. NumSlots |-> Prepared(SubSeq(seat[k - 1].buffer, 1, Taken(S, k - 1)))]} :
            \E rows \in {FlattenSeq(grid)} :
               packed' = [w \in Ranks |-> [k \in DOMAIN rows |-> rows[k][w]]]
         /\ position' = NextPosition(Q, S)
         /\ seat' = [s \in Slots |->
               LET x == [seat[s] EXCEPT !.buffer = SubSeq(@, Taken(S, s) + 1, Len(@))]
               IN  IF Taken(S, s) > 0 THEN Progressed(x) ELSE x]
    /\ UNCHANGED <<envVars, stable, trainVars>>

-----------------------------------------------------------------------------
(* synchronize_state and the training step *)

(* reset_run_parameters and the creation hooks: a new adapter and a new     *)
(* optimizer.  Nothing resets .grad.                                        *)
Hooked(s) ==
    IF seat[s].run = adapter[s].run THEN adapter[s] ELSE [run |-> seat[s].run, steps |-> 0]

(* The samples in the micro batches of all ranks.                           *)
Trained == UNION {Range(b.samples) : b \in UNION {Range(packed[w]) : w \in Ranks}}

(* The gradients of the packed samples are added to those of earlier packs; *)
(* every gradient there is is multiplied by fsdp_gradient_divide_factor.    *)
Accumulated(s) ==
    LET new == {[run |-> x.run, step |-> x.step, i |-> x.i, times |-> 0] :
                  x \in {y \in Trained : y.run = seat[s].run}}
    IN  {[g EXCEPT !.times = Min({@ + 1, 2})] : g \in grad[s] \cup new}

Backward ==
    /\ pc = "sync" /\ pc' = "step"
    /\ adapter' = [s \in Slots |-> Hooked(s)]
    /\ grad' = [s \in Slots |-> Accumulated(s)]
    /\ packed' = [w \in Ranks |-> << >>]
    /\ UNCHANGED <<envVars, stable, seat, position>>

Ready == {s \in Slots : seat[s].ready}

(* Mutant: all gradients are dropped, as the optimizer of a single run does. *)
ZeroGradAll(s) == {}
ZeroGrad(s) == IF s \in Ready THEN {} ELSE grad[s]

(* Mutant: every optimizer steps. *)
StepAll == {s \in Slots : seat[s].run # NoRun}
StepSet == Ready

(* optimizer.step and zero_grad, of the runs that are ready to update.      *)
OptimizerStep ==
    /\ pc = "step" /\ pc' = "top"
    /\ adapter' = [s \in Slots |-> IF s \in StepSet THEN [adapter[s] EXCEPT !.steps = @ + 1]
                                                   ELSE adapter[s]]
    /\ grad' = [s \in Slots |-> ZeroGrad(s)]
    /\ UNCHANGED <<envVars, stable, seat, position, packed>>

(* Mutant: the flags are left as they are. *)
KeepFlag(x) == x
ClearFlag(x) == [x EXCEPT !.ready = FALSE]

(* The top of the loop: the adapters of the runs that are ready go out as   *)
(* step progress, unless their directory has gone.                          *)
Broadcast ==
    /\ pc = "top" /\ pc' = "pack"
    /\ stable' = [r \in Runs |->
          IF \E s \in Ready : seat[s].run = r /\ dir[r] # "gone"
          THEN seat[CHOOSE s \in Ready : seat[s].run = r].progress ELSE stable[r]]
    /\ seat' = [s \in Slots |-> ClearFlag(seat[s])]
    /\ UNCHANGED <<envVars, position, packed, trainVars>>

-----------------------------------------------------------------------------
Env == \E r \in Runs : Create(r) \/ Delete(r) \/ \E b \in BatchKinds : Send(r, b)

Trainer == GetBatch \/ Pack \/ Backward \/ OptimizerStep \/ Broadcast

Next == Env \/ Trainer

Spec == Init /\ [][Next]_vars

(* The trainer's loop goes on, and the packer gives up waiting for a full    *)
(* budget.  Nobody has to create, feed or remove a run.                      *)
Fairness == WF_vars(Trainer)

FairSpec == Spec /\ Fairness

-----------------------------------------------------------------------------
(* Properties *)

(* What a slot's buffer holds was written by the run that sits in it, for a
   step it has not completed, although directories come and go while batches
   are received and a batch that evicts its run may have been buffered in part
   (_on_run_data_deleted, "to prevent stale data from remaining"). *)
BufferOwn ==
    \A s \in Slots : \A k \in DOMAIN seat[s].buffer :
        seat[s].buffer[k].run = seat[s].run /\ seat[s].buffer[k].step >= seat[s].progress

(* At every micro step all ranks do the same collectives: they have as many
   micro batches, of the same run and of the same modality, none longer than
   the sequence, whatever runs and forms share the pack (prepare_batch: "If one
   rank processes a multimodal batch while another processes a text-only batch,
   the all-gather will hang"). *)
RanksAligned ==
    \A w \in Ranks :
        /\ Len(packed[w]) = Len(packed[1])
        /\ \A k \in DOMAIN packed[w] :
             LET b == packed[w][k]
             IN  /\ b.run = packed[1][k].run
                 /\ (b.form = "image") <=> (packed[1][k].form = "image")
                 /\ Total(b.samples) <= SeqLen
                 /\ \A x \in Range(b.samples) : x.run = b.run /\ x.form = b.form

(* An adapter that goes out as step n is that of the run it goes out for and
   has had n optimizer steps since it was reset, although the packer counts the
   batches of a run, the optimizer its own steps, and a slot may have passed
   from one run to another between any two of them (_update_run_progress,
   MultiLoRAOptimizer.step, optimizer_creation_hook). *)
StepsCounted ==
    pc = "top" => \A s \in Ready :
        adapter[s] = [run |-> seat[s].run, steps |-> seat[s].progress]

(* Besides, each of these steps was on one whole batch: of the run's own
   samples the gradient holds every one of that batch and none of another,
   however the batch was spread over packs it shared with other runs
   (_update_run_progress, MultiLoRAOptimizer.zero_grad).  What else is in the
   slot's .grad was left by a run evicted or deleted in mid-batch, never by one
   that goes on elsewhere: nothing zeroes it for the slot's next run
   (optimizer_creation_hook), which steps on it too. *)
StepIsBatch ==
    /\ StepsCounted
    /\ pc = "step" => \A s \in Ready :
        LET r == seat[s].run
            n == seat[s].progress - 1
        IN  /\ dir[r] # "gone" =>
                 {<<g.step, g.i>> : g \in {h \in grad[s] : h.run = r}}
                   = {<<n, i>> : i \in DOMAIN outbox[r][n + 1]}
            /\ \A g \in grad[s] : g.run # r => dir[g.run] \in {"evicted", "gone"}

(* Every batch of a run that stays is trained on and its adapter broadcast,
   whatever batches the other runs send. *)
BatchesTrained ==
    \A r \in Runs, n \in 1 .. MaxBatches :
        (r \in Known(seat) /\ Len(outbox[r]) >= n)
            ~> (stable[r] >= n \/ dir[r] # "live")

(* "so the final gradient is the true per-token mean over the global batch"
   (trainer/rl/train.py): the division by the ranks is undone once for every
   sample of a step. *)
ScaledOnce ==
    pc = "step" => \A s \in Ready : \A g \in grad[s] : g.times = 1
=============================================================================
