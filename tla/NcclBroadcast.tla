---------------------------- MODULE NcclBroadcast ----------------------------
(***************************************************************************)
(* Weights over NCCL: the trainer's ranks (trainer/rl/broadcast/nccl.py,    *)
(* trainer/rl/train.py), the orchestrator's update of the pool              *)
(* (orchestrator/scheduler.py, utils/client.py) and the workers             *)
(* (inference/vllm/worker/nccl.py) meet in one collective.  Three kinds of  *)
(* parties wait for each other by two files of a step, STABLE and           *)
(* NCCL_READY, by HTTP requests and inside the collective itself.           *)
(*                                                                         *)
(* Abstractions.  One run, full weights, no leases, no evaluation.  The     *)
(* ranks train together; a batch is only counted.  A collective happens in  *)
(* one step, when everybody is in it.  An RPC to a worker waits there also  *)
(* when its request has been given up.  Time-outs are long: one strikes     *)
(* when the collective cannot happen, any other is a fault.                 *)
(***************************************************************************)
EXTENDS Naturals, FiniteSetsExt

CONSTANTS
    Servers,   \* inference servers, one worker each
    Master,    \* the trainer's rank 0, which has the communicator
    Others,    \* its other ranks
    MaxSteps,  \* max_steps of trainer and orchestrator
    Starts,    \* steps a run may begin or resume at
    MaxFaults  \* bound: requests that fail

(* Resumed with one step left the trainer has no broadcast to make, but the *)
(* orchestrator asks for one.                                               *)
ASSUME NcclAssumption ==
    /\ MaxSteps \in Nat \ {0, 1} /\ Starts \subseteq 0 .. MaxSteps - 2
    /\ MaxFaults \in Nat /\ Master \notin Others

VARIABLES
    start,    \* the step this run began at
    sent,     \* number of batches written to rollouts/
    stable,   \* steps with broadcasts/step_n/STABLE
    marked,   \* steps with broadcasts/step_n/NCCL_READY
    rank,     \* the trainer's ranks
    host,     \* server -> is it paused, its weights, RPCs that wait for the trainer
    post,     \* server -> the orchestrator's request to it
    orch,     \* the main loop, ckpt_step, and whether update_policy_loop lives
    upd,      \* the update of the pool that is going on
    faults

trainVars == <<stable, rank>>
orchVars == <<sent, marked, post, orch, upd>>
vars == <<start, trainVars, orchVars, host, faults>>

Ranks == {Master} \cup Others
Steps == 0 .. MaxSteps

NoUpdate == [pc |-> "idle", v |-> 0, todo |-> {}]

TypeOK ==
    /\ start \in Starts /\ sent \in Steps
    /\ stable \subseteq Steps /\ marked \subseteq Steps
    /\ rank \in [Ranks -> [pc : {"top", "await", "send", "wait", "done"}, step : Steps,
                           ready : BOOLEAN]]
    /\ \A r \in Ranks : rank[r].step <= sent
    /\ host \in [Servers -> [paused : BOOLEAN, weights : Steps, rpcs : 0 .. 2]]
    /\ post \in [Servers -> {"none", "open", "ok", "failed"}]
    /\ orch \in [pc : {"resume", "barrier", "generate", "done", "failed"}, step : Steps,
                 ckpt : Steps, polling : BOOLEAN]
    /\ upd \in [pc : {"idle", "await", "pause", "post", "resume"}, v : Steps,
                todo : SUBSET Servers]
    /\ faults \in 0 .. MaxFaults

(* A resumed run may find the batch of the resume step, which the cleaning  *)
(* of future steps has spared.                                              *)
Init ==
    /\ start \in Starts
    /\ sent \in IF start = 0 THEN {0} ELSE {start, start + 1}
    /\ stable = {} /\ marked = {}
    /\ rank = [r \in Ranks |-> [pc |-> "top", step |-> start, ready |-> FALSE]]
    /\ host = [s \in Servers |-> [paused |-> FALSE, weights |-> 0, rpcs |-> 0]]
    /\ post = [s \in Servers |-> "none"]
    /\ orch = [pc |-> IF start = 0 THEN "barrier" ELSE "resume", step |-> start,
               ckpt |-> start, polling |-> FALSE]
    /\ upd = NoUpdate
    /\ faults = 0

Fault == faults < MaxFaults /\ faults' = faults + 1

-----------------------------------------------------------------------------
(* The trainer *)

(* Mutant: the last broadcast, which nobody receives, is made as well. *)
BroadcastsLast(n) == n > 0 /\ n < MaxSteps
(* ~nccl_broadcast_unused                                                   *)
Broadcasts(n) == n > 0 /\ n < MaxSteps - 1

Skip(r) ==
    /\ rank[r].pc = "top" /\ ~Broadcasts(rank[r].step)
    /\ rank' = [rank EXCEPT ![r].pc = IF rank[r].step = MaxSteps THEN "done" ELSE "wait",
                            ![r].ready = FALSE]
    /\ UNCHANGED <<start, stable, orchVars, host, faults>>

(* Mutant: only the master knows of runs to wait for. *)
NotifiedMaster(r) == r = Master /\ rank[r].ready
(* _compute_notified_runs: right after a resume there are none.             *)
Notified(r) == rank[r].ready

(* _notify_orchestrator, on the master; its flag is cleared.                *)
Notify(r) ==
    /\ rank[r].pc = "top" /\ Broadcasts(rank[r].step)
    /\ rank' = [rank EXCEPT ![r].pc = IF Notified(r) THEN "await" ELSE "send",
                            ![r].ready = r # Master /\ @]
    /\ stable' = IF r = Master /\ Notified(r) THEN stable \cup {rank[r].step} ELSE stable
    /\ UNCHANGED <<start, orchVars, host, faults>>

(* Mutant: one marker for all steps. *)
MarkedOnce(n) == marked # {}
(* The marker is in the directory of its step.                              *)
Marked(n) == n \in marked

(* _wait_for_nccl_ready *)
SeeReady(r) ==
    /\ rank[r].pc = "await" /\ Marked(rank[r].step)
    /\ rank' = [rank EXCEPT ![r].pc = "send"]
    /\ UNCHANGED <<start, stable, orchVars, host, faults>>

(* The collective, with the RPC each worker is in.  A worker may have the   *)
(* weights and its request fail all the same.                               *)
Transfer ==
    /\ \A r \in Ranks : rank[r].pc = "send"
    /\ \A s \in Servers : host[s].rpcs > 0
    /\ host' = [s \in Servers |-> [host[s] EXCEPT !.weights = rank[Master].step, !.rpcs = @ - 1]]
    /\ LET answered == {s \in Servers : post[s] = "open" /\ host[s].rpcs = 1}
       IN  \E F \in SUBSET answered :
             /\ post' = [s \in Servers |-> IF s \in F THEN "failed"
                                           ELSE IF s \in answered THEN "ok" ELSE post[s]]
             /\ IF F = {} THEN UNCHANGED faults ELSE Fault
    /\ rank' = [r \in Ranks |-> [rank[r] EXCEPT !.pc = "wait"]]
    /\ UNCHANGED <<start, sent, stable, marked, orch, upd>>

(* Mutant: the batch of the step before will do. *)
BatchEarly == sent >= rank[Master].step
BatchThere == sent > rank[Master].step

(* wait_for_batch, with the packer's flag for all ranks, and the step.      *)
Train ==
    /\ \A r \in Ranks : rank[r].pc = "wait"
    /\ BatchThere
    /\ rank' = [r \in Ranks |-> [pc |-> "top", step |-> rank[r].step + 1, ready |-> TRUE]]
    /\ UNCHANGED <<start, stable, orchVars, host, faults>>

Trainer == Transfer \/ Train \/ \E r \in Ranks : Skip(r) \/ Notify(r) \/ SeeReady(r)

-----------------------------------------------------------------------------
(* The orchestrator's loop *)

(* _compute_next_ckpt_step *)
Forced == Max({orch.step, 1}) - 1
NextCkptStep == Max({Forced} \cup stable)

Behind == upd.pc = "idle" /\ NextCkptStep > orch.ckpt

(* The forced version is waited for.                                        *)
Update(v) ==
    upd' = [pc |-> IF v = Forced THEN "await" ELSE "pause",
            v |-> v, todo |-> Servers]

(* Resuming asks for the weights of the checkpoint, and does not look for   *)
(* them on disk.                                                            *)
Resume ==
    /\ orch.pc = "resume" /\ upd.pc = "idle"
    /\ upd' = [pc |-> "pause", v |-> orch.step, todo |-> Servers]
    /\ UNCHANGED <<start, trainVars, sent, marked, post, orch, host, faults>>

(* generate_batch: maybe_update_policy, which joins an update on its way.   *)
Barrier ==
    /\ orch.pc = "barrier" /\ upd.pc = "idle"
    /\ IF Behind
       THEN Update(NextCkptStep) /\ UNCHANGED orch
       ELSE /\ orch' = [orch EXCEPT !.pc = "generate", !.polling = TRUE]
            /\ UNCHANGED upd
    /\ UNCHANGED <<start, trainVars, sent, marked, post, host, faults>>

(* update_policy_loop *)
Poll ==
    /\ orch.pc = "generate" /\ orch.polling /\ Behind
    /\ Update(NextCkptStep)
    /\ UNCHANGED <<start, trainVars, sent, marked, post, orch, host, faults>>

(* Rollouts need an engine that runs.                                       *)
SendBatch ==
    /\ orch.pc = "generate" /\ \E s \in Servers : ~host[s].paused
    /\ sent' = Max({sent, orch.step + 1})
    /\ orch' = [orch EXCEPT !.step = @ + 1, !.polling = FALSE,
                            !.pc = IF orch.step + 1 = MaxSteps THEN "done" ELSE "barrier"]
    /\ UNCHANGED <<start, trainVars, marked, post, upd, host, faults>>

-----------------------------------------------------------------------------
(* The update: _apply_policy_update, update_weights *)

UpdStable ==
    /\ upd.pc = "await" /\ upd.v \in stable
    /\ upd' = [upd EXCEPT !.pc = "pause"]
    /\ UNCHANGED <<start, trainVars, sent, marked, post, orch, host, faults>>

(* Raised into the barrier or the resume it ends the orchestrator, else it  *)
(* ends update_policy_loop.                                                 *)
UpdFails ==
    /\ upd' = NoUpdate
    /\ orch' = IF orch.pc = "generate" THEN [orch EXCEPT !.polling = FALSE]
                                       ELSE [orch EXCEPT !.pc = "failed"]

Pause(s) ==
    /\ upd.pc = "pause" /\ s \in upd.todo
    /\ host' = [host EXCEPT ![s].paused = TRUE]
    /\ upd' = [upd EXCEPT !.todo = @ \ {s}]
    /\ UNCHANGED <<start, trainVars, sent, marked, post, orch, faults>>

(* A failed pause raises before the try: what is paused, or still will be,  *)
(* is not resumed.                                                          *)
PauseFails ==
    /\ upd.pc = "pause" /\ upd.todo # {} /\ Fault
    /\ \E P \in SUBSET upd.todo :
         host' = [s \in Servers |-> [host[s] EXCEPT !.paused = @ \/ s \in P]]
    /\ UpdFails
    /\ UNCHANGED <<start, trainVars, sent, marked, post>>

(* Mutant: NCCL_READY is there before the engines have been paused. *)
NonePaused == upd.pc = "pause"
AllPaused == upd.pc = "pause" /\ upd.todo = {}

(* NCCL_READY, then the requests.                                           *)
Post ==
    /\ AllPaused
    /\ marked' = marked \cup {upd.v}
    /\ post' = [s \in Servers |-> "open"]
    /\ host' = [s \in Servers |-> [host[s] EXCEPT !.rpcs = @ + 1]]
    /\ upd' = [upd EXCEPT !.pc = "post"]
    /\ UNCHANGED <<start, trainVars, sent, orch, faults>>

(* A request fails before its RPC is in the worker.                         *)
PostFails(s) ==
    /\ post[s] = "open" /\ Fault
    /\ post' = [post EXCEPT ![s] = "failed"]
    /\ host' = [host EXCEPT ![s].rpcs = @ - 1]
    /\ UNCHANGED <<start, trainVars, sent, marked, orch, upd>>

(* The trainer is going to send this version and all workers will be there. *)
Coming ==
    /\ rank[Master].step = upd.v /\ rank[Master].pc \in {"top", "await", "send"}
    /\ Broadcasts(upd.v)
    /\ \A s \in Servers : host[s].rpcs > 0

(* The RPC stays behind.                                                    *)
PostTimesOut(s) ==
    /\ post[s] = "open"
    /\ IF Coming THEN Fault ELSE UNCHANGED faults
    /\ post' = [post EXCEPT ![s] = "failed"]
    /\ UNCHANGED <<start, trainVars, sent, marked, orch, upd, host>>

(* finally: _resume_engines, which may fail for some of them.               *)
UpdDone ==
    /\ upd.pc = "post" /\ \A s \in Servers : post[s] # "open"
    /\ \E F \in SUBSET Servers :
         /\ IF F = {} THEN UNCHANGED faults ELSE Fault
         /\ host' = [s \in Servers |-> [host[s] EXCEPT !.paused = s \in F]]
         /\ IF F = {} /\ \A s \in Servers : post[s] = "ok"
            THEN /\ upd' = NoUpdate
                 /\ orch' = [orch EXCEPT !.ckpt = upd.v,
                                         !.pc = IF @ = "resume" THEN "barrier" ELSE @]
            ELSE UpdFails
    /\ post' = [s \in Servers |-> "none"]
    /\ UNCHANGED <<start, trainVars, sent, marked>>

Orchestrator ==
    \/ Resume \/ Barrier \/ Poll \/ SendBatch
    \/ UpdStable \/ Post \/ UpdDone \/ PauseFails
    \/ \E s \in Servers : Pause(s) \/ PostFails(s) \/ PostTimesOut(s)

Next == Trainer \/ Orchestrator

Spec == Init /\ [][Next]_vars

(* Ranks and tasks go on as far as they can, and time-outs do strike.       *)
Fairness ==
    /\ WF_vars(Trainer)
    /\ WF_vars(Resume \/ Barrier) /\ WF_vars(SendBatch)
    /\ WF_vars(UpdStable \/ (\E s \in Servers : Pause(s)) \/ Post \/ UpdDone)
    /\ WF_vars(~Coming /\ \E s \in Servers : PostTimesOut(s))

FairSpec == Spec /\ Fairness
-----------------------------------------------------------------------------
(* Properties *)

(* "all ranks must wait on NCCL_READY before entering the broadcast path"
   (trainer/rl/broadcast/nccl.py): unless a request has failed, no rank of the
   trainer is in the collective while an engine runs.  The exception is the
   broadcast right after a resume, when no run is notified and no rank waits. *)
NobodyEarly ==
    faults = 0 => \A r \in Ranks :
        rank[r].pc = "send" /\ rank[r].step # start => \A s \in Servers : host[s].paused

(* When ckpt_step moves, every worker has the weights of that step, although
   RPCs of requests that were given up receive what is meant for later ones and
   an update may be retried that some servers have had (update_weights). *)
ServesWhatItSays ==
    [][orch'.ckpt # orch.ckpt => \A s \in Servers : host[s].weights = orch'.ckpt]_vars

Finished == orch.pc = "done" /\ \A r \in Ranks : rank[r].pc = "done"

(* All engines are paused and nobody is left to resume them. *)
Abandoned == upd.pc = "idle" /\ ~orch.polling /\ \A s \in Servers : host[s].paused

(* Ranks, orchestrator and workers never all wait for each other: the run
   finishes unless a request fails, and then it finishes, is ended by the
   orchestrator, or stands with its engines paused (update_weights pauses
   outside its try). *)
Ends == <>(Finished \/ (faults > 0 /\ (orch.pc = "failed" \/ Abandoned)))
=============================================================================
