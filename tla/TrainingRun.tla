----------------------------- MODULE TrainingRun -----------------------------
(***************************************************************************)
(* A run of `rl` on one node, over crashes and restarts: the launcher       *)
(* (entrypoints/rl.py), the trainer's loop (trainer/rl/train.py) with its   *)
(* packer (SinglePacker), the orchestrator's loop, and what they leave on   *)
(* disk: checkpoints of both, step files and broadcast directories.  Full   *)
(* checkpoints are broadcast through the file system; delta mode cannot     *)
(* resume.                                                                 *)
(*                                                                         *)
(* When one process dies the launcher terminates the others; somebody then  *)
(* starts the same command with ckpt.resume_step.  "explicit" is a person   *)
(* who looks for the newest step with everything a resume needs, and cleans *)
(* the directory when there is none; "latest" is -1, which every process    *)
(* resolves by itself.                                                      *)
(*                                                                         *)
(* Abstractions.  Weights are the number of optimizer steps they have had. *)
(* Within a step, PolicyScheduler has the details of the orchestrator.      *)
(***************************************************************************)
EXTENDS Integers, FiniteSetsExt

CONSTANTS
    MaxSteps,   \* max_steps of the trainer and of the orchestrator
    Interval,   \* ckpt.interval
    KeepLast,   \* ckpt.keep_last
    Resume,     \* "explicit" or "latest"
    MaxCrashes  \* bound: crashes

ASSUME RunAssumption ==
    /\ MaxSteps \in Nat \ {0} /\ Interval \in Nat \ {0} /\ KeepLast \in Nat \ {0}
    /\ Resume \in {"explicit", "latest"} /\ MaxCrashes \in Nat

VARIABLES
    up,       \* the processes are running
    crashes,
    trained,  \* checkpoints/step_n/trainer
    orched,   \* run_default/checkpoints/step_n/orchestrator
    casts,    \* run_default/broadcasts/step_n: its STABLE file, and the weights
    batches,  \* the n with run_default/rollouts/step_n
    tr,       \* the trainer and its packer
    orch      \* the orchestrator

disk == <<trained, orched, casts, batches>>
vars == <<up, crashes, disk, tr, orch>>

Steps == 0 .. MaxSteps
Saved == {"none", "partial", "whole"}
NoCast == [state |-> "none", weights |-> 0]

(* label: the packer's progress of run 0, which names the broadcasts and    *)
(* the next batch to receive; kept: the checkpoint manager's ckpt_steps.    *)
TrainerAt(n, label, kept) ==
    [pc |-> "top", step |-> n, label |-> label, ready |-> FALSE, first |-> TRUE, kept |-> kept]

(* serving: scheduler.ckpt_step; loading: a policy being loaded, or 0.      *)
OrchAt(n, pc) == [pc |-> pc, step |-> n, serving |-> n, loading |-> 0, first |-> TRUE]

TypeOK ==
    /\ up \in BOOLEAN /\ crashes \in 0 .. MaxCrashes
    /\ trained \in [Steps -> Saved] /\ orched \in [Steps -> Saved]
    /\ casts \in [Steps -> [state : Saved, weights : Steps]]
    /\ batches \subseteq Steps
    /\ tr \in [pc : {"top", "notify", "clean", "ckpt", "saving", "prune", "wait", "train", "done"},
               step : Steps, label : Steps, ready : BOOLEAN, first : BOOLEAN,
               kept : SUBSET Steps]
    /\ orch \in [pc : {"resume", "top", "saving", "generate", "final", "finalSaving", "done", "failed"},
                 step : Steps, serving : Steps, loading : Steps, first : BOOLEAN]

Init ==
    /\ up = TRUE /\ crashes = 0
    /\ trained = [n \in Steps |-> "none"] /\ orched = [n \in Steps |-> "none"]
    /\ casts = [n \in Steps |-> NoCast] /\ batches = {}
    /\ tr = TrainerAt(0, 0, {})
    /\ orch = OrchAt(0, "top")

-----------------------------------------------------------------------------
(* The trainer *)

(* Weights go out when a batch has been trained on, into the directory that *)
(* bears the packer's step; right after a resume there are none to send.    *)
TrainerTop ==
    /\ up /\ tr.pc = "top"
    /\ IF tr.step > 0 /\ tr.ready
       THEN /\ casts' = [casts EXCEPT ![tr.label] = [state |-> "partial", weights |-> tr.step]]
            /\ tr' = [tr EXCEPT !.pc = "notify"]
       ELSE /\ tr' = [tr EXCEPT !.pc = IF tr.step > 0 THEN "clean" ELSE "ckpt", !.ready = FALSE]
            /\ casts' = casts
    /\ UNCHANGED <<up, crashes, trained, orched, batches, orch>>

(* The STABLE file. *)
Notify ==
    /\ up /\ tr.pc = "notify"
    /\ casts' = [casts EXCEPT ![tr.label].state = "whole"]
    /\ tr' = [tr EXCEPT !.pc = "clean", !.ready = FALSE]
    /\ UNCHANGED <<up, crashes, trained, orched, batches, orch>>

(* Mutant: the directory the orchestrator may be loading is the one removed. *)
CandidateOne == IF tr.label > 1 THEN tr.label - 1 ELSE 0
(* maybe_clean of the broadcasts: two steps ago.                            *)
Candidate == IF tr.label > 2 THEN tr.label - 2 ELSE 0

(* Mutant: nothing is kept for a resume. *)
KeptForNobody(n) == FALSE
KeptForResume(n) == n % Interval = 0

CleanBroadcasts ==
    /\ up /\ tr.pc = "clean"
    /\ casts' = IF KeptForResume(Candidate) THEN casts ELSE [casts EXCEPT ![Candidate] = NoCast]
    /\ tr' = [tr EXCEPT !.pc = "ckpt"]
    /\ UNCHANGED <<up, crashes, trained, orched, batches, orch>>

SaveBegins ==
    \/ tr.step % Interval = 0 /\ ~tr.first /\ tr.step # MaxSteps
    \/ tr.step = MaxSteps

(* The checkpoint at an interval, or the final one after the loop.          *)
TrainerSave ==
    /\ up /\ tr.pc = "ckpt" /\ SaveBegins
    /\ trained' = [trained EXCEPT ![tr.step] = "partial"]
    /\ tr' = [tr EXCEPT !.pc = "saving"]
    /\ UNCHANGED <<up, crashes, orched, casts, batches, orch>>

TrainerNoSave ==
    /\ up /\ tr.pc = "ckpt" /\ ~SaveBegins
    /\ tr' = [tr EXCEPT !.pc = "wait"]
    /\ UNCHANGED <<up, crashes, disk, orch>>

(* Mutant: the oldest ones. *)
OldestOnes(kept) == {n \in kept : Cardinality({k \in kept : k < n}) < KeepLast}
(* steps_to_keep: the most recent keep_last of those this process knows of. *)
ToKeep(kept) == {n \in kept : Cardinality({k \in kept : k > n}) < KeepLast}

(* CheckpointManager.save returns.                                         *)
TrainerSaved ==
    /\ up /\ tr.pc = "saving"
    /\ trained' = [trained EXCEPT ![tr.step] = "whole"]
    /\ tr' = [tr EXCEPT !.kept = @ \cup {tr.step}, !.pc = "prune"]
    /\ UNCHANGED <<up, crashes, orched, casts, batches, orch>>

(* maybe_clean of the checkpoints: the oldest first, each removed file by   *)
(* file.                                                                    *)
Dropped == tr.kept \ ToKeep(tr.kept)

PruneOne ==
    /\ up /\ tr.pc = "prune" /\ Dropped # {}
    /\ LET n == Min(Dropped)
       IN  IF trained[n] = "whole"
           THEN trained' = [trained EXCEPT ![n] = "partial"] /\ UNCHANGED tr
           ELSE /\ trained' = [trained EXCEPT ![n] = "none"]
                /\ tr' = [tr EXCEPT !.kept = @ \ {n}]
    /\ UNCHANGED <<up, crashes, orched, casts, batches, orch>>

Pruned ==
    /\ up /\ tr.pc = "prune" /\ Dropped = {}
    /\ tr' = [tr EXCEPT !.pc = IF tr.step = MaxSteps THEN "done" ELSE "wait"]
    /\ UNCHANGED <<up, crashes, disk, orch>>

(* SinglePacker.pack *)
Receive ==
    /\ up /\ tr.pc = "wait" /\ tr.label \in batches
    /\ tr' = [tr EXCEPT !.pc = "train", !.ready = TRUE, !.label = @ + 1]
    /\ UNCHANGED <<up, crashes, disk, orch>>

Train ==
    /\ up /\ tr.pc = "train"
    /\ tr' = [tr EXCEPT !.pc = "top", !.step = @ + 1, !.first = FALSE]
    /\ UNCHANGED <<up, crashes, disk, orch>>

Trainer == TrainerTop \/ Notify \/ CleanBroadcasts \/ TrainerSave \/ TrainerNoSave
             \/ TrainerSaved \/ PruneOne \/ Pruned \/ Receive \/ Train

-----------------------------------------------------------------------------
(* The orchestrator *)

(* Its checkpoint and the weights that go with it (get_weight_dir).         *)
OrchResume ==
    /\ up /\ orch.pc = "resume"
    /\ orch' = [orch EXCEPT !.pc = IF orched[orch.step] = "whole" /\ casts[orch.step].state = "whole"
                                   THEN "top" ELSE "failed"]
    /\ UNCHANGED <<up, crashes, disk, tr>>

OrchSaves ==
    \/ orch.pc = "top" /\ ~orch.first /\ orch.step # MaxSteps - 1 /\ orch.step % Interval = 0
    \/ orch.pc = "final"

OrchSave ==
    /\ up /\ OrchSaves
    /\ orched' = [orched EXCEPT ![orch.step] = "partial"]
    /\ orch' = [orch EXCEPT !.pc = IF @ = "final" THEN "finalSaving" ELSE "saving"]
    /\ UNCHANGED <<up, crashes, trained, casts, batches, tr>>

(* Mutant: one step too many. *)
OnePastLast == IF orch.step > MaxSteps THEN "final" ELSE "generate"
AfterSave == IF orch.step >= MaxSteps THEN "final" ELSE "generate"

OrchNoSave ==
    /\ up /\ orch.pc = "top" /\ ~OrchSaves
    /\ orch' = [orch EXCEPT !.pc = AfterSave]
    /\ UNCHANGED <<up, crashes, disk, tr>>

OrchSaved ==
    /\ up /\ orch.pc \in {"saving", "finalSaving"}
    /\ orched' = [orched EXCEPT ![orch.step] = "whole"]
    /\ orch' = [orch EXCEPT !.pc = IF @ = "saving" THEN AfterSave ELSE "done"]
    /\ UNCHANGED <<up, crashes, trained, casts, batches, tr>>

(* _compute_next_ckpt_step *)
Latest == Max({0} \cup {n \in Steps : casts[n].state = "whole"})
NextCkptStep == Max({orch.step - 1, Latest})

(* The update begins when the directory is there: one found by the poll, or *)
(* the one that wait_for_path has been waiting for.                         *)
LoadBegin ==
    /\ up /\ orch.pc = "generate" /\ orch.loading = 0
    /\ \E n \in {orch.step - 1, NextCkptStep} :
         /\ n > orch.serving /\ casts[n].state = "whole"
         /\ orch' = [orch EXCEPT !.loading = n]
    /\ UNCHANGED <<up, crashes, disk, tr>>

(* The servers have read the directory, if it has not gone meanwhile.       *)
LoadEnd ==
    /\ up /\ orch.pc \notin {"done", "failed"} /\ orch.loading # 0
    /\ orch' = IF casts[orch.loading].state = "whole"
               THEN [orch EXCEPT !.serving = orch.loading, !.loading = 0]
               ELSE [orch EXCEPT !.pc = "failed"]
    /\ UNCHANGED <<up, crashes, disk, tr>>

(* A batch made of policies the barrier at the step's start allowed.        *)
SendBatch ==
    /\ up /\ orch.pc = "generate" /\ orch.serving >= orch.step - 1
    /\ batches' = batches \cup {orch.step}
    /\ orch' = [orch EXCEPT !.pc = "top", !.step = @ + 1, !.first = FALSE]
    /\ UNCHANGED <<up, crashes, trained, orched, casts, tr>>

Orchestrator == OrchResume \/ OrchSave \/ OrchNoSave \/ OrchSaved
                  \/ LoadBegin \/ LoadEnd \/ SendBatch

-----------------------------------------------------------------------------
(* The launcher *)

(* A process dies and takes the others with it.                             *)
Crash ==
    /\ up /\ crashes < MaxCrashes
    /\ up' = FALSE /\ crashes' = crashes + 1
    /\ UNCHANGED <<disk, tr, orch>>

(* Mutant: the packer begins at 0 again. *)
PackerFromZero(n) == 0
(* _create_run_data                                                         *)
PackerStep(n) == n

(* Steps past the resume step are removed.  Those of checkpoints are not.   *)
CleanFutureSteps(n) ==
    /\ batches' = {k \in batches : k <= n}
    /\ casts' = [k \in Steps |-> IF k <= n THEN casts[k] ELSE NoCast]

Restarted(n, m) ==
    /\ tr' = TrainerAt(n, PackerStep(m), {k \in Steps : trained[k] # "none" /\ k <= n})
    /\ orch' = OrchAt(m, IF \E k \in Steps : orched[k] # "none" THEN "resume" ELSE "top")

(* What a restart needs: both checkpoints of one step and its weights.      *)
ResumePoints ==
    {n \in Steps : trained[n] = "whole" /\ orched[n] = "whole" /\ casts[n].state = "whole"}

LatestOf(ckpts) == Max({0} \cup {n \in Steps : ckpts[n] # "none"})

(* The launcher and the trainer look into the trainer's directory, the      *)
(* packer and the orchestrator into the orchestrator's.                     *)
TrainerFrom == IF Resume = "explicit" THEN Max(ResumePoints) ELSE LatestOf(trained)
OrchFrom    == IF Resume = "explicit" THEN Max(ResumePoints) ELSE LatestOf(orched)

RestartResuming ==
    /\ Resume = "explicit" => ResumePoints # {}
    /\ CleanFutureSteps(IF \E n \in Steps : trained[n] # "none" THEN TrainerFrom ELSE -1)
    /\ Restarted(TrainerFrom, OrchFrom)
    /\ UNCHANGED <<trained, orched>>

(* clean_output_dir *)
RestartClean ==
    /\ Resume = "explicit" /\ ResumePoints = {}
    /\ trained' = [n \in Steps |-> "none"] /\ orched' = [n \in Steps |-> "none"]
    /\ casts' = [n \in Steps |-> NoCast] /\ batches' = {}
    /\ tr' = TrainerAt(0, 0, {})
    /\ orch' = OrchAt(0, "top")

(* A run whose last checkpoints are complete is not started again.          *)
Complete == MaxSteps \in ResumePoints

Launch ==
    /\ ~up /\ ~Complete /\ up' = TRUE
    /\ RestartResuming \/ RestartClean
    /\ UNCHANGED crashes

Ended ==
    /\ IF up THEN tr.pc = "done" /\ orch.pc = "done" ELSE Complete
    /\ UNCHANGED vars

-----------------------------------------------------------------------------
Next == Trainer \/ Orchestrator \/ Crash \/ Launch \/ Ended

Spec == Init /\ [][Next]_vars

(* The processes keep running, and somebody restarts the run.               *)
FairSpec == Spec /\ WF_vars(Trainer) /\ WF_vars(Orchestrator) /\ WF_vars(Launch)

-----------------------------------------------------------------------------
(* Properties *)

(* A broadcast directory with its STABLE file holds the weights of as many
   optimizer steps as its name says: the name comes from the packer's count
   of received batches, the weights from the trainer's own, and each is set
   by itself when the run resumes (_create_run_data, ckpt_manager.load). *)
LabelIsStep ==
    \A n \in Steps : casts[n].state = "whole" => casts[n].weights = n

(* No process dies but of a fault: what the orchestrator resumes from or
   loads is there until it has been read, although the trainer removes old
   broadcasts by its own count ("step - 2 is therefore safe to remove",
   trainer/utils.py), and the launcher the ones past the resume step. *)
NothingMissing == orch.pc # "failed"

(* A run that could be resumed can be resumed from then on, whatever is being
   overwritten, cleaned by the retention policies of three writers, or cut off
   by a crash. *)
StaysResumable == [][ResumePoints # {} => ResumePoints' # {}]_vars

(* With finitely many crashes the run ends with its final checkpoints, although
   the trainer waits for batches, the orchestrator for weights, and both begin
   again with what a crash has left on disk. *)
Finishes == <>[]Complete

(* "pass --ckpt.resume-step <N> (or -1 for "latest")", with the checkpoints of
   both in checkpoints/step_N (docs/training.md): all parts of a run resume
   from one step. *)
OneResumeStep ==
    up /\ orch.pc = "resume" /\ tr.first => orch.step = tr.step
=============================================================================
