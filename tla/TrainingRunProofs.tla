-------------------------- MODULE TrainingRunProofs --------------------------
(***************************************************************************)
(* Over any number of steps, crashes and restarts, and for any checkpoint   *)
(* interval and retention: TrainingRun is well typed, and, when a run is    *)
(* resumed from a step at which everything is there, a broadcast directory  *)
(* holds the weights its name says and stays until it has been read.        *)
(*                                                                         *)
(* The name of a broadcast is the packer's count, its weights are the       *)
(* trainer's; LabelInv says how far the two are apart at each point of the  *)
(* loop, so that no restart can leave them apart for good.  FilesInv says   *)
(* how far the packer is ahead of the policy that is served: at most two,   *)
(* which is what the removal two steps behind the packer relies on.         *)
(* RetentionInv says what stands behind the trainer and what an earlier      *)
(* start has left ahead of it, so that a checkpoint is written over or      *)
(* removed only while another one is complete; one that a crash has left    *)
(* half removed is the oldest there is, and below a resume point.           *)
(***************************************************************************)
EXTENDS TrainingRun, FiniteSetTheorems, WellFoundedInduction, TLAPS

(* The records of TypeOK, by name. *)
Trainers ==
    [pc : {"top", "notify", "clean", "ckpt", "saving", "prune", "wait", "train", "done"},
     step : Steps, label : Steps, ready : BOOLEAN, first : BOOLEAN, kept : SUBSET Steps]
Orchestrators ==
    [pc : {"resume", "top", "saving", "generate", "final", "finalSaving", "done", "failed"},
     step : Steps, serving : Steps, loading : Steps, first : BOOLEAN]
Casts == [state : Saved, weights : Steps]

(* Nobody counts past the last step: the trainer waits for a batch, and the *)
(* orchestrator makes one, only before it.                                  *)
CountInv ==
    /\ tr.pc \in {"wait", "train"} => tr.step < MaxSteps
    /\ orch.pc = "generate" => orch.step < MaxSteps
    /\ \A n \in batches : n < MaxSteps

(* The packer is ahead of the trainer while a batch is trained on, and only *)
(* then.  A directory that is being written or stands is true to its name.  *)
LabelInv ==
    /\ tr.label = IF tr.pc = "train" THEN tr.step + 1 ELSE tr.step
    /\ \A n \in Steps : casts[n].state # "none" => casts[n].weights = n
    /\ tr.pc = "notify" => casts[tr.label].state # "none"

-----------------------------------------------------------------------------
(* A nonempty set of steps has a largest element, and Max returns it.       *)
LEMMA MaxOfSteps == ASSUME NEW S, S \subseteq Steps, S # {}
                    PROVE  Max(S) \in S /\ \A y \in S : Max(S) >= y
<1> USE RunAssumption DEF Steps
<1> DEFINE T == {MaxSteps - x : x \in S}
<1>1. T \subseteq Nat
  OBVIOUS
<1>2. T # {}
  <2>1. PICK z \in S : TRUE
    OBVIOUS
  <2>2. MaxSteps - z \in T
    OBVIOUS
  <2> QED
    BY <2>2
<1>3. \E t \in T : \A y \in T : t <= y
  <2>1. PICK t \in T : \A y \in T : ~(<<y, t>> \in OpToRel(<, Nat))
    BY <1>1, <1>2, WFMin, NatLessThanWellFounded
  <2>2. \A y \in T : ~(y < t)
    BY <1>1, <2>1 DEF OpToRel
  <2> QED
    BY <1>1, <2>2
<1>4. PICK m \in S : \A y \in T : MaxSteps - m <= y
  BY <1>3
<1>5. \A y \in S : m >= y
  <2> TAKE y \in S
  <2>1. MaxSteps - y \in T
    OBVIOUS
  <2>2. MaxSteps - m <= MaxSteps - y
    BY <1>4, <2>1
  <2>3. m \in Int /\ y \in Int /\ MaxSteps \in Int
    OBVIOUS
  <2> QED
    BY <2>2, <2>3
<1> QED
  BY <1>5 DEF Max

LEMMA MinOfSteps == ASSUME NEW S, S \subseteq Steps, S # {}
                    PROVE  Min(S) \in S /\ \A y \in S : Min(S) <= y
<1>1. S \subseteq Nat
  BY RunAssumption DEF Steps
<1>2. PICK t \in S : \A y \in S : ~(<<y, t>> \in OpToRel(<, Nat))
  BY <1>1, WFMin, NatLessThanWellFounded
<1>3. \A y \in S : ~(y < t)
  BY <1>1, <1>2 DEF OpToRel
<1>4. \A y \in S : t <= y
  BY <1>1, <1>3
<1> QED
  BY <1>4 DEF Min

LEMMA MaxOfTwo == ASSUME NEW a \in Int, NEW b \in Int
                  PROVE  Max({a, b}) \in {a, b}
<1>1. CASE a >= b
  <2>1. a \in {a, b} /\ \A y \in {a, b} : a >= y
    BY <1>1
  <2> QED
    BY <2>1 DEF Max
<1>2. CASE b >= a
  <2>1. b \in {a, b} /\ \A y \in {a, b} : b >= y
    BY <1>2
  <2> QED
    BY <2>1 DEF Max
<1> QED
  BY <1>1, <1>2

(* Wherever the parts of a run resume, it is at a step of it. *)
LEMMA ResumeSteps == ASSUME RestartResuming
                     PROVE  TrainerFrom \in Steps /\ OrchFrom \in Steps
<1> USE RunAssumption DEF Steps
<1>1. CASE Resume = "explicit"
  <2>1. ResumePoints \subseteq Steps /\ ResumePoints # {}
    BY <1>1 DEF ResumePoints, RestartResuming
  <2> QED
    BY <1>1, <2>1, MaxOfSteps DEF TrainerFrom, OrchFrom
<1>2. CASE Resume # "explicit"
  <2>1. ASSUME NEW ckpts PROVE LatestOf(ckpts) \in Steps
    <3> DEFINE S == {0} \cup {n \in Steps : ckpts[n] # "none"}
    <3>1. S \subseteq Steps /\ S # {}
      OBVIOUS
    <3> QED
      BY <3>1, MaxOfSteps DEF LatestOf
  <2> QED
    BY <1>2, <2>1 DEF TrainerFrom, OrchFrom
<1> QED
  BY <1>1, <1>2

LEMMA NextCkptInSteps == ASSUME TypeOK, NextCkptStep > orch.serving
                         PROVE  NextCkptStep \in Steps
<1> USE RunAssumption DEF Steps
<1> DEFINE S == {0} \cup {n \in Steps : casts[n].state = "whole"}
<1>1. S \subseteq Steps /\ S # {}
  OBVIOUS
<1>2. Latest \in Steps
  BY <1>1, MaxOfSteps DEF Latest
<1>3. orch.step \in Steps /\ orch.serving \in Steps
  BY DEF TypeOK
<1>4. NextCkptStep \in {orch.step - 1, Latest}
  BY <1>2, <1>3, MaxOfTwo DEF NextCkptStep
<1> QED
  BY <1>2, <1>3, <1>4

(* The arithmetic of steps. *)
LEMMA StepUp == ASSUME NEW n \in Steps, n < MaxSteps
                PROVE  n + 1 \in Steps /\ 0 \in Steps /\ n \in Int /\ n + 1 - 1 = n
  BY RunAssumption DEF Steps

LEMMA StepZero == /\ 0 \in Steps /\ 0 < MaxSteps /\ MaxSteps \in Nat
                  /\ \A n \in Steps : n \in Nat /\ n <= MaxSteps
  BY RunAssumption DEF Steps

-----------------------------------------------------------------------------
(* Type correctness *)

TypeInv == TypeOK /\ CountInv

(* TypeInv by the parts that an action may change. *)
TrainerOK ==
    tr \in Trainers /\ (tr.pc \in {"wait", "train"} => tr.step < MaxSteps)
OrchestratorOK ==
    orch \in Orchestrators /\ (orch.pc = "generate" => orch.step < MaxSteps)
DiskOK ==
    /\ trained \in [Steps -> Saved] /\ orched \in [Steps -> Saved]
    /\ casts \in [Steps -> Casts]
    /\ batches \subseteq Steps /\ \A n \in batches : n < MaxSteps
LauncherOK == up \in BOOLEAN /\ crashes \in 0 .. MaxCrashes

LEMMA TypeParts == TypeInv <=> TrainerOK /\ OrchestratorOK /\ DiskOK /\ LauncherOK
  BY DEF TypeInv, TypeOK, CountInv, TrainerOK, OrchestratorOK, DiskOK, LauncherOK,
         Trainers, Orchestrators, Casts

LEMMA TypePartsNext == TypeInv' <=> TrainerOK' /\ OrchestratorOK' /\ DiskOK' /\ LauncherOK'
  BY TypeParts, PTL

LEMMA TypeInit == Init => TypeInv
<1> SUFFICES ASSUME Init
             PROVE  TrainerOK /\ OrchestratorOK /\ DiskOK /\ LauncherOK
  BY TypeParts
<1>1. TrainerOK /\ OrchestratorOK
  BY StepZero DEF Init, TrainerOK, OrchestratorOK, TrainerAt, OrchAt, Trainers, Orchestrators
<1>2. DiskOK /\ LauncherOK
  BY StepZero, RunAssumption DEF Init, DiskOK, LauncherOK, Casts, Saved, NoCast
<1> QED
  BY <1>1, <1>2

LEMMA TypeTrainer == TypeInv /\ Trainer => TypeInv'
<1> SUFFICES ASSUME TrainerOK, OrchestratorOK, DiskOK, LauncherOK, Trainer
             PROVE  TypeInv'
  BY TypeParts
<1>0. OrchestratorOK' /\ LauncherOK'
  <2>1. UNCHANGED <<up, crashes, orch>>
    BY DEF Trainer, TrainerTop, Notify, CleanBroadcasts, TrainerSave, TrainerNoSave, TrainerSaved,
           PruneOne, Pruned, Receive, Train, disk
  <2> QED
    BY <2>1 DEF OrchestratorOK, LauncherOK
<1> SUFFICES TrainerOK' /\ DiskOK'
  BY <1>0, TypePartsNext
<1> USE DEF TrainerOK, DiskOK, Trainers
<1>1. CASE TrainerTop
  <2>1. TrainerOK'
    BY <1>1 DEF TrainerTop
  <2>2. casts' \in [Steps -> Casts]
    BY <1>1 DEF TrainerTop, Casts, Saved
  <2> QED
    BY <1>1, <2>1, <2>2 DEF TrainerTop
<1>2. CASE Notify
  <2>1. TrainerOK'
    BY <1>2 DEF Notify
  <2>2. casts' \in [Steps -> Casts]
    BY <1>2 DEF Notify, Casts, Saved
  <2> QED
    BY <1>2, <2>1, <2>2 DEF Notify
<1>3. CASE CleanBroadcasts
  <2>1. TrainerOK'
    BY <1>3 DEF CleanBroadcasts
  <2>2. casts' \in [Steps -> Casts]
    BY <1>3, StepZero DEF CleanBroadcasts, Casts, Saved, NoCast
  <2> QED
    BY <1>3, <2>1, <2>2 DEF CleanBroadcasts
<1>4. CASE TrainerSave
  BY <1>4 DEF TrainerSave, Saved
<1>5. CASE TrainerNoSave
  <2>1. tr.step < MaxSteps
    BY <1>5, StepZero DEF TrainerNoSave, SaveBegins
  <2> QED
    BY <1>5, <2>1 DEF TrainerNoSave, disk
<1>6. CASE TrainerSaved
  BY <1>6 DEF TrainerSaved, Saved
<1>7. CASE Receive
  <2>1. tr.label + 1 \in Steps
    BY <1>7, StepUp DEF Receive
  <2> QED
    BY <1>7, <2>1 DEF Receive, disk
<1>8. CASE Train
  <2>1. tr.step + 1 \in Steps
    BY <1>8, StepUp DEF Train
  <2> QED
    BY <1>8, <2>1 DEF Train, disk
<1>9. CASE PruneOne
  BY <1>9 DEF PruneOne, Saved
<1>10. CASE Pruned
  <2>1. tr.step # MaxSteps => tr.step < MaxSteps
    BY StepZero
  <2> QED
    BY <1>10, <2>1 DEF Pruned, disk
<1> QED
  BY <1>1, <1>2, <1>3, <1>4, <1>5, <1>6, <1>7, <1>8, <1>9, <1>10 DEF Trainer

LEMMA TypeOrchestrator == TypeInv /\ Orchestrator => TypeInv'
<1> SUFFICES ASSUME TypeInv, TrainerOK, OrchestratorOK, DiskOK, LauncherOK, Orchestrator
             PROVE  TypeInv'
  BY TypeParts
<1>0. TrainerOK' /\ LauncherOK'
  <2>1. UNCHANGED <<up, crashes, tr>>
    BY DEF Orchestrator, OrchResume, OrchSave, OrchNoSave, OrchSaved, LoadBegin, LoadEnd,
           SendBatch, disk
  <2> QED
    BY <2>1 DEF TrainerOK, LauncherOK
<1> SUFFICES OrchestratorOK' /\ DiskOK'
  BY <1>0, TypePartsNext
<1> USE DEF OrchestratorOK, DiskOK, Orchestrators
<1>1. CASE OrchResume
  BY <1>1 DEF OrchResume, disk
<1>2. CASE OrchSave
  BY <1>2 DEF OrchSave, Saved
<1>3. CASE OrchNoSave
  <2>1. AfterSave \in {"final", "generate"} /\ (AfterSave = "generate" => orch.step < MaxSteps)
    BY StepZero DEF AfterSave
  <2> QED
    BY <1>3, <2>1 DEF OrchNoSave, disk
<1>4. CASE OrchSaved
  <2>1. AfterSave \in {"final", "generate"} /\ (AfterSave = "generate" => orch.step < MaxSteps)
    BY StepZero DEF AfterSave
  <2>2. OrchestratorOK'
    BY <1>4, <2>1 DEF OrchSaved
  <2> QED
    BY <1>4, <2>2 DEF OrchSaved, Saved
<1>5. CASE LoadBegin
  <2>1. PICK n \in {orch.step - 1, NextCkptStep} :
          n > orch.serving /\ orch' = [orch EXCEPT !.loading = n]
    BY <1>5 DEF LoadBegin
  <2>2. n \in Steps
    <3>1. orch.step - 1 > orch.serving => orch.step - 1 \in Steps
      BY RunAssumption DEF Steps
    <3> QED
      BY <2>1, <3>1, NextCkptInSteps DEF TypeInv
  <2> QED
    BY <1>5, <2>1, <2>2 DEF LoadBegin, disk
<1>6. CASE LoadEnd
  BY <1>6, StepZero DEF LoadEnd, disk
<1>7. CASE SendBatch
  <2>1. orch.step < MaxSteps /\ orch.step + 1 \in Steps
    BY <1>7, StepUp DEF SendBatch
  <2>2. OrchestratorOK'
    BY <1>7, <2>1 DEF SendBatch
  <2> QED
    BY <1>7, <2>1, <2>2 DEF SendBatch
<1> QED
  BY <1>1, <1>2, <1>3, <1>4, <1>5, <1>6, <1>7 DEF Orchestrator

LEMMA TypeLaunch == TypeInv /\ Launch => TypeInv'
<1> SUFFICES ASSUME TrainerOK, OrchestratorOK, DiskOK, LauncherOK, Launch
             PROVE  TypeInv'
  BY TypeParts
<1> SUFFICES TrainerOK' /\ OrchestratorOK' /\ DiskOK' /\ LauncherOK'
  BY TypePartsNext
<1>0. LauncherOK'
  BY DEF Launch, LauncherOK
<1>1. CASE RestartResuming
  <2>1. TrainerFrom \in Steps /\ OrchFrom \in Steps
    BY <1>1, ResumeSteps
  <2>2. batches' \subseteq batches /\ UNCHANGED <<trained, orched>>
    BY <1>1 DEF RestartResuming, CleanFutureSteps
  <2>3. casts' \in [Steps -> Casts]
    <3>1. PICK m : casts' = [k \in Steps |-> IF k <= m THEN casts[k] ELSE NoCast]
      BY <1>1 DEF RestartResuming, CleanFutureSteps
    <3>2. NoCast \in Casts
      BY StepZero DEF NoCast, Casts, Saved
    <3> QED
      BY <3>1, <3>2 DEF DiskOK
  <2>4. TrainerOK'
    BY <1>1, <2>1 DEF RestartResuming, Restarted, PackerStep, TrainerAt, TrainerOK, Trainers
  <2>5. OrchestratorOK'
    BY <1>1, <2>1, StepZero DEF RestartResuming, Restarted, OrchAt, OrchestratorOK, Orchestrators
  <2> QED
    BY <1>0, <2>2, <2>3, <2>4, <2>5 DEF DiskOK
<1>2. CASE RestartClean
  <2>1. TrainerOK' /\ OrchestratorOK'
    BY <1>2, StepZero DEF RestartClean, TrainerAt, OrchAt, TrainerOK, OrchestratorOK, Trainers, Orchestrators
  <2>2. DiskOK'
    BY <1>2, StepZero DEF RestartClean, DiskOK, Casts, Saved, NoCast
  <2> QED
    BY <1>0, <2>1, <2>2
<1> QED
  BY <1>1, <1>2 DEF Launch

LEMMA TypeNext == TypeInv /\ [Next]_vars => TypeInv'
<1> SUFFICES ASSUME TypeInv, [Next]_vars
             PROVE  TypeInv'
  OBVIOUS
<1>1. CASE Crash
  <2>0. TrainerOK /\ OrchestratorOK /\ DiskOK /\ LauncherOK
    BY TypeParts
  <2>1. TrainerOK' /\ OrchestratorOK' /\ DiskOK'
    BY <1>1, <2>0 DEF Crash, disk, TrainerOK, OrchestratorOK, DiskOK
  <2>2. LauncherOK'
    <3>1. up' = FALSE /\ crashes' = crashes + 1 /\ crashes < MaxCrashes
      BY <1>1 DEF Crash
    <3>2. crashes' \in 0 .. MaxCrashes
      BY <2>0, <3>1, RunAssumption DEF LauncherOK
    <3> QED
      BY <3>1, <3>2 DEF LauncherOK
  <2> QED
    BY <2>1, <2>2, TypePartsNext
<1>2. CASE UNCHANGED vars
  BY <1>2 DEF vars, disk, TypeInv, TypeOK, CountInv
<1> QED
  BY <1>1, <1>2, TypeTrainer, TypeOrchestrator, TypeLaunch DEF Next, Ended

(* In every reachable state of a run, restarted however often and resolving
   its resume step in either way, the counts of trainer, packer and
   orchestrator stay within max_steps and the files are those of such steps. *)
THEOREM TypeCorrect == Spec => []TypeOK
<1>1. TypeInv => TypeOK
  BY DEF TypeInv
<1> QED
  BY <1>1, TypeInit, TypeNext, PTL DEF Spec

-----------------------------------------------------------------------------
(* Names of broadcasts *)

LEMMA LabelTrainer ==
  ASSUME TypeInv, LabelInv, Trainer
  PROVE  LabelInv'
<1>0. TrainerOK /\ DiskOK
  BY TypeParts
<1> USE DEF LabelInv
<1>1. CASE TrainerTop
  <2>1. CASE tr.step > 0 /\ tr.ready
    <3>1. /\ casts' = [casts EXCEPT ![tr.label] = [state |-> "partial", weights |-> tr.step]]
          /\ tr'.label = tr.label /\ tr'.step = tr.step /\ tr'.pc = "notify"
      BY <1>0, <1>1, <2>1 DEF TrainerTop, TrainerOK, Trainers
    <3>2. tr.label = tr.step /\ tr.label \in Steps
      BY <1>0, <1>1 DEF TrainerTop, TrainerOK, Trainers
    <3> QED
      BY <1>0, <3>1, <3>2 DEF DiskOK
  <2>2. CASE ~(tr.step > 0 /\ tr.ready)
    BY <1>0, <1>1, <2>2 DEF TrainerTop, TrainerOK, Trainers
  <2> QED
    BY <2>1, <2>2
<1>2. CASE Notify
  <2>1. /\ casts' = [casts EXCEPT ![tr.label].state = "whole"]
        /\ tr.label \in Steps /\ casts[tr.label].weights = tr.label
    BY <1>0, <1>2 DEF Notify, TrainerOK, Trainers
  <2>2. \A n \in Steps : casts'[n].state # "none" => casts'[n].weights = n
    BY <1>0, <2>1 DEF DiskOK, Casts
  <2>3. tr'.label = tr.label /\ tr'.step = tr.step /\ tr.pc = "notify" /\ tr'.pc = "clean"
    BY <1>0, <1>2 DEF Notify, TrainerOK, Trainers
  <2> QED
    BY <2>2, <2>3
<1>3. CASE CleanBroadcasts
  <2>1. \A n \in Steps : casts'[n] \in {casts[n], NoCast}
    BY <1>0, <1>3 DEF CleanBroadcasts, DiskOK
  <2>2. tr'.label = tr.label /\ tr'.step = tr.step /\ tr.pc = "clean" /\ tr'.pc = "ckpt"
    BY <1>0, <1>3 DEF CleanBroadcasts, TrainerOK, Trainers
  <2> QED
    BY <2>1, <2>2 DEF NoCast
<1>4. CASE TrainerSave
  BY <1>0, <1>4 DEF TrainerSave, TrainerOK, Trainers
<1>5. CASE TrainerNoSave
  BY <1>0, <1>5 DEF TrainerNoSave, disk, TrainerOK, Trainers
<1>6. CASE TrainerSaved \/ PruneOne \/ Pruned
  <2>1. /\ tr'.label = tr.label /\ tr'.step = tr.step /\ tr.pc \in {"saving", "prune"}
        /\ tr'.pc \in {"prune", "done", "wait"} /\ casts' = casts
    BY <1>0, <1>6 DEF TrainerSaved, PruneOne, Pruned, disk, TrainerOK, Trainers
  <2> QED
    BY <2>1
<1>7. CASE Receive
  BY <1>0, <1>7 DEF Receive, disk, TrainerOK, Trainers
<1>8. CASE Train
  BY <1>0, <1>8 DEF Train, disk, TrainerOK, Trainers
<1> QED
  BY <1>1, <1>2, <1>3, <1>4, <1>5, <1>6, <1>7, <1>8 DEF Trainer

(* The orchestrator writes no broadcasts. *)
LEMMA LabelOrchestrator ==
  ASSUME LabelInv, Orchestrator
  PROVE  LabelInv'
<1>1. UNCHANGED <<tr, casts>>
  BY DEF Orchestrator, OrchResume, OrchSave, OrchNoSave, OrchSaved, LoadBegin, LoadEnd,
         SendBatch, disk
<1> QED
  BY <1>1 DEF LabelInv

(* One step for all: the packer begins where the trainer does. *)
LEMMA LabelLaunch ==
  ASSUME Resume = "explicit", TypeInv, LabelInv, Launch
  PROVE  LabelInv'
<1>1. CASE RestartResuming
  <2>1. tr'.label = tr'.step /\ tr'.pc = "top"
    BY <1>1 DEF RestartResuming, Restarted, TrainerFrom, OrchFrom, PackerStep, TrainerAt
  <2>2. \A n \in Steps : casts'[n] \in {casts[n], NoCast}
    BY <1>1 DEF RestartResuming, CleanFutureSteps
  <2> QED
    BY <2>1, <2>2 DEF LabelInv, NoCast
<1>2. CASE RestartClean
  BY <1>2 DEF RestartClean, TrainerAt, LabelInv, NoCast
<1> QED
  BY <1>1, <1>2 DEF Launch

(* With a resume step at which everything is there, a broadcast directory with
   its STABLE file holds the weights of as many optimizer steps as its name
   says, over any number of crashes: the packer's count, which names it, and
   the trainer's, which fills it, are never apart when it is written. *)
THEOREM LabelFollowsStep == ASSUME Resume = "explicit"
                            PROVE  Spec => []LabelIsStep
<1> DEFINE Inv == TypeInv /\ LabelInv
<1>1. Init => Inv
  BY TypeInit DEF Init, LabelInv, TrainerAt, NoCast
<1>2. Inv /\ [Next]_vars => Inv'
  <2> SUFFICES ASSUME Inv, [Next]_vars
               PROVE  LabelInv'
    BY TypeNext
  <2>1. CASE Crash
    BY <2>1 DEF Crash, disk, LabelInv
  <2>2. CASE UNCHANGED vars
    BY <2>2 DEF vars, disk, LabelInv
  <2> QED
    BY <2>1, <2>2, LabelTrainer, LabelOrchestrator, LabelLaunch DEF Next, Ended
<1>3. Inv => LabelIsStep
  BY DEF LabelInv, LabelIsStep
<1> QED
  BY <1>1, <1>2, <1>3, PTL DEF Spec

-----------------------------------------------------------------------------
(* Files that are read *)

(* No broadcast is written over: what is ahead of the packer does not exist. *)
FreshInv ==
    /\ \A n \in Steps : n > tr.label => casts[n].state = "none"
    /\ tr.pc = "train" \/ (tr.pc = "top" /\ tr.ready) => casts[tr.label].state = "none"

(* The packer is at most two ahead of the policy that is served, because a   *)
(* batch is sent under the policy before it or a newer one.  So the          *)
(* directory two behind the packer is not one that is still to be loaded.    *)
AheadInv ==
    /\ tr.label <= orch.serving + 2
    /\ \A n \in batches : n <= orch.serving + 1

LoadInv ==
    orch.loading # 0 => casts[orch.loading].state = "whole" /\ orch.loading > orch.serving

(* Until the orchestrator has read its resume step nobody sends a batch.     *)
ResumeInv ==
    orch.pc = "resume" =>
        /\ orched[orch.step] = "whole" /\ casts[orch.step].state = "whole"
        /\ orch.serving = orch.step /\ orch.loading = 0 /\ tr.label <= orch.step + 1
        /\ \A n \in batches : n <= orch.step

FilesInv == FreshInv /\ AheadInv /\ LoadInv /\ ResumeInv /\ NothingMissing

LEMMA FilesInit == Init => FilesInv
  BY StepZero DEF Init, TrainerAt, OrchAt, NoCast, FilesInv, FreshInv, AheadInv, LoadInv,
     ResumeInv, NothingMissing

LEMMA FilesUnchanged ==
  ASSUME FilesInv, UNCHANGED <<casts, batches, orched, tr, orch>>
  PROVE  FilesInv'
<1>1. FreshInv'
  BY DEF FilesInv, FreshInv
<1>2. AheadInv'
  BY DEF FilesInv, AheadInv
<1>3. LoadInv'
  BY DEF FilesInv, LoadInv
<1>4. ResumeInv'
  BY DEF FilesInv, ResumeInv
<1> QED
  BY <1>1, <1>2, <1>3, <1>4 DEF FilesInv, NothingMissing

(* What a step of the trainer may do to a broadcast directory. *)
LEMMA TrainerCasts ==
  ASSUME TypeInv, FilesInv, Trainer
  PROVE  \A n \in Steps : \/ casts'[n] = casts[n]
                          \/ n = tr.label /\ (casts[n].state = "none" \/ tr.pc = "notify")
                          \/ n + 2 = tr.label /\ tr.pc = "clean"
<1>0. TrainerOK /\ DiskOK
  BY TypeParts
<1> USE DEF TrainerOK, DiskOK, Trainers
<1>1. CASE TrainerTop
  BY <1>0, <1>1 DEF TrainerTop, FilesInv, FreshInv
<1>2. CASE Notify
  BY <1>0, <1>2 DEF Notify
<1>3. CASE CleanBroadcasts
  <2> TAKE n \in Steps
  <2>1. CASE n = Candidate /\ n # 0
    BY <1>0, <1>3, <2>1, StepZero DEF Candidate, CleanBroadcasts
  <2>2. CASE Candidate = 0
    <3>1. KeptForResume(0)
      BY RunAssumption DEF KeptForResume
    <3> QED
      BY <1>3, <2>2, <3>1 DEF CleanBroadcasts
  <2>3. CASE n # Candidate
    BY <1>0, <1>3, <2>3 DEF CleanBroadcasts
  <2> QED
    BY <2>1, <2>2, <2>3
<1>4. CASE TrainerSave \/ TrainerNoSave \/ TrainerSaved \/ PruneOne \/ Pruned \/ Receive \/ Train
  BY <1>4 DEF TrainerSave, TrainerNoSave, TrainerSaved, PruneOne, Pruned, Receive, Train, disk
<1> QED
  BY <1>1, <1>2, <1>3, <1>4 DEF Trainer

LEMMA FreshTrainer ==
  ASSUME TypeInv, FreshInv, Trainer
  PROVE  FreshInv'
<1>0. TrainerOK /\ DiskOK
  BY TypeParts
<1> USE DEF TrainerOK, DiskOK, Trainers, FreshInv
<1>1. CASE TrainerTop
  <2>1. CASE tr.step > 0 /\ tr.ready
    <3>1. /\ casts' = [casts EXCEPT ![tr.label] = [state |-> "partial", weights |-> tr.step]]
          /\ tr'.label = tr.label /\ tr'.pc = "notify"
      BY <1>0, <1>1, <2>1 DEF TrainerTop
    <3>2. \A n \in Steps : n > tr.label => casts'[n] = casts[n]
      BY <1>0, <3>1, StepZero
    <3> QED
      BY <3>1, <3>2
  <2>2. CASE ~(tr.step > 0 /\ tr.ready)
    BY <1>0, <1>1, <2>2 DEF TrainerTop
  <2> QED
    BY <2>1, <2>2
<1>2. CASE Notify
  <2>1. /\ casts' = [casts EXCEPT ![tr.label].state = "whole"]
        /\ tr'.label = tr.label /\ tr'.pc = "clean"
    BY <1>0, <1>2 DEF Notify
  <2>2. \A n \in Steps : n > tr.label => casts'[n] = casts[n]
    BY <1>0, <2>1, StepZero
  <2> QED
    BY <2>1, <2>2
<1>3. CASE CleanBroadcasts
  <2>1. \A n \in Steps : casts'[n] \in {casts[n], NoCast}
    BY <1>0, <1>3 DEF CleanBroadcasts
  <2>2. tr'.label = tr.label /\ tr'.pc = "ckpt"
    BY <1>0, <1>3 DEF CleanBroadcasts
  <2> QED
    BY <2>1, <2>2 DEF NoCast
<1>4. CASE TrainerSave \/ TrainerNoSave \/ TrainerSaved \/ PruneOne \/ Pruned
  <2>1. casts' = casts
    BY <1>4 DEF TrainerSave, TrainerNoSave, TrainerSaved, PruneOne, Pruned, disk
  <2>2. tr'.label = tr.label /\ tr'.pc \notin {"train", "top"}
    BY <1>0, <1>4 DEF TrainerSave, TrainerNoSave, TrainerSaved, PruneOne, Pruned
  <2> QED
    BY <2>1, <2>2
<1>5. CASE Receive
  <2>1. casts' = casts /\ tr'.label = tr.label + 1 /\ tr.label + 1 \in Steps
    BY <1>0, <1>5, StepUp DEF Receive, disk
  <2> QED
    BY <1>0, <2>1, StepZero
<1>6. CASE Train
  <2>1. casts' = casts /\ tr'.label = tr.label /\ tr.pc = "train"
    BY <1>0, <1>6 DEF Train, disk
  <2> QED
    BY <2>1
<1> QED
  BY <1>1, <1>2, <1>3, <1>4, <1>5, <1>6 DEF Trainer

LEMMA FilesTrainer ==
  ASSUME TypeInv, FilesInv, Trainer
  PROVE  FilesInv'
<1>0. TrainerOK /\ OrchestratorOK /\ DiskOK
  BY TypeParts
<1> USE DEF FilesInv
<1>1. UNCHANGED <<orch, batches, orched>>
  BY DEF Trainer, TrainerTop, Notify, CleanBroadcasts, TrainerSave, TrainerNoSave,
         TrainerSaved, PruneOne, Pruned, Receive, Train, disk
<1>2. tr'.label = tr.label \/ (tr.label \in batches /\ tr'.label = tr.label + 1)
  BY <1>0 DEF TrainerOK, Trainers, Trainer, TrainerTop, Notify, CleanBroadcasts,
         TrainerSave, TrainerNoSave, TrainerSaved, PruneOne, Pruned, Receive, Train
<1>3. tr.label \in Nat /\ orch.serving \in Nat /\ orch.step \in Nat /\ orch.loading \in Nat
      /\ {tr.label, orch.serving, orch.step, orch.loading} \subseteq Steps
  BY <1>0, StepZero DEF TrainerOK, Trainers, OrchestratorOK, Orchestrators
<1>4. AheadInv'
  BY <1>1, <1>2, <1>3 DEF AheadInv
<1>5. \A n \in Steps : casts[n].state = "whole" /\ n + 2 > tr.label => casts'[n].state = "whole"
  <2> SUFFICES ASSUME NEW n \in Steps, casts[n].state = "whole", n + 2 > tr.label
               PROVE  casts'[n].state = "whole"
    OBVIOUS
  <2>1. CASE tr.pc = "notify" /\ n = tr.label
    <3>1. Notify
      BY <2>1 DEF Trainer, TrainerTop, CleanBroadcasts, TrainerSave, TrainerNoSave,
             TrainerSaved, PruneOne, Pruned, Receive, Train
    <3> QED
      BY <1>0, <2>1, <3>1 DEF Notify, DiskOK, Casts
  <2>2. CASE ~(tr.pc = "notify" /\ n = tr.label)
    <3>1. casts'[n] = casts[n]
      BY <1>3, <2>2, TrainerCasts, StepZero
    <3> QED
      BY <3>1
  <2> QED
    BY <2>1, <2>2
<1>6. LoadInv'
  <2>1. orch.loading # 0 => orch.loading + 2 > tr.label
    BY <1>3 DEF AheadInv, LoadInv
  <2> QED
    BY <1>1, <1>3, <1>5, <2>1 DEF LoadInv
<1>7. ResumeInv'
  BY <1>1, <1>2, <1>3, <1>5 DEF ResumeInv
<1> QED
  BY <1>1, <1>4, <1>6, <1>7, FreshTrainer DEF NothingMissing

LEMMA FilesOrchestrator ==
  ASSUME TypeInv, FilesInv, Orchestrator
  PROVE  FilesInv'
<1>0. TrainerOK /\ OrchestratorOK /\ DiskOK
  BY TypeParts
<1> USE DEF FilesInv, OrchestratorOK, Orchestrators
<1>1. UNCHANGED <<tr, casts>>
  BY DEF Orchestrator, OrchResume, OrchSave, OrchNoSave, OrchSaved, LoadBegin, LoadEnd,
         SendBatch, disk
<1>2. FreshInv'
  BY <1>1 DEF FreshInv
<1> SUFFICES AheadInv' /\ LoadInv' /\ ResumeInv' /\ NothingMissing'
  BY <1>2
<1>3. tr.label \in Nat /\ orch.serving \in Nat /\ orch.step \in Nat /\ orch.loading \in Nat
  BY <1>0, StepZero DEF TrainerOK, Trainers
<1>4. CASE OrchResume
  <2>1. /\ orch'.serving = orch.serving /\ orch'.loading = orch.loading /\ orch'.pc = "top"
        /\ batches' = batches
    BY <1>0, <1>4 DEF OrchResume, ResumeInv, disk
  <2> QED
    BY <1>1, <2>1 DEF AheadInv, LoadInv, ResumeInv, NothingMissing
<1>5. CASE OrchSave \/ OrchNoSave \/ OrchSaved
  <2>1. /\ orch'.serving = orch.serving /\ orch'.loading = orch.loading
        /\ orch'.pc \notin {"resume", "failed"} /\ batches' = batches
    BY <1>0, <1>5 DEF OrchSave, OrchNoSave, OrchSaved, AfterSave, disk
  <2> QED
    BY <1>1, <2>1 DEF AheadInv, LoadInv, ResumeInv, NothingMissing
<1>6. CASE LoadBegin
  <2>1. PICK n : /\ n > orch.serving /\ casts[n].state = "whole"
                 /\ orch' = [orch EXCEPT !.loading = n]
    BY <1>6 DEF LoadBegin
  <2>2. /\ orch'.serving = orch.serving /\ orch'.loading = n
        /\ orch'.pc = "generate" /\ batches' = batches
    BY <1>0, <1>6, <2>1 DEF LoadBegin, disk
  <2> QED
    BY <1>1, <2>1, <2>2 DEF AheadInv, LoadInv, ResumeInv, NothingMissing
<1>7. CASE LoadEnd
  <2>1. casts[orch.loading].state = "whole" /\ orch.loading > orch.serving
    BY <1>7 DEF LoadEnd, LoadInv
  <2>2. /\ orch' = [orch EXCEPT !.serving = orch.loading, !.loading = 0]
        /\ batches' = batches /\ orch.loading # 0
    BY <1>7, <2>1 DEF LoadEnd, disk
  <2>3. /\ orch'.serving = orch.loading /\ orch'.loading = 0
        /\ orch'.pc = orch.pc /\ orch.pc # "resume"
    BY <1>0, <2>2 DEF ResumeInv
  <2> QED
    <3>1. AheadInv'
      <4>1. \A n \in batches : n \in Nat
        BY <1>0, StepZero DEF DiskOK
      <4> QED
        BY <1>1, <1>3, <2>1, <2>2, <2>3, <4>1 DEF AheadInv
    <3> QED
      BY <2>3, <3>1 DEF LoadInv, ResumeInv, NothingMissing
<1>8. CASE SendBatch
  <2>1. /\ orch'.serving = orch.serving /\ orch'.loading = orch.loading /\ orch'.pc = "top"
        /\ batches' = batches \cup {orch.step} /\ orch.step <= orch.serving + 1
    BY <1>0, <1>3, <1>8 DEF SendBatch
  <2> QED
    BY <1>1, <2>1 DEF AheadInv, LoadInv, ResumeInv, NothingMissing
<1> QED
  BY <1>4, <1>5, <1>6, <1>7, <1>8 DEF Orchestrator

LEMMA FilesLaunch ==
  ASSUME Resume = "explicit", TypeInv, Launch
  PROVE  FilesInv'
<1> USE DEF FilesInv
<1>0. DiskOK
  BY TypeParts
<1>1. CASE RestartResuming
  <2> DEFINE m == TrainerFrom
  <2>1. m \in ResumePoints /\ OrchFrom = m
    <3>1. ResumePoints \subseteq Steps /\ ResumePoints # {}
      BY <1>1 DEF ResumePoints, RestartResuming
    <3> QED
      BY <3>1, MaxOfSteps DEF TrainerFrom, OrchFrom
  <2>2. /\ m \in Steps /\ m \in Nat
        /\ trained[m] = "whole" /\ orched[m] = "whole" /\ casts[m].state = "whole"
    BY <2>1, StepZero DEF ResumePoints
  <2>3. CleanFutureSteps(m) /\ orched' = orched
    BY <1>1, <2>2 DEF RestartResuming
  <2>4. /\ \A n \in batches' : n <= m
        /\ \A n \in Steps : casts'[n] = IF n <= m THEN casts[n] ELSE NoCast
    BY <2>3 DEF CleanFutureSteps
  <2>5. tr'.label = m /\ tr'.pc = "top" /\ tr'.ready = FALSE
    BY <1>1, <2>1 DEF RestartResuming, Restarted, PackerStep, TrainerAt
  <2>6. /\ orch'.step = m /\ orch'.serving = m /\ orch'.loading = 0
        /\ orch'.pc \in {"resume", "top"}
    BY <1>1, <2>1 DEF RestartResuming, Restarted, OrchAt
  <2>7. FreshInv'
    <3>1. \A n \in Steps : n > tr'.label => casts'[n].state = "none"
      <4> SUFFICES ASSUME NEW n \in Steps, n > tr'.label
                   PROVE  casts'[n].state = "none"
        OBVIOUS
      <4>1. ~(n <= m)
        BY <2>2, <2>5, StepZero
      <4> QED
        BY <2>4, <4>1 DEF NoCast
    <3>2. ~(tr'.pc = "train" \/ (tr'.pc = "top" /\ tr'.ready))
      BY <2>5
    <3> QED
      BY <3>1, <3>2 DEF FreshInv
  <2>8. AheadInv' /\ LoadInv' /\ NothingMissing'
    <3>1. \A n \in batches' : n \in Nat
      BY <1>0, <2>3, StepZero DEF CleanFutureSteps, DiskOK
    <3> QED
      BY <2>2, <2>4, <2>5, <2>6, <3>1 DEF AheadInv, LoadInv, NothingMissing
  <2>9. ResumeInv'
    BY <2>2, <2>3, <2>4, <2>5, <2>6 DEF ResumeInv
  <2> QED
    BY <2>7, <2>8, <2>9
<1>2. CASE RestartClean
  BY <1>2, StepZero DEF RestartClean, TrainerAt, OrchAt, NoCast, FreshInv, AheadInv, LoadInv,
     ResumeInv, NothingMissing
<1> QED
  BY <1>1, <1>2 DEF Launch

(* No process dies but of a fault, for any interval, retention and number of
   crashes: what the orchestrator resumes from or loads is there until it has
   been read, although the trainer removes the broadcast two steps behind its
   own count and the launcher those past the resume step. *)
THEOREM FilesStayForReaders == ASSUME Resume = "explicit"
                               PROVE  Spec => []NothingMissing
<1> DEFINE Inv == TypeInv /\ FilesInv
<1>1. Init => Inv
  BY TypeInit, FilesInit
<1>2. Inv /\ [Next]_vars => Inv'
  <2> SUFFICES ASSUME Inv, [Next]_vars
               PROVE  FilesInv'
    BY TypeNext
  <2>1. CASE Crash \/ UNCHANGED vars
    <3>1. UNCHANGED <<casts, batches, orched, tr, orch>>
      BY <2>1 DEF Crash, vars, disk
    <3> QED
      BY <3>1, FilesUnchanged
  <2> QED
    BY <2>1, FilesTrainer, FilesOrchestrator, FilesLaunch DEF Next, Ended
<1>3. Inv => NothingMissing
  BY DEF FilesInv
<1> QED
  BY <1>1, <1>2, <1>3, PTL DEF Spec

-----------------------------------------------------------------------------
(* A run that can be resumed *)

(* A step before the last but one at which both save.                       *)
Due(n) == 0 < n /\ n < MaxSteps - 1 /\ n % Interval = 0

(* The last resume point is lost otherwise, and TLC shows each of the ways.  *)
(* With one checkpoint kept the new one pushes the old one out before the    *)
(* orchestrator has saved its own; with two, when max_steps - 1 is a step    *)
(* at which the trainer saves and the orchestrator does not.  When max_steps *)
(* is a multiple of the interval the orchestrator saves there twice, and    *)
(* there must be an earlier checkpoint while the second one is written.     *)
Retained ==
    /\ KeepLast >= 2
    /\ (MaxSteps - 1) % Interval = 0 => KeepLast >= 3
    /\ MaxSteps % Interval = 0 => \E n \in Steps : Due(n)

(* The trainer has not come to the end of step n since it was started.      *)
Ahead(n) == \/ n > tr.step
            \/ n = tr.step /\ ~tr.first /\ tr.pc \in {"top", "notify", "clean", "ckpt"}
OrchAhead(n) ==
    \/ n > orch.step
    \/ /\ n = orch.step /\ ~orch.first
       /\ orch.pc = "top" \/ (orch.pc = "final" /\ MaxSteps % Interval # 0)

(* The trainer trains on nothing that the orchestrator has not sent, but     *)
(* for the batch of the resume step, left by the run before.                *)
PaceInv ==
    /\ \A n \in batches : n < orch.step \/ (n = orch.step /\ orch.first)
    /\ tr.label <= orch.step \/ (tr.label = orch.step + 1 /\ orch.first)
    /\ tr.first => IF orch.first THEN tr.step = orch.step ELSE tr.step < orch.step
    /\ tr.first => tr.step < MaxSteps
    /\ orch.first => orch.step < MaxSteps
    /\ orch.pc = "final" => orch.step = MaxSteps
    /\ orch.pc = "saving" => orch.step % Interval = 0
    /\ orch.pc = "resume" => orch.first

(* There are weights to send at every step but the first.                   *)
SendInv ==
    /\ tr.pc = "train" => tr.ready
    /\ ~tr.first => tr.step > 0 /\ (tr.pc = "top" => tr.ready)
    /\ tr.pc \in {"clean", "ckpt", "saving", "prune"} /\ ~tr.first => casts[tr.step].state = "whole"
    /\ tr.pc \in {"saving", "prune"} => ~tr.first /\ trained[tr.step] # "none"

(* Half removed, now or by an earlier start that crashed: the oldest one is  *)
(* removed first.                                                           *)
Cut(n) == n < tr.step /\ \A k \in Steps : trained[k] # "none" => n <= k

(* Of every checkpoint of the trainer: it is of a step at which one is due,  *)
(* a partial one is still to be written again or is being removed, and the   *)
(* weights and the orchestrator's checkpoint are there once each has come    *)
(* past its step.                                                           *)
SavedAt(n) ==
    trained[n] # "none" =>
        /\ n % Interval = 0 \/ n = MaxSteps
        /\ trained[n] = "partial" =>
             Ahead(n) \/ (n = tr.step /\ ~tr.first /\ tr.pc = "saving") \/ Cut(n)
        /\ casts[n].state = "whole" \/ n > tr.step
             \/ (n = tr.step /\ ~tr.first /\ tr.pc \in {"top", "notify"})

(* The orchestrator saves at the steps at which the trainer does.           *)
OwedAt(n) ==
    /\ n % Interval = 0 /\ n < MaxSteps - 1
    /\ trained[n] # "none" \/ n > tr.step \/ (n = tr.step /\ ~tr.first)
    => \/ orched[n] = "whole" \/ n > orch.step
       \/ n = orch.step /\ ~orch.first /\ orch.pc \in {"top", "saving"}

(* What the checkpoint manager keeps is what lies behind the trainer.       *)
KeptInv ==
    tr.kept = {n \in Steps : /\ trained[n] # "none"
                             /\ \/ n < tr.step
                                \/ n = tr.step /\ (tr.first \/ tr.pc \in {"prune", "wait", "train", "done"})}

(* The resume points behind the trainer. *)
Anchors == {n \in ResumePoints : n < tr.step \/ (n = tr.step /\ tr.first)}
Anchored == Anchors # {}

(* A checkpoint ahead is what an earlier start has left; it will be written  *)
(* over, and so there is a resume point behind.                             *)
LeftoverInv ==
    (\E n \in Steps : \/ trained[n] # "none" /\ Ahead(n)
                      \/ orched[n] # "none" /\ OrchAhead(n)) => Anchored

(* Nor is a trainer past a step at which both save without one.             *)
PassedInv ==
    /\ tr.first \/ tr.pc \in {"wait", "train"} =>
         (Due(tr.step) => trained[tr.step] # "none")
    /\ (\E n \in Steps : Due(n) /\ n < tr.step) => Anchored

(* One that is half removed lies below a resume point. *)
CutInv ==
    \A n \in Steps : trained[n] = "partial" /\ n < tr.step => \E m \in Anchors : m > n

CheckpointsInv == \A n \in Steps : SavedAt(n) /\ OwedAt(n)
RetentionInv ==
    PaceInv /\ SendInv /\ KeptInv /\ LeftoverInv /\ PassedInv /\ CutInv /\ CheckpointsInv

Inv == TypeInv /\ LabelInv /\ FilesInv /\ RetentionInv

(* The records an action may change, and where their counts lie.            *)
LEMMA RecordsOK ==
  ASSUME TypeInv
  PROVE  /\ tr \in Trainers /\ orch \in Orchestrators
         /\ trained \in [Steps -> Saved] /\ orched \in [Steps -> Saved]
         /\ casts \in [Steps -> Casts]
         /\ {tr.step, tr.label, orch.step} \subseteq Nat
         /\ {tr.step, tr.label, orch.step} \subseteq Steps
         /\ tr.step <= MaxSteps /\ tr.label <= MaxSteps /\ orch.step <= MaxSteps
<1>1. tr \in Trainers /\ orch \in Orchestrators
  BY TypeParts DEF TrainerOK, OrchestratorOK
<1>2. {tr.step, tr.label, orch.step} \subseteq Steps
  BY <1>1 DEF Trainers, Orchestrators
<1>3. DiskOK
  BY TypeParts
<1> QED
  BY <1>1, <1>2, <1>3, StepZero DEF DiskOK

(* A checkpoint that lies behind the trainer is one to resume from: all of   *)
(* them but the one that the orchestrator does not have.                    *)
BehindInv ==
    \A n \in Steps : trained[n] = "whole" /\ n < tr.step /\ n # MaxSteps - 1 => n \in ResumePoints

LEMMA BehindIsComplete == TypeInv /\ LabelInv /\ PaceInv /\ CheckpointsInv => BehindInv
<1> SUFFICES ASSUME TypeInv, LabelInv, PaceInv, CheckpointsInv, NEW n \in Steps,
                    trained[n] = "whole", n < tr.step, n # MaxSteps - 1
             PROVE  n \in ResumePoints
  BY DEF BehindInv
<1>1. n < MaxSteps - 1 /\ n % Interval = 0
  <2>1. n < MaxSteps /\ n \in Nat /\ MaxSteps \in Nat
    BY RecordsOK, StepZero
  <2>2. n % Interval = 0
    BY <2>1 DEF CheckpointsInv, SavedAt, Cut
  <2> QED
    BY <2>1, <2>2
<1>2. n \in Nat /\ tr.step \in Nat /\ orch.step \in Nat /\ tr.label \in Nat
  BY RecordsOK, StepZero
<1>3. trained[n] = "whole" /\ casts[n].state = "whole"
  <2>1. SavedAt(n)
    BY DEF CheckpointsInv
  <2>2. trained[n] \in Saved
    BY RecordsOK
  <2> QED
    BY <1>2, <2>1, <2>2 DEF SavedAt, Cut, Ahead, Saved
<1>4. n < orch.step \/ (n <= orch.step /\ orch.first)
  BY <1>2 DEF LabelInv, PaceInv
<1>5. orched[n] = "whole"
  <2>1. OwedAt(n)
    BY DEF CheckpointsInv
  <2> QED
    BY <1>1, <1>2, <1>4, <2>1 DEF OwedAt
<1> QED
  BY <1>3, <1>5 DEF ResumePoints

LEMMA BehindIsCompleteNext == TypeInv' /\ LabelInv' /\ PaceInv' /\ CheckpointsInv' => BehindInv'
  BY BehindIsComplete, PTL

LEMMA RetentionTop ==
  ASSUME Inv, TrainerTop
  PROVE  RetentionInv'
<1> USE DEF Inv
<1>1. /\ UNCHANGED <<orch, batches, trained, orched>>
      /\ tr'.step = tr.step /\ tr'.label = tr.label /\ tr'.first = tr.first /\ tr'.kept = tr.kept
      /\ tr.pc = "top" /\ tr.label = tr.step
  BY RecordsOK DEF TrainerTop, Trainers, LabelInv
<1>2. CASE tr.step > 0 /\ tr.ready
  <2>1. /\ casts' = [casts EXCEPT ![tr.step] = [state |-> "partial", weights |-> tr.step]]
        /\ tr'.pc = "notify" /\ casts[tr.step].state = "none"
    BY <1>1, <1>2, RecordsOK DEF TrainerTop, Trainers, FilesInv, FreshInv
  <2>2. \A n \in Steps : n # tr.step => casts'[n] = casts[n]
    BY <2>1, RecordsOK
  <2>3. Anchors \subseteq Anchors'
    BY <1>1, <2>1, <2>2 DEF ResumePoints, Anchors
  <2>4. PaceInv' /\ SendInv' /\ KeptInv'
    BY <1>1, <2>1 DEF RetentionInv, PaceInv, SendInv, KeptInv
  <2>5. LeftoverInv' /\ PassedInv' /\ CutInv'
    BY <1>1, <2>1, <2>3 DEF RetentionInv, LeftoverInv, PassedInv, CutInv, Anchored, Ahead, OrchAhead
  <2>6. CheckpointsInv'
    <3> SUFFICES ASSUME NEW n \in Steps PROVE SavedAt(n)' /\ OwedAt(n)'
      BY DEF CheckpointsInv
    <3>1. SavedAt(n) /\ OwedAt(n)
      BY DEF RetentionInv, CheckpointsInv
    <3>2. SavedAt(n)'
      BY <1>1, <2>1, <2>2, <3>1, RecordsOK, StepZero DEF SavedAt, Cut, Ahead
    <3>3. OwedAt(n)'
      BY <1>1, <3>1 DEF OwedAt
    <3> QED
      BY <3>2, <3>3
  <2> QED
    BY <2>4, <2>5, <2>6 DEF RetentionInv
<1>3. CASE ~(tr.step > 0 /\ tr.ready)
  <2>1. casts' = casts /\ tr'.pc \in {"clean", "ckpt"}
    BY <1>1, <1>3, RecordsOK DEF TrainerTop, Trainers
  <2>2. tr.first
    BY <1>1, <1>3 DEF RetentionInv, SendInv
  <2>3. PaceInv' /\ SendInv' /\ KeptInv'
    BY <1>1, <2>1, <2>2 DEF RetentionInv, PaceInv, SendInv, KeptInv
  <2>4. LeftoverInv' /\ PassedInv' /\ CutInv'
    BY <1>1, <2>1, <2>2 DEF RetentionInv, LeftoverInv, PassedInv, CutInv, Anchored, Anchors, Ahead, OrchAhead, ResumePoints
  <2>5. CheckpointsInv'
    BY <1>1, <2>1, <2>2 DEF RetentionInv, CheckpointsInv, SavedAt, Cut, OwedAt, Ahead
  <2> QED
    BY <2>3, <2>4, <2>5 DEF RetentionInv
<1> QED
  BY <1>2, <1>3

LEMMA RetentionNotify ==
  ASSUME Inv, Notify
  PROVE  RetentionInv'
<1> USE DEF Inv
<1>1. /\ UNCHANGED <<orch, batches, trained, orched>>
      /\ tr'.step = tr.step /\ tr'.label = tr.label /\ tr'.first = tr.first /\ tr'.kept = tr.kept
      /\ tr.pc = "notify" /\ tr'.pc = "clean" /\ tr.label = tr.step
  BY RecordsOK DEF Notify, Trainers, LabelInv
<1>2. /\ casts'[tr.step].state = "whole"
      /\ \A n \in Steps : n # tr.step => casts'[n] = casts[n]
  BY <1>1, RecordsOK DEF Notify, Casts
<1>3. Anchors \subseteq Anchors'
  BY <1>1, <1>2 DEF ResumePoints, Anchors
<1>4. PaceInv' /\ SendInv' /\ KeptInv'
  BY <1>1, <1>2 DEF RetentionInv, PaceInv, SendInv, KeptInv
<1>5. LeftoverInv' /\ PassedInv' /\ CutInv'
  BY <1>1, <1>3 DEF RetentionInv, LeftoverInv, PassedInv, CutInv, Anchored, Ahead, OrchAhead
<1>6. CheckpointsInv'
  <2> SUFFICES ASSUME NEW n \in Steps PROVE SavedAt(n)' /\ OwedAt(n)'
    BY DEF CheckpointsInv
  <2>1. SavedAt(n) /\ OwedAt(n)
    BY DEF RetentionInv, CheckpointsInv
  <2>2. SavedAt(n)'
    BY <1>1, <1>2, <2>1 DEF SavedAt, Cut, Ahead
  <2>3. OwedAt(n)'
    BY <1>1, <2>1 DEF OwedAt
  <2> QED
    BY <2>2, <2>3
<1> QED
  BY <1>4, <1>5, <1>6 DEF RetentionInv

(* The removal of old broadcasts spares every step at which there is a       *)
(* checkpoint.                                                              *)
LEMMA RetentionClean ==
  ASSUME Inv, CleanBroadcasts
  PROVE  RetentionInv' /\ ResumePoints \subseteq ResumePoints'
<1> USE DEF Inv
<1>1. /\ UNCHANGED <<orch, batches, trained, orched>>
      /\ tr'.step = tr.step /\ tr'.label = tr.label /\ tr'.first = tr.first /\ tr'.kept = tr.kept
      /\ tr.pc = "clean" /\ tr'.pc = "ckpt" /\ tr.label = tr.step
  BY RecordsOK DEF CleanBroadcasts, Trainers, LabelInv
<1>2. \A n \in Steps : trained[n] # "none" => casts'[n] = casts[n]
  <2> SUFFICES ASSUME NEW n \in Steps, trained[n] # "none"
               PROVE  casts'[n] = casts[n]
    OBVIOUS
  <2>1. n % Interval = 0 \/ n = MaxSteps
    BY DEF RetentionInv, CheckpointsInv, SavedAt, Cut
  <2>2. Candidate # MaxSteps
    BY RecordsOK, StepZero DEF Candidate
  <2>3. n = Candidate => KeptForResume(Candidate)
    BY <2>1, <2>2 DEF KeptForResume
  <2> QED
    BY <2>3, RecordsOK DEF CleanBroadcasts
<1>3. tr.step \in Steps /\ (~tr.first => casts'[tr.step].state = "whole")
  <2>1. tr.step \in Steps /\ (tr.step # Candidate \/ KeptForResume(Candidate))
    <3>1. KeptForResume(0)
      BY RunAssumption DEF KeptForResume
    <3>2. tr.step \in Nat
      BY RecordsOK
    <3> QED
      BY <1>1, <3>1, <3>2, RecordsOK DEF Candidate
  <2>2. ~tr.first => casts[tr.step].state = "whole"
    BY <1>1 DEF RetentionInv, SendInv
  <2> QED
    BY <2>1, <2>2, RecordsOK DEF CleanBroadcasts
<1>4. ResumePoints \subseteq ResumePoints' /\ Anchors \subseteq Anchors'
  BY <1>1, <1>2 DEF ResumePoints, Anchors
<1>5. PaceInv' /\ SendInv' /\ KeptInv'
  BY <1>1, <1>3 DEF RetentionInv, PaceInv, SendInv, KeptInv
<1>6. LeftoverInv' /\ PassedInv' /\ CutInv'
  BY <1>1, <1>4 DEF RetentionInv, LeftoverInv, PassedInv, CutInv, Anchored, Ahead, OrchAhead
<1>7. CheckpointsInv'
  <2> SUFFICES ASSUME NEW n \in Steps PROVE SavedAt(n)' /\ OwedAt(n)'
    BY DEF CheckpointsInv
  <2>1. SavedAt(n) /\ OwedAt(n)
    BY DEF RetentionInv, CheckpointsInv
  <2>2. SavedAt(n)'
    BY <1>1, <1>2, <2>1 DEF SavedAt, Cut, Ahead
  <2>3. OwedAt(n)'
    BY <1>1, <2>1 DEF OwedAt
  <2> QED
    BY <2>2, <2>3
<1> QED
  BY <1>4, <1>5, <1>6, <1>7 DEF RetentionInv

(* A checkpoint that is written over is one ahead, so that there is a resume *)
(* point behind.                                                            *)
LEMMA RetentionSave ==
  ASSUME Inv, TrainerSave
  PROVE  RetentionInv' /\ (ResumePoints # {} => ResumePoints' # {})
<1> USE DEF Inv
<1>1. /\ UNCHANGED <<orch, batches, casts, orched>>
      /\ tr'.step = tr.step /\ tr'.label = tr.label /\ tr'.first = tr.first /\ tr'.kept = tr.kept
      /\ tr.pc = "ckpt" /\ tr'.pc = "saving" /\ tr.label = tr.step
  BY RecordsOK DEF TrainerSave, Trainers, LabelInv
<1>2. /\ tr.step \in Steps /\ tr.step \in Nat /\ trained'[tr.step] = "partial"
      /\ \A n \in Steps : n # tr.step => trained'[n] = trained[n]
  BY RecordsOK DEF TrainerSave
<1>3. /\ ~tr.first
      /\ tr.step % Interval = 0 \/ tr.step = MaxSteps
  BY RecordsOK, StepZero DEF TrainerSave, SaveBegins, RetentionInv, PaceInv
<1>4. Anchors \subseteq Anchors'
  BY <1>1, <1>2, <1>3 DEF Anchors, ResumePoints
<1>5. ResumePoints # {} => ResumePoints' # {}
  <2> SUFFICES ASSUME NEW n \in ResumePoints
               PROVE  ResumePoints' # {}
    OBVIOUS
  <2>1. CASE n # tr.step
    BY <1>1, <1>2, <2>1 DEF ResumePoints
  <2>2. CASE n = tr.step
    <3>1. Anchored
      BY <1>1, <1>3, <2>2 DEF ResumePoints, RetentionInv, LeftoverInv, Ahead
    <3> QED
      BY <1>4, <3>1 DEF Anchored, Anchors
  <2> QED
    BY <2>1, <2>2
<1>6. PaceInv' /\ SendInv'
  BY <1>1, <1>2, <1>3 DEF RetentionInv, PaceInv, SendInv
<1>7. KeptInv'
  BY <1>1, <1>2, <1>3 DEF RetentionInv, KeptInv
<1>8. LeftoverInv' /\ PassedInv' /\ CutInv'
  BY <1>1, <1>2, <1>3, <1>4 DEF RetentionInv, LeftoverInv, PassedInv, CutInv, Anchored, Ahead, OrchAhead
<1>9. CheckpointsInv'
  <2> SUFFICES ASSUME NEW n \in Steps PROVE SavedAt(n)' /\ OwedAt(n)'
    BY DEF CheckpointsInv
  <2>1. SavedAt(n) /\ OwedAt(n) /\ (~tr.first => casts[tr.step].state = "whole")
    BY <1>1 DEF RetentionInv, CheckpointsInv, SendInv
  <2>2. SavedAt(n)'
    <3>1. Cut(n) => Cut(n)'
      BY <1>1, <1>2, StepZero DEF Cut
    <3> QED
      BY <1>1, <1>2, <1>3, <2>1, <3>1 DEF SavedAt, Ahead
  <2>3. OwedAt(n)'
    BY <1>1, <1>2, <1>3, <2>1 DEF OwedAt
  <2> QED
    BY <2>2, <2>3
<1> QED
  BY <1>5, <1>6, <1>7, <1>8, <1>9 DEF RetentionInv

LEMMA RetentionNoSave ==
  ASSUME Inv, TrainerNoSave
  PROVE  RetentionInv'
<1> USE DEF Inv
<1>1. /\ UNCHANGED <<orch, batches, casts, orched, trained>>
      /\ tr'.step = tr.step /\ tr'.label = tr.label /\ tr'.first = tr.first /\ tr'.kept = tr.kept
      /\ tr.pc = "ckpt" /\ tr'.pc = "wait" /\ tr.label = tr.step
  BY RecordsOK DEF TrainerNoSave, Trainers, LabelInv, disk
<1>2. tr.step \in Steps /\ tr.step \in Nat /\ MaxSteps \in Nat /\ tr.step <= MaxSteps
  BY RecordsOK, StepZero
<1>3. tr.step # MaxSteps /\ (tr.first \/ tr.step % Interval # 0)
  BY <1>2 DEF TrainerNoSave, SaveBegins
<1>4. ~tr.first => trained[tr.step] = "none"
  BY <1>2, <1>3 DEF RetentionInv, CheckpointsInv, SavedAt, Cut
<1>5. PaceInv' /\ SendInv'
  BY <1>1 DEF RetentionInv, PaceInv, SendInv
<1>6. KeptInv'
  BY <1>1, <1>4 DEF RetentionInv, KeptInv
<1>7. LeftoverInv' /\ PassedInv' /\ CutInv'
  BY <1>1, <1>3 DEF RetentionInv, LeftoverInv, PassedInv, CutInv, Anchored, Anchors, ResumePoints, Ahead, OrchAhead, Due
<1>8. CheckpointsInv'
  BY <1>1, <1>4 DEF RetentionInv, CheckpointsInv, SavedAt, Cut, OwedAt, Ahead
<1> QED
  BY <1>5, <1>6, <1>7, <1>8 DEF RetentionInv

(* The newest known checkpoint is never dropped, and those dropped are older *)
(* than those to keep.                                                      *)
LEMMA KeepsLast ==
  ASSUME TypeInv, tr.step \in tr.kept, \A k \in tr.kept : k < tr.step \/ k = tr.step
  PROVE  tr.step \in ToKeep(tr.kept)
<1>1. tr.step \in Nat /\ tr.kept \subseteq Nat
  BY RecordsOK, StepZero DEF Trainers
<1>2. {k \in tr.kept : k > tr.step} = {}
  BY <1>1
<1>3. Cardinality({k \in tr.kept : k > tr.step}) < KeepLast
  BY <1>2, FS_EmptySet, RunAssumption
<1> QED
  BY <1>3 DEF ToKeep

LEMMA DroppedAreOlder ==
  ASSUME TypeInv, NEW r \in Dropped, NEW n \in ToKeep(tr.kept)
  PROVE  r < n
<1>1. tr.kept \subseteq Steps /\ r \in tr.kept /\ n \in tr.kept /\ r \notin ToKeep(tr.kept)
  BY RecordsOK DEF Trainers, Dropped, ToKeep
<1>2. tr.kept \subseteq Nat /\ MaxSteps \in Nat
  BY <1>1, StepZero
<1> SUFFICES ASSUME ~(r < n)
             PROVE  FALSE
  OBVIOUS
<1> DEFINE above(x) == {k \in tr.kept : k > x}
<1>3. IsFiniteSet(above(n)) /\ IsFiniteSet(above(r))
  <2>1. IsFiniteSet(Steps)
    BY <1>2, FS_Interval DEF Steps
  <2> QED
    BY <1>1, <2>1, FS_Subset
<1>4. above(r) \subseteq above(n)
  BY <1>1, <1>2
<1>5. Cardinality(above(r)) <= Cardinality(above(n))
  BY <1>3, <1>4, FS_Subset
<1>6. Cardinality(above(r)) \in Nat /\ Cardinality(above(n)) \in Nat /\ KeepLast \in Nat
  BY <1>3, FS_CardinalityType, RunAssumption
<1>7. Cardinality(above(n)) < KeepLast
  BY DEF ToKeep
<1>8. ~(Cardinality(above(r)) < KeepLast)
  BY <1>1 DEF ToKeep
<1> QED
  BY <1>5, <1>6, <1>7, <1>8

(* Nothing older than the oldest is half removed. *)
LEMMA NewerAreWhole ==
  ASSUME TypeInv, CheckpointsInv, NEW n \in tr.kept, NEW k \in tr.kept,
         k < n, trained[k] # "none", n < tr.step
  PROVE  trained[n] \in {"whole", "none"}
<1>1. {tr.step, n, k} \subseteq Nat /\ n \in Steps /\ k \in Steps
  BY RecordsOK, StepZero DEF Trainers
<1>2. trained[n] \in Saved /\ SavedAt(n)
  BY <1>1, RecordsOK DEF CheckpointsInv
<1>3. ~Cut(n)
  BY <1>1 DEF Cut
<1> QED
  BY <1>1, <1>2, <1>3 DEF SavedAt, Ahead, Saved

(* The steps that are kept are the last ones: when one goes, a resume point  *)
(* is among the others.                                                     *)
LEMMA RetentionKeeps ==
  ASSUME Retained, Inv, tr.pc = "prune", NEW r \in Dropped
  PROVE  \E n \in ResumePoints : n < tr.step /\ n \in ToKeep(tr.kept)
<1> USE DEF Inv
<1> DEFINE s == tr.step
           older == tr.kept \ {s}
<1>1. /\ s \in Steps /\ s \in Nat /\ tr.kept \subseteq Steps /\ Steps \subseteq Nat
      /\ KeepLast \in Nat
  BY RecordsOK, StepZero, RunAssumption DEF Trainers
<1>2. s \in tr.kept /\ \A n \in older : n \in Steps /\ trained[n] # "none" /\ n < s
  BY <1>1 DEF RetentionInv, SendInv, KeptInv
<1>3. s \in ToKeep(tr.kept)
  BY <1>2, KeepsLast
<1>4. r \in older /\ r \notin ToKeep(tr.kept)
  BY <1>3 DEF Dropped
<1>5. \A n \in older : n \in ToKeep(tr.kept) /\ n # MaxSteps - 1 => n \in ResumePoints
  <2> SUFFICES ASSUME NEW n \in older, n \in ToKeep(tr.kept), n # MaxSteps - 1
               PROVE  n \in ResumePoints
    OBVIOUS
  <2>1. r < n
    BY DroppedAreOlder
  <2>2. trained[n] = "whole"
    BY <1>2, <1>4, <2>1, NewerAreWhole DEF RetentionInv
  <2> QED
    BY <1>2, <2>2, BehindIsComplete DEF RetentionInv, BehindInv
<1>6. older \subseteq Steps /\ older # {}
  BY <1>1, <1>4
<1>7. PICK a \in older : \A k \in older : a >= k
  BY <1>6, MaxOfSteps
<1>8. a \in ToKeep(tr.kept)
  <2>1. {k \in tr.kept : k > a} = {s}
    <3>1. a \in Nat /\ \A k \in older : k \in Nat /\ a >= k
      BY <1>1, <1>7
    <3>2. s > a
      BY <1>1, <1>2
    <3> QED
      BY <1>2, <3>1, <3>2
  <2>2. Cardinality({s}) = 1
    BY FS_Singleton
  <2>3. Cardinality({k \in tr.kept : k > a}) < KeepLast
    BY <1>1, <2>1, <2>2 DEF Retained
  <2> QED
    BY <2>3 DEF ToKeep
<1>9. CASE a # MaxSteps - 1
  BY <1>2, <1>5, <1>8, <1>9
<1>10. CASE a = MaxSteps - 1
  <2>1. a % Interval = 0 /\ KeepLast >= 3
    <3>1. a \in Steps /\ a # MaxSteps
      BY <1>1, <1>10, StepZero
    <3>2. a % Interval = 0
      BY <1>2, <3>1 DEF RetentionInv, CheckpointsInv, SavedAt
    <3> QED
      BY <1>10, <3>2 DEF Retained
  <2>2. older \ {a} \subseteq Steps /\ older \ {a} # {}
    BY <1>1, <1>4, <1>8
  <2>3. PICK b \in older \ {a} : \A k \in older \ {a} : b >= k
    BY <2>2, MaxOfSteps
  <2>4. b \in ToKeep(tr.kept)
    <3>1. {k \in tr.kept : k > b} = {s} \cup {a}
      <4>1. a \in Nat /\ b \in Nat /\ a >= b /\ a # b
        BY <1>1, <1>7, <2>3
      <4>2. \A k \in older : k \in Nat /\ (k # a => b >= k)
        BY <1>1, <2>3
      <4>3. s > b
        BY <1>1, <1>2, <2>3
      <4> QED
        BY <1>2, <4>1, <4>2, <4>3
    <3>2. Cardinality({s} \cup {a}) = 2
      <4>1. IsFiniteSet({s}) /\ Cardinality({s}) = 1
        BY FS_Singleton
      <4>2. Cardinality({s} \cup {a}) = Cardinality({s}) + 1
        BY <4>1, FS_AddElement
      <4> QED
        BY <4>1, <4>2
    <3>3. Cardinality({k \in tr.kept : k > b}) = 2
      BY <3>1, <3>2
    <3>4. Cardinality({k \in tr.kept : k > b}) < KeepLast
      BY <1>1, <2>1, <3>3
    <3> QED
      BY <3>4 DEF ToKeep
  <2>5. b # MaxSteps - 1
    BY <1>10, <2>3
  <2> QED
    BY <1>2, <1>5, <2>3, <2>4, <2>5
<1> QED
  BY <1>9, <1>10

LEMMA RetentionSaved ==
  ASSUME Inv, TrainerSaved
  PROVE  RetentionInv' /\ ResumePoints \subseteq ResumePoints'
<1> USE DEF Inv
<1>1. /\ UNCHANGED <<orch, batches, casts, orched>>
      /\ tr'.step = tr.step /\ tr'.label = tr.label /\ tr'.first = tr.first
      /\ tr'.kept = tr.kept \cup {tr.step}
      /\ tr.pc = "saving" /\ tr'.pc = "prune" /\ tr.label = tr.step
  BY RecordsOK DEF TrainerSaved, Trainers, LabelInv
<1>2. /\ tr.step \in Steps /\ tr.step \in Nat /\ Steps \subseteq Nat
      /\ ~tr.first /\ trained[tr.step] # "none" /\ casts[tr.step].state = "whole"
  BY <1>1, RecordsOK, StepZero DEF RetentionInv, SendInv
<1>3. /\ trained'[tr.step] = "whole"
      /\ \A n \in Steps : n # tr.step => trained'[n] = trained[n]
  BY <1>2, RecordsOK DEF TrainerSaved
<1>4. ResumePoints \subseteq ResumePoints' /\ Anchors \subseteq Anchors'
  BY <1>1, <1>3 DEF ResumePoints, Anchors
<1>5. PaceInv' /\ SendInv'
  BY <1>1, <1>2, <1>3 DEF RetentionInv, PaceInv, SendInv
<1>6. KeptInv'
  BY <1>1, <1>2, <1>3 DEF RetentionInv, KeptInv
<1>7. LeftoverInv' /\ PassedInv' /\ CutInv'
  BY <1>1, <1>2, <1>3, <1>4 DEF RetentionInv, LeftoverInv, PassedInv, CutInv, Ahead, OrchAhead, Anchored
<1>8. CheckpointsInv'
  <2> SUFFICES ASSUME NEW n \in Steps PROVE SavedAt(n)' /\ OwedAt(n)'
    BY DEF CheckpointsInv
  <2>1. SavedAt(n) /\ OwedAt(n)
    BY DEF RetentionInv, CheckpointsInv
  <2>2. SavedAt(n)'
    <3>1. Cut(n) => Cut(n)'
      BY <1>1, <1>2, <1>3 DEF Cut
    <3> QED
      BY <1>1, <1>2, <1>3, <2>1, <3>1 DEF SavedAt, Ahead
  <2>3. OwedAt(n)'
    BY <1>1, <1>2, <1>3, <2>1 DEF OwedAt
  <2> QED
    BY <2>2, <2>3
<1> QED
  BY <1>4, <1>5, <1>6, <1>7, <1>8 DEF RetentionInv

(* The oldest checkpoint goes, in two steps.  The newer ones are whole, and  *)
(* one of those that stay is a resume point.                                *)
LEMMA RetentionPruneOne ==
  ASSUME Retained, Inv, PruneOne
  PROVE  RetentionInv' /\ (ResumePoints # {} => ResumePoints' # {})
<1> USE DEF Inv
<1>1. Dropped # {} /\ Dropped \subseteq tr.kept /\ tr.kept \subseteq Steps /\ Steps \subseteq Nat
  BY RecordsOK, StepZero DEF PruneOne, Dropped, Trainers
<1>2. PICK o : o = Min(Dropped)
  OBVIOUS
<1>3. o \in Dropped /\ o \in Steps /\ \A k \in Dropped : o <= k
  BY <1>1, <1>2, MinOfSteps
<1>4. /\ UNCHANGED <<orch, batches, casts, orched>>
      /\ tr'.step = tr.step /\ tr'.label = tr.label /\ tr'.first = tr.first
      /\ tr.pc = "prune" /\ tr'.pc = "prune" /\ tr.label = tr.step
  BY RecordsOK DEF PruneOne, Trainers, LabelInv
<1>5. /\ tr.step \in Steps /\ tr.step \in Nat /\ ~tr.first
      /\ trained[tr.step] # "none" /\ casts[tr.step].state = "whole"
  BY <1>4, RecordsOK DEF RetentionInv, SendInv
<1>6. \A n \in Steps : n \in tr.kept <=> trained[n] # "none" /\ (n < tr.step \/ n = tr.step)
  BY <1>4, <1>5 DEF RetentionInv, KeptInv
<1>7. \A n \in Steps : n # o => trained'[n] = trained[n]
  BY <1>2, RecordsOK DEF PruneOne
<1>8. \/ trained[o] = "whole" /\ trained'[o] = "partial" /\ tr'.kept = tr.kept
      \/ trained[o] = "partial" /\ trained'[o] = "none" /\ tr'.kept = tr.kept \ {o}
  <2>1. trained[o] \in {"whole", "partial"}
    BY <1>1, <1>3, <1>6, RecordsOK DEF Saved
  <2> QED
    BY <1>2, <1>3, <2>1, RecordsOK DEF PruneOne, Trainers
<1>9. \A n \in ToKeep(tr.kept) : o < n
  BY <1>3, DroppedAreOlder
<1>10. o < tr.step
  <2>1. tr.step \in ToKeep(tr.kept)
    BY <1>5, <1>6, <1>1, KeepsLast
  <2> QED
    BY <1>9, <2>1
<1>11. \A k \in Steps : trained[k] # "none" => o <= k
  <2> SUFFICES ASSUME NEW k \in Steps, trained[k] # "none"
               PROVE  o <= k
    OBVIOUS
  <2>1. CASE k \in tr.kept
    BY <1>1, <1>3, <1>9, <2>1 DEF Dropped
  <2>2. CASE k \notin tr.kept
    <3>1. ~(k < tr.step \/ k = tr.step)
      BY <1>6, <2>2
    <3>2. {k, o, tr.step} \subseteq Nat
      BY <1>1, <1>3, <1>5
    <3> QED
      BY <1>10, <3>1, <3>2
  <2> QED
    BY <2>1, <2>2
<1>12. PICK m \in ResumePoints : m < tr.step /\ o < m
  BY <1>3, <1>4, <1>9, RetentionKeeps
<1>13. m \in Anchors'
  <2>1. m \in Steps /\ o \in Nat
    BY <1>1, <1>3 DEF ResumePoints
  <2>2. m # o
    BY <1>12, <2>1
  <2> QED
    BY <1>4, <1>7, <1>12, <2>1, <2>2 DEF Anchors, ResumePoints
<1>14. \A n \in Steps : trained[n] = "partial" /\ n < tr.step => n = o
  <2> SUFFICES ASSUME NEW n \in Steps, trained[n] = "partial", n < tr.step
               PROVE  n = o
    OBVIOUS
  <2>1. Cut(n)
    BY <1>1, <1>5 DEF RetentionInv, CheckpointsInv, SavedAt, Ahead
  <2>2. n <= o /\ o <= n
    BY <1>3, <1>8, <1>11, <2>1 DEF Cut
  <2> QED
    BY <1>1, <1>3, <2>2
<1>15. PaceInv' /\ SendInv'
  BY <1>3, <1>4, <1>5, <1>7, <1>10 DEF RetentionInv, PaceInv, SendInv
<1>16. KeptInv'
  <2>1. \A n \in Steps : n \in tr'.kept <=> trained'[n] # "none" /\ (n < tr.step \/ n = tr.step)
    BY <1>3, <1>6, <1>7, <1>8
  <2>2. tr'.kept \subseteq Steps
    BY <1>1, <1>8
  <2> QED
    BY <1>4, <2>1, <2>2 DEF KeptInv
<1>17. LeftoverInv' /\ PassedInv' /\ CutInv'
  <2>1. CutInv'
    BY <1>3, <1>4, <1>7, <1>12, <1>13, <1>14 DEF CutInv
  <2> QED
    BY <1>4, <1>5, <1>13, <2>1 DEF LeftoverInv, PassedInv, Anchored
<1>18. CheckpointsInv'
  <2> SUFFICES ASSUME NEW n \in Steps PROVE SavedAt(n)' /\ OwedAt(n)'
    BY DEF CheckpointsInv
  <2>1. SavedAt(n) /\ OwedAt(n) /\ SavedAt(o)
    BY <1>3 DEF RetentionInv, CheckpointsInv
  <2>2. SavedAt(n)'
    <3>1. CASE n = o
      <4>1. \A k \in Steps : trained'[k] # "none" => o <= k
        BY <1>1, <1>3, <1>7, <1>11
      <4>2. Cut(n)'
        BY <1>4, <1>10, <3>1, <4>1 DEF Cut
      <4> QED
        BY <1>4, <1>5, <1>8, <2>1, <3>1, <4>2 DEF SavedAt
    <3>2. CASE n # o
      <4>1. trained[n] = "partial" => Ahead(n)
        <5>1. Cut(n) /\ trained[n] = "partial" => n = o
          BY <1>14 DEF Cut
        <5> QED
          BY <1>4, <2>1, <3>2, <5>1 DEF SavedAt
      <4>2. Ahead(n) => Ahead(n)'
        BY <1>4 DEF Ahead
      <4> QED
        BY <1>4, <1>5, <1>7, <2>1, <3>2, <4>1, <4>2 DEF SavedAt
    <3> QED
      BY <3>1, <3>2
  <2>3. OwedAt(n)'
    BY <1>3, <1>4, <1>7, <1>8, <2>1 DEF OwedAt
  <2> QED
    BY <2>2, <2>3
<1> QED
  BY <1>13, <1>15, <1>16, <1>17, <1>18 DEF RetentionInv, Anchors

LEMMA RetentionPruned ==
  ASSUME Inv, Pruned
  PROVE  RetentionInv'
<1> USE DEF Inv
<1>1. /\ UNCHANGED <<orch, batches, casts, orched, trained>>
      /\ tr'.step = tr.step /\ tr'.label = tr.label /\ tr'.first = tr.first /\ tr'.kept = tr.kept
      /\ tr.pc = "prune" /\ tr'.pc = (IF tr.step = MaxSteps THEN "done" ELSE "wait")
      /\ tr.label = tr.step
  BY RecordsOK DEF Pruned, Trainers, LabelInv, disk
<1>2. trained[tr.step] # "none" /\ ~tr.first
  BY <1>1 DEF RetentionInv, SendInv
<1>3. PaceInv' /\ SendInv' /\ KeptInv'
  BY <1>1 DEF RetentionInv, PaceInv, SendInv, KeptInv
<1>4. LeftoverInv' /\ PassedInv' /\ CutInv'
  BY <1>1, <1>2 DEF RetentionInv, LeftoverInv, PassedInv, CutInv, Anchored, Anchors, ResumePoints,
     Ahead, OrchAhead
<1>5. CheckpointsInv'
  BY <1>1 DEF RetentionInv, CheckpointsInv, SavedAt, Cut, OwedAt, Ahead
<1> QED
  BY <1>3, <1>4, <1>5 DEF RetentionInv

LEMMA RetentionReceive ==
  ASSUME Inv, Receive
  PROVE  RetentionInv'
<1> USE DEF Inv
<1>1. /\ UNCHANGED <<orch, batches, casts, orched, trained>>
      /\ tr'.step = tr.step /\ tr'.label = tr.label + 1 /\ tr'.first = tr.first
      /\ tr'.kept = tr.kept /\ tr.label \in batches /\ tr'.ready
      /\ tr.pc = "wait" /\ tr'.pc = "train" /\ tr.label = tr.step
  BY RecordsOK DEF Receive, Trainers, LabelInv, disk
<1>2. tr.label \in Nat /\ orch.step \in Nat
  BY RecordsOK
<1>3. PaceInv' /\ SendInv' /\ KeptInv'
  BY <1>1, <1>2 DEF RetentionInv, PaceInv, SendInv, KeptInv
<1>4. LeftoverInv' /\ PassedInv' /\ CutInv'
  BY <1>1 DEF RetentionInv, LeftoverInv, PassedInv, CutInv, Anchored, Anchors, ResumePoints, Ahead, OrchAhead
<1>5. CheckpointsInv'
  BY <1>1 DEF RetentionInv, CheckpointsInv, SavedAt, Cut, OwedAt, Ahead
<1> QED
  BY <1>3, <1>4, <1>5 DEF RetentionInv

(* The trainer goes on from a step at which both save: the orchestrator has  *)
(* been there, and the checkpoint is one to resume from.                    *)
LEMMA RetentionTrain ==
  ASSUME Inv, Train
  PROVE  RetentionInv'
<1> USE DEF Inv
<1>1. /\ UNCHANGED <<orch, batches, casts, orched, trained>>
      /\ tr'.step = tr.step + 1 /\ tr'.label = tr.label /\ tr'.first = FALSE
      /\ tr'.kept = tr.kept /\ tr'.ready = tr.ready
      /\ tr.pc = "train" /\ tr'.pc = "top" /\ tr.label = tr.step + 1
  BY RecordsOK DEF Train, Trainers, LabelInv, disk
<1>2. /\ tr.step \in Nat /\ tr.step \in Steps /\ tr.step < MaxSteps /\ MaxSteps \in Nat
      /\ \A n \in Steps : n \in Nat
  BY <1>1, RecordsOK, StepZero DEF TypeInv, CountInv
<1>3. PaceInv'
  BY <1>1, RecordsOK DEF RetentionInv, PaceInv
<1>4. SendInv'
  BY <1>1, <1>2 DEF RetentionInv, SendInv
<1>5. KeptInv'
  <2>1. \A n \in Steps : n < tr.step + 1 <=> n < tr.step \/ n = tr.step
    BY <1>2
  <2> QED
    BY <1>1, <2>1 DEF RetentionInv, KeptInv
<1>6. CheckpointsInv'
  <2> SUFFICES ASSUME NEW n \in Steps PROVE SavedAt(n)' /\ OwedAt(n)'
    BY DEF CheckpointsInv
  <2>1. SavedAt(n) /\ OwedAt(n) /\ n \in Nat
    BY <1>2 DEF RetentionInv, CheckpointsInv
  <2>2. SavedAt(n)'
    BY <1>1, <1>2, <2>1 DEF SavedAt, Cut, Ahead
  <2>3. OwedAt(n)'
    BY <1>1, <1>2, <2>1 DEF OwedAt
  <2> QED
    BY <2>2, <2>3
<1>7. Anchors \subseteq Anchors'
  BY <1>1, <1>2 DEF Anchors, ResumePoints
<1>8. trained[tr.step] # "partial"
  BY <1>1, <1>2 DEF RetentionInv, CheckpointsInv, SavedAt, Cut, Ahead
<1>9. LeftoverInv'
  BY <1>1, <1>2, <1>7 DEF RetentionInv, LeftoverInv, Anchored, Ahead, OrchAhead
<1>10. PassedInv'
  <2>1. ASSUME NEW n \in Steps, Due(n), n < tr.step + 1
        PROVE  Anchored'
    <3>1. CASE n < tr.step
      BY <1>7, <2>1, <3>1 DEF RetentionInv, PassedInv, Anchored
    <3>2. CASE n = tr.step
      <4>1. trained[n] = "whole" /\ n # MaxSteps - 1
        BY <1>1, <1>2, <1>8, <2>1, <3>2, RecordsOK DEF RetentionInv, PassedInv, Due, Saved
      <4>2. trained'[n] = "whole" /\ n < tr'.step
        BY <1>1, <1>2, <3>2, <4>1
      <4>3. TypeInv' /\ LabelInv'
        BY TypeTrainer, LabelTrainer DEF Trainer
      <4>4. n \in ResumePoints'
        BY <1>3, <1>6, <4>1, <4>2, <4>3, BehindIsCompleteNext DEF BehindInv
      <4> QED
        BY <4>2, <4>4 DEF Anchored, Anchors
    <3> QED
      BY <1>2, <2>1, <3>1, <3>2
  <2> QED
    BY <1>1, <2>1 DEF PassedInv
<1>11. CutInv'
  BY <1>1, <1>2, <1>7, <1>8 DEF RetentionInv, CutInv
<1> QED
  BY <1>3, <1>4, <1>5, <1>6, <1>9, <1>10, <1>11 DEF RetentionInv

(* What the orchestrator leaves alone. *)
LEMMA RetentionBeside ==
  ASSUME Inv, Orchestrator
  PROVE  /\ UNCHANGED <<tr, casts, trained>>
         /\ SendInv' /\ KeptInv' /\ \A n \in Steps : SavedAt(n)'
<1>1. UNCHANGED <<tr, casts, trained>>
  BY DEF Orchestrator, OrchResume, OrchSave, OrchNoSave, OrchSaved, LoadBegin, LoadEnd, SendBatch, disk
<1> QED
  BY <1>1 DEF Inv, RetentionInv, SendInv, KeptInv, CheckpointsInv, SavedAt, Cut, Ahead

(* The orchestrator's own count and its checkpoints stay as they are. *)
LEMMA RetentionLoad ==
  ASSUME Inv, OrchResume \/ LoadBegin \/ LoadEnd
  PROVE  RetentionInv'
<1> USE DEF Inv
<1>1. UNCHANGED <<tr, casts, trained, orched, batches>>
  BY DEF OrchResume, LoadBegin, LoadEnd, disk
<1>2. /\ orch'.step = orch.step /\ orch'.first = orch.first
      /\ \/ orch'.pc = orch.pc
         \/ orch.pc = "resume" /\ orch'.pc \in {"top", "failed"}
         \/ orch'.pc = "failed"
  BY RecordsOK DEF OrchResume, LoadBegin, LoadEnd, Orchestrators
<1>3. orch'.pc # "failed"
  <2>1. Orchestrator
    BY DEF Orchestrator
  <2>2. FilesInv'
    BY <2>1, FilesOrchestrator
  <2> QED
    BY <2>2 DEF FilesInv, NothingMissing
<1>4. PaceInv' /\ LeftoverInv' /\ PassedInv' /\ CutInv' /\ SendInv' /\ KeptInv'
  BY <1>1, <1>2, <1>3 DEF RetentionInv, PaceInv, LeftoverInv, PassedInv, CutInv, SendInv, KeptInv,
     Anchored, Anchors, ResumePoints, Ahead, OrchAhead
<1>5. CheckpointsInv'
  BY <1>1, <1>2, <1>3 DEF RetentionInv, PaceInv, CheckpointsInv, SavedAt, Cut, OwedAt, Ahead
<1> QED
  BY <1>4, <1>5 DEF RetentionInv

(* The checkpoint that the orchestrator writes over may be part of a resume  *)
(* point; if so it is one of an earlier start, or the last, and there is     *)
(* another resume point behind.                                             *)
LEMMA RetentionOrchSave ==
  ASSUME Retained, Inv, OrchSave
  PROVE  RetentionInv' /\ (ResumePoints # {} => ResumePoints' # {})
<1> USE DEF Inv
<1>1. Orchestrator
  BY DEF Orchestrator
<1>2. /\ UNCHANGED <<tr, casts, trained, batches>>
      /\ orch'.step = orch.step /\ orch'.first = orch.first
      /\ \/ orch.pc = "top" /\ orch'.pc = "saving"
         \/ orch.pc = "final" /\ orch'.pc = "finalSaving"
  BY RecordsOK DEF OrchSave, OrchSaves, Orchestrators
<1>3. orched' = [orched EXCEPT ![orch.step] = "partial"]
  BY DEF OrchSave
<1>4. {tr.step, tr.label, orch.step, MaxSteps} \subseteq Nat /\ orch.step \in Steps /\ tr.label \in Steps
  BY RecordsOK, StepZero
<1>5. /\ ~orch.first
      /\ orch.pc = "top" => orch.step % Interval = 0
      /\ orch.pc = "final" => orch.step = MaxSteps
  BY <1>4 DEF OrchSave, OrchSaves, RetentionInv, PaceInv
<1>6. tr.step <= tr.label /\ tr.label <= orch.step
  BY <1>4, <1>5 DEF LabelInv, RetentionInv, PaceInv
<1>7. Anchors \subseteq Anchors'
  <2> SUFFICES ASSUME NEW n \in ResumePoints, n < tr.step \/ (n = tr.step /\ tr.first)
               PROVE  n \in Anchors'
    BY DEF Anchors
  <2>1. n \in Steps /\ n \in Nat
    BY StepZero DEF ResumePoints
  <2>2. n # orch.step
    BY <1>4, <1>5, <1>6, <2>1 DEF RetentionInv, PaceInv
  <2>3. n \in ResumePoints'
    BY <1>2, <1>3, <2>1, <2>2, RecordsOK DEF ResumePoints
  <2> QED
    BY <1>2, <2>3 DEF Anchors
<1>8. orch.step \in ResumePoints => Anchored
  <2> SUFFICES ASSUME orch.step \in ResumePoints PROVE Anchored
    OBVIOUS
  <2>1. orched[orch.step] # "none" /\ casts[orch.step].state = "whole"
    BY DEF ResumePoints
  <2>2. CASE orch.pc = "top" \/ MaxSteps % Interval # 0
    <3>1. OrchAhead(orch.step)
      BY <1>2, <1>5, <2>2 DEF OrchAhead
    <3> QED
      BY <1>4, <2>1, <3>1 DEF RetentionInv, LeftoverInv
  <2>3. CASE orch.pc = "final" /\ MaxSteps % Interval = 0
    <3>1. PICK n \in Steps : Due(n)
      BY <2>3 DEF Retained
    <3>2. tr.label = orch.step
      <4>1. ~(orch.step > tr.label)
        BY <1>4, <2>1 DEF FilesInv, FreshInv
      <4> QED
        BY <1>4, <1>6, <4>1
    <3>3. tr.step = MaxSteps
      <4>1. tr.pc # "train"
        BY <2>1, <3>2 DEF FilesInv, FreshInv
      <4> QED
        BY <1>5, <2>3, <3>2, <4>1 DEF LabelInv
    <3>4. n < tr.step
      BY <1>4, <3>1, <3>3, StepZero DEF Due
    <3> QED
      BY <3>1, <3>4 DEF RetentionInv, PassedInv, CutInv
  <2> QED
    BY <1>2, <2>2, <2>3
<1>9. ResumePoints # {} => ResumePoints' # {}
  <2> SUFFICES ASSUME NEW n \in ResumePoints PROVE ResumePoints' # {}
    OBVIOUS
  <2>1. CASE n # orch.step
    BY <1>2, <1>3, <2>1, RecordsOK DEF ResumePoints
  <2>2. CASE n = orch.step
    BY <1>7, <1>8, <2>2 DEF Anchored, Anchors
  <2> QED
    BY <2>1, <2>2
<1>10. PaceInv'
  BY <1>2, <1>5 DEF RetentionInv, PaceInv
<1>11. LeftoverInv' /\ PassedInv' /\ CutInv'
  <2>1. \A n \in Steps : OrchAhead(n)' => n # orch.step /\ OrchAhead(n)
    BY <1>2, <1>4, StepZero DEF OrchAhead
  <2>2. \A n \in Steps : n # orch.step => orched'[n] = orched[n]
    BY <1>3, RecordsOK
  <2> QED
    BY <1>2, <1>7, <2>1, <2>2 DEF RetentionInv, LeftoverInv, PassedInv, CutInv, Anchored, Ahead
<1>12. CheckpointsInv'
  <2> SUFFICES ASSUME NEW n \in Steps PROVE OwedAt(n)'
    BY <1>1, RetentionBeside DEF CheckpointsInv
  <2>1. OwedAt(n) /\ n \in Nat
    BY StepZero DEF RetentionInv, CheckpointsInv
  <2>2. n # orch.step => orched'[n] = orched[n]
    BY <1>3, RecordsOK
  <2> QED
    BY <1>2, <1>4, <1>5, <2>1, <2>2 DEF OwedAt
<1> QED
  BY <1>1, <1>9, <1>10, <1>11, <1>12, RetentionBeside DEF RetentionInv

LEMMA RetentionOrchNoSave ==
  ASSUME Inv, OrchNoSave
  PROVE  RetentionInv'
<1> USE DEF Inv
<1>1. /\ UNCHANGED <<tr, casts, trained, orched, batches>>
      /\ orch'.step = orch.step /\ orch'.first = orch.first
      /\ orch.pc = "top" /\ orch'.pc = AfterSave
  BY RecordsOK DEF OrchNoSave, Orchestrators, disk
<1>2. orch.step \in Nat /\ MaxSteps \in Nat /\ orch.step <= MaxSteps
  BY RecordsOK, StepZero
<1>3. /\ orch'.pc \in {"final", "generate"}
      /\ orch'.pc = "final" => orch.step = MaxSteps
  BY <1>1, <1>2 DEF AfterSave
<1>4. orch.first \/ orch.step = MaxSteps - 1 \/ orch.step % Interval # 0
  BY <1>1 DEF OrchNoSave, OrchSaves
<1>5. PaceInv' /\ SendInv' /\ KeptInv'
  BY <1>1, <1>3 DEF RetentionInv, PaceInv, SendInv, KeptInv
<1>6. LeftoverInv' /\ PassedInv' /\ CutInv'
  BY <1>1, <1>3 DEF RetentionInv, LeftoverInv, PassedInv, CutInv, Anchored, Anchors, ResumePoints, Ahead, OrchAhead
<1>7. CheckpointsInv'
  BY <1>1, <1>2, <1>4 DEF RetentionInv, CheckpointsInv, SavedAt, Cut, OwedAt, Ahead
<1> QED
  BY <1>5, <1>6, <1>7 DEF RetentionInv

LEMMA RetentionOrchSaved ==
  ASSUME Inv, OrchSaved
  PROVE  RetentionInv' /\ ResumePoints \subseteq ResumePoints'
<1> USE DEF Inv
<1>1. Orchestrator
  BY DEF Orchestrator
<1>2. /\ UNCHANGED <<tr, casts, trained, batches>>
      /\ orch'.step = orch.step /\ orch'.first = orch.first
      /\ \/ orch.pc = "saving" /\ orch'.pc = AfterSave
         \/ orch.pc = "finalSaving" /\ orch'.pc = "done"
  BY RecordsOK DEF OrchSaved, Orchestrators
<1>3. /\ orched'[orch.step] = "whole"
      /\ \A n \in Steps : n # orch.step => orched'[n] = orched[n]
  BY RecordsOK DEF OrchSaved
<1>4. orch.step \in Nat /\ MaxSteps \in Nat /\ orch.step <= MaxSteps
  BY RecordsOK, StepZero
<1>5. /\ orch'.pc \in {"final", "generate", "done"}
      /\ orch'.pc = "final" => orch.step = MaxSteps /\ orch.pc = "saving"
  BY <1>2, <1>4 DEF AfterSave
<1>6. ResumePoints \subseteq ResumePoints'
  BY <1>2, <1>3 DEF ResumePoints
<1>7. Anchors \subseteq Anchors'
  BY <1>2, <1>6 DEF Anchors
<1>8. PaceInv'
  BY <1>2, <1>5 DEF RetentionInv, PaceInv
<1>9. LeftoverInv' /\ PassedInv' /\ CutInv'
  <2>1. \A n \in Steps : OrchAhead(n)' => n # orch.step /\ OrchAhead(n)
    BY <1>2, <1>4, <1>5, StepZero DEF OrchAhead, RetentionInv, PaceInv
  <2> QED
    BY <1>2, <1>3, <1>7, <2>1 DEF RetentionInv, LeftoverInv, PassedInv, CutInv, Anchored, Ahead
<1>10. CheckpointsInv'
  <2> SUFFICES ASSUME NEW n \in Steps PROVE OwedAt(n)'
    BY <1>1, RetentionBeside DEF CheckpointsInv
  <2>1. OwedAt(n)
    BY DEF RetentionInv, CheckpointsInv
  <2> QED
    BY <1>2, <1>3, <2>1 DEF OwedAt
<1> QED
  BY <1>1, <1>6, <1>8, <1>9, <1>10, RetentionBeside DEF RetentionInv

LEMMA RetentionSend ==
  ASSUME Inv, SendBatch
  PROVE  RetentionInv'
<1> USE DEF Inv
<1>1. Orchestrator
  BY DEF Orchestrator
<1>2. /\ UNCHANGED <<tr, casts, trained, orched>> /\ batches' = batches \cup {orch.step}
      /\ orch'.step = orch.step + 1 /\ orch'.first = FALSE
      /\ orch.pc = "generate" /\ orch'.pc = "top"
  BY RecordsOK DEF SendBatch, Orchestrators
<1>3. /\ {tr.step, tr.label, orch.step, MaxSteps} \subseteq Nat
      /\ \A n \in batches : n \in Nat
      /\ \A n \in Steps : n \in Nat
  BY RecordsOK, StepZero DEF TypeInv, TypeOK
<1>4. PaceInv'
  BY <1>2, <1>3 DEF RetentionInv, PaceInv
<1>5. LeftoverInv' /\ PassedInv' /\ CutInv'
  BY <1>2, <1>3 DEF RetentionInv, LeftoverInv, PassedInv, CutInv, Anchored, Anchors, ResumePoints, Ahead, OrchAhead
<1>6. CheckpointsInv'
  <2> SUFFICES ASSUME NEW n \in Steps PROVE OwedAt(n)'
    BY <1>1, RetentionBeside DEF CheckpointsInv
  <2>1. OwedAt(n)
    BY DEF RetentionInv, CheckpointsInv
  <2> QED
    BY <1>2, <1>3, <2>1 DEF OwedAt
<1> QED
  BY <1>1, <1>4, <1>5, <1>6, RetentionBeside DEF RetentionInv

(* A restart goes back to the newest resume point; everything kept behind    *)
(* it is complete, and what lies ahead is left over.                        *)
LEMMA RetentionLaunch ==
  ASSUME Resume = "explicit", Inv, Launch
  PROVE  RetentionInv' /\ (ResumePoints # {} => ResumePoints' # {})
<1> USE DEF Inv
<1>1. CASE RestartResuming
  <2>1. PICK m : m = TrainerFrom
    OBVIOUS
  <2>2. m \in ResumePoints /\ OrchFrom = m
    <3>1. ResumePoints \subseteq Steps /\ ResumePoints # {}
      BY <1>1 DEF ResumePoints, RestartResuming
    <3> QED
      BY <2>1, <3>1, MaxOfSteps DEF TrainerFrom, OrchFrom
  <2>3. /\ m \in Steps /\ m \in Nat /\ m < MaxSteps /\ MaxSteps \in Nat
        /\ trained[m] = "whole" /\ orched[m] = "whole" /\ casts[m].state = "whole"
    <3>1. m # MaxSteps
      BY <2>2 DEF Launch, Complete
    <3> QED
      BY <2>2, <3>1, StepZero DEF ResumePoints
  <2>4. CleanFutureSteps(m) /\ UNCHANGED <<orched, trained>>
    BY <1>1, <2>1, <2>3 DEF RestartResuming
  <2>5. /\ batches' = {n \in batches : n <= m}
        /\ \A n \in Steps : n <= m => casts'[n] = casts[n]
    BY <2>4 DEF CleanFutureSteps
  <2>6. /\ tr' = TrainerAt(m, m, {k \in Steps : trained[k] # "none" /\ k <= m})
        /\ orch'.step = m /\ orch'.first = TRUE /\ orch'.pc \in {"resume", "top"}
    BY <1>1, <2>1, <2>2 DEF RestartResuming, Restarted, PackerStep, OrchAt
  <2>7. /\ tr'.step = m /\ tr'.label = m /\ tr'.first = TRUE /\ tr'.pc = "top"
        /\ tr'.kept = {k \in Steps : trained[k] # "none" /\ k <= m}
    BY <2>6 DEF TrainerAt
  <2>8. m \in ResumePoints' /\ m \in Anchors'
    <3>1. casts'[m] = casts[m]
      BY <2>3, <2>5
    <3>2. m \in ResumePoints'
      BY <2>3, <2>4, <3>1 DEF ResumePoints
    <3> QED
      BY <2>7, <3>2 DEF Anchors
  <2>9. PaceInv' /\ SendInv'
    <3>1. \A n \in batches' : n < m \/ n = m
      <4>1. \A n \in batches : n \in Nat
        BY StepZero DEF TypeInv, TypeOK
      <4> QED
        BY <2>3, <2>5, <4>1
    <3> QED
      BY <2>3, <2>6, <2>7, <3>1 DEF PaceInv, SendInv
  <2>10. \A n \in Steps : n \in Nat /\ (n <= m <=> n < m \/ n = m)
    BY <2>3, StepZero
  <2>11. KeptInv'
    BY <2>4, <2>7, <2>10 DEF KeptInv
  <2>12. LeftoverInv' /\ PassedInv' /\ CutInv'
    BY <2>3, <2>4, <2>7, <2>8, StepZero DEF LeftoverInv, PassedInv, CutInv, Anchored
  <2>13. /\ {tr.step, tr.label, orch.step} \subseteq Nat
         /\ m <= tr.label
    <3>1. {tr.step, tr.label, orch.step} \subseteq Nat
      BY RecordsOK
    <3>2. ~(m > tr.label)
      BY <2>3 DEF FilesInv, FreshInv
    <3> QED
      BY <2>3, <3>1, <3>2
  <2>14. CheckpointsInv'
    <3> SUFFICES ASSUME NEW n \in Steps PROVE SavedAt(n)' /\ OwedAt(n)'
      BY DEF CheckpointsInv
    <3>1. SavedAt(n) /\ OwedAt(n)
      BY DEF RetentionInv, CheckpointsInv
    <3>2. CASE n > m
      BY <2>4, <2>6, <2>7, <3>1, <3>2 DEF SavedAt, Cut, OwedAt, Ahead
    <3>3. CASE n = m
      BY <2>3, <2>4, <2>5, <2>7, <3>1, <3>3 DEF SavedAt, Cut, OwedAt
    <3>4. CASE n < m
      <4>1. n < tr.step \/ (n = tr.step /\ tr.pc = "train")
        <5>1. n \in Nat /\ n < tr.label
          BY <2>3, <2>10, <2>13, <3>4
        <5>2. tr.label = IF tr.pc = "train" THEN tr.step + 1 ELSE tr.step
          BY DEF LabelInv
        <5> QED
          BY <2>13, <5>1, <5>2
      <4>2. n < orch.step \/ (n <= orch.step /\ orch.first)
        <5>1. tr.label <= orch.step \/ (tr.label = orch.step + 1 /\ orch.first)
          BY DEF RetentionInv, PaceInv
        <5>2. n \in Nat /\ n < tr.label
          BY <2>3, <2>10, <2>13, <3>4
        <5> HIDE DEF Inv
        <5> QED
          BY <2>13, <5>1, <5>2
      <4>3. casts'[n] = casts[n] /\ n \in Nat
        BY <2>5, <2>10, <3>4
      <4>4. SavedAt(n)'
        <5>1. trained[n] = "partial" => Cut(n)
          BY <2>13, <3>1, <4>1, <4>3 DEF SavedAt, Ahead
        <5>2. Cut(n) => Cut(n)'
          BY <2>4, <2>7, <3>4 DEF Cut
        <5>3. casts[n].state = "whole" \/ trained[n] = "none"
          BY <2>13, <3>1, <4>1, <4>3 DEF SavedAt
        <5> QED
          BY <2>4, <3>1, <4>3, <5>1, <5>2, <5>3 DEF SavedAt
      <4>5. OwedAt(n)'
        <5>1. ~(n > tr'.step) /\ n # tr'.step
          BY <2>3, <2>7, <3>4, <4>3
        <5>2. ~(n > orch.step) /\ (n = orch.step => orch.first)
          BY <2>13, <4>2, <4>3
        <5> QED
          BY <2>4, <3>1, <5>1, <5>2 DEF OwedAt
      <4> QED
        BY <4>4, <4>5
    <3> QED
      BY <2>3, <2>10, <3>2, <3>3, <3>4
  <2> QED
    BY <2>8, <2>9, <2>11, <2>12, <2>14 DEF RetentionInv
<1>2. CASE RestartClean
  <2>1. RetentionInv'
    BY <1>2, StepZero DEF RestartClean, TrainerAt, OrchAt, RetentionInv, PaceInv, SendInv, KeptInv,
       LeftoverInv, PassedInv, CutInv, CheckpointsInv, SavedAt, Cut, OwedAt, Due
  <2> QED
    BY <1>2, <2>1 DEF RestartClean
<1> QED
  BY <1>1, <1>2 DEF Launch

LEMMA RetentionInit == Init => RetentionInv
  BY StepZero DEF Init, TrainerAt, OrchAt, RetentionInv, PaceInv, SendInv, KeptInv,
     LeftoverInv, PassedInv, CutInv, CheckpointsInv, SavedAt, Cut, OwedAt, Due

LEMMA RetentionNext ==
  ASSUME Resume = "explicit", Retained, Inv, [Next]_vars
  PROVE  RetentionInv' /\ (ResumePoints # {} => ResumePoints' # {})
<1>1. CASE Crash \/ UNCHANGED vars
  <2>1. UNCHANGED <<trained, orched, casts, batches, tr, orch>>
    BY <1>1 DEF Crash, vars, disk
  <2> QED
    BY <2>1 DEF Inv, RetentionInv, PaceInv, SendInv, KeptInv, LeftoverInv, PassedInv, CutInv,
       CheckpointsInv, SavedAt, Cut, OwedAt, Ahead, OrchAhead, Anchored, Anchors, ResumePoints
<1>2. CASE Trainer
  <2>1. CASE TrainerTop
    <3>1. ResumePoints \subseteq ResumePoints'
      BY <2>1, RecordsOK DEF Inv, LabelInv, FilesInv, FreshInv, TrainerTop, ResumePoints
    <3> QED
      BY <2>1, <3>1, RetentionTop
  <2>2. CASE Notify
    <3>1. ResumePoints \subseteq ResumePoints'
      BY <2>2, RecordsOK DEF Inv, Notify, ResumePoints, Casts
    <3> QED
      BY <2>2, <3>1, RetentionNotify
  <2>3. CASE TrainerNoSave \/ Pruned \/ Receive \/ Train
    <3>1. UNCHANGED <<trained, orched, casts>>
      BY <2>3 DEF TrainerNoSave, Pruned, Receive, Train, disk
    <3> QED
      BY <2>3, <3>1, RetentionNoSave, RetentionPruned, RetentionReceive, RetentionTrain DEF ResumePoints
  <2> QED
    BY <1>2, <2>1, <2>2, <2>3, RetentionClean, RetentionSave, RetentionSaved, RetentionPruneOne
       DEF Trainer
<1>3. CASE Orchestrator
  <2>1. CASE OrchResume \/ LoadBegin \/ LoadEnd \/ OrchNoSave \/ SendBatch
    <3>1. UNCHANGED <<trained, orched, casts>>
      BY <2>1 DEF OrchResume, LoadBegin, LoadEnd, OrchNoSave, SendBatch, disk
    <3> QED
      BY <2>1, <3>1, RetentionLoad, RetentionOrchNoSave, RetentionSend DEF ResumePoints
  <2> QED
    BY <1>3, <2>1, RetentionOrchSave, RetentionOrchSaved DEF Orchestrator
<1> QED
  BY <1>1, <1>2, <1>3, RetentionLaunch DEF Next, Ended

(* Once a run can be resumed it can be from then on, for any max_steps,
   interval and number of crashes, when enough checkpoints are kept (Retained):
   whatever the trainer, the orchestrator and the launcher write over or
   remove, another step is left with both checkpoints and its weights. *)
THEOREM ResumePointRemains == ASSUME Resume = "explicit", Retained
                              PROVE  Spec => StaysResumable
<1>1. Init => Inv
  BY TypeInit, FilesInit, RetentionInit DEF Inv, Init, LabelInv, TrainerAt, NoCast
<1>2. Inv /\ [Next]_vars => Inv'
  <2> SUFFICES ASSUME Inv, [Next]_vars
               PROVE  LabelInv' /\ FilesInv'
    BY TypeNext, RetentionNext DEF Inv
  <2>1. CASE Crash \/ UNCHANGED vars
    <3>1. UNCHANGED <<casts, batches, orched, tr, orch>>
      BY <2>1 DEF Crash, vars, disk
    <3> QED
      BY <3>1, FilesUnchanged DEF Inv, LabelInv
  <2> QED
    BY <2>1, LabelTrainer, LabelOrchestrator, LabelLaunch, FilesTrainer, FilesOrchestrator,
       FilesLaunch DEF Next, Ended, Inv
<1>3. Inv /\ [Next]_vars => [ResumePoints # {} => ResumePoints' # {}]_vars
  BY RetentionNext
<1> QED
  BY <1>1, <1>2, <1>3, PTL DEF Spec, StaysResumable
=============================================================================
