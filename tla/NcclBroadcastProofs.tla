------------------------- MODULE NcclBroadcastProofs -------------------------
(***************************************************************************)
(* For any number of servers, trainer ranks, steps and failing requests:    *)
(* NcclBroadcast is well typed, no rank is in a collective while an engine  *)
(* it must wait for is running, and ckpt_step says what the workers hold.   *)
(*                                                                         *)
(* The argument is that three parties which never talk to each other agree *)
(* on one step.  RankInv keeps the ranks together and says that who sends a *)
(* step has seen its marker; OrchInv says that versions are asked for in    *)
(* increasing order and only once the trainer has reached them; so what is *)
(* sent is what is being asked for (SentIsAsked).  RpcInv bounds the RPCs   *)
(* of abandoned requests, which receive weights meant for later ones.       *)
(* EarlyInv adds what holds until the first fault: requests do not time     *)
(* out, because the trainer is always on its way to them (StillComing).     *)
(***************************************************************************)
EXTENDS NcclBroadcast, WellFoundedInduction, TLAPS

(* The master has left the broadcast of step n behind, or skipped it. *)
Passed(n) ==
    rank[Master].step > n \/ (rank[Master].step = n /\ rank[Master].pc \in {"wait", "done"})

(* The ranks are at one step, which begins with a broadcast or without.     *)
RankAt(r) ==
    /\ rank[r].step = rank[Master].step /\ rank[r].step >= start
    /\ rank[r].pc \in {"await", "send"} => Broadcasts(rank[r].step)
    /\ rank[r].pc = "done" => rank[r].step = MaxSteps
    /\ Broadcasts(rank[r].step) => (rank[r].pc = "wait" <=> rank[Master].pc = "wait")
    /\ rank[r].step = start => ~rank[r].ready /\ rank[r].pc # "await"
    /\ rank[r].step # start /\ rank[r].pc = "top" => rank[r].ready
    /\ rank[r].step # start /\ rank[r].pc = "send" => rank[r].step \in marked

(* A step is marked STABLE by the master on its way into its broadcast.     *)
StableAt(n) ==
    /\ start < n /\ Broadcasts(n) /\ n <= rank[Master].step
    /\ n = rank[Master].step => rank[Master].pc # "top"

RankInv == (\A r \in Ranks : RankAt(r)) /\ (\A n \in stable : StableAt(n))

(* Versions are asked for in order: what is marked is behind or current, and *)
(* what the pool is paused for has been reached by the trainer.             *)
OrchInv ==
    /\ start <= orch.step /\ start <= orch.ckpt
    /\ orch.pc \in {"resume", "barrier", "generate"} => orch.step < MaxSteps
    /\ orch.pc = "resume" => /\ start # 0 /\ orch.step = start /\ orch.ckpt = start
                             /\ \A n \in marked : n = start
    /\ \A n \in marked : n <= orch.ckpt \/ n <= NextCkptStep
    /\ upd.pc # "idle" => IF orch.pc = "resume" THEN upd.v = start
                          ELSE orch.ckpt < upd.v /\ upd.v <= NextCkptStep
    /\ upd.pc \in {"pause", "post"} => upd.v = start \/ upd.v \in stable
    /\ upd.pc # "idle" => \A n \in marked : n <= upd.v

(* Engines are paused from before the marker until the update is over.      *)
EngineInv ==
    /\ upd.pc = "await" => upd.todo = Servers
    /\ upd.pc = "pause" => \A s \in Servers \ upd.todo : host[s].paused
    /\ upd.pc = "post" => \A s \in Servers : host[s].paused
    /\ \A s \in Servers : (post[s] = "none") <=> (upd.pc # "post")
    /\ \A s \in Servers : post[s] = "ok" =>
         host[s].rpcs = 0 /\ \A t \in Servers : host[t].weights = upd.v

(* An update that fails while polling ends the polling, so the next one is   *)
(* made at the barrier, where a failure ends the orchestrator: an RPC may be *)
(* left behind at most once before one update succeeds.                     *)
RpcInv ==
    /\ orch.pc = "failed" => upd.pc = "idle"
    /\ orch.pc = "generate" /\ upd.pc # "idle" => orch.polling
    /\ orch.polling => orch.pc = "generate"
    /\ \A s \in Servers :
         /\ post[s] = "open" => host[s].rpcs > 0
         /\ orch.pc # "failed" /\ upd.pc # "post" => host[s].rpcs <= 1
         /\ orch.polling => host[s].rpcs <= IF upd.pc = "post" THEN 1 ELSE 0
         /\ orch.pc # "failed" /\ upd.pc = "idle" /\ host[s].rpcs > 0 => NextCkptStep > orch.ckpt

(* Until something fails the requests of an update stand or are answered together. *)
Together ==
    \A s \in Servers :
        /\ post[s] # "failed" /\ \A t \in Servers : post[t] = post[s]
        /\ host[s].rpcs = IF post[s] = "open" THEN 1 ELSE 0

(* A broadcast that the master has left has been received.                  *)
ReceivedAt(n) ==
    Passed(n) =>
        \/ n <= orch.ckpt /\ orch.pc # "resume"
        \/ upd.pc = "post" /\ upd.v = n /\ \A s \in Servers : post[s] = "ok"

(* A marker stands for an update that waits for the trainer, or an old one. *)
MarkedAt(n) ==
    Passed(n) \/ (upd.pc = "post" /\ upd.v = n /\ \A s \in Servers : post[s] = "open")

Early ==
    /\ Together
    /\ \A n \in stable : ReceivedAt(n)
    /\ start # 0 => ReceivedAt(start)
    /\ \A n \in marked : MarkedAt(n)

EarlyInv == faults = 0 /\ Servers # {} => Early

IInv == TypeOK /\ RankInv /\ OrchInv /\ EngineInv /\ RpcInv /\ EarlyInv

-----------------------------------------------------------------------------
(* A nonempty set of steps has a largest element, and Max returns it.       *)
LEMMA MaxOfSteps == ASSUME NEW S, S \subseteq Steps, S # {}
                    PROVE  Max(S) \in S /\ \A y \in S : Max(S) >= y
<1> USE NcclAssumption DEF Steps
<1> DEFINE T == {MaxSteps - x : x \in S}
<1>1. T \subseteq Nat
  OBVIOUS
<1>2. T # {}
  <2>1. PICK z \in S : TRUE
    OBVIOUS
  <2>2. MaxSteps - z \in T
    OBVIOUS
  <2> QED
    BY <2>2
<1>3. \E t \in T : \A y \in T : t <= y
  <2>1. PICK t \in T : \A y \in T : ~(<<y, t>> \in OpToRel(<, Nat))
    BY <1>1, <1>2, WFMin, NatLessThanWellFounded
  <2>2. \A y \in T : ~(y < t)
    BY <1>1, <2>1 DEF OpToRel
  <2> QED
    BY <1>1, <2>2
<1>4. PICK m \in S : \A y \in T : MaxSteps - m <= y
  BY <1>3
<1>5. \A y \in S : m >= y
  <2> TAKE y \in S
  <2>1. MaxSteps - m <= MaxSteps - y
    BY <1>4
  <2> QED
    BY <2>1
<1> QED
  BY <1>5 DEF Max

LEMMA StepFacts ==
    /\ MaxSteps \in Nat /\ MaxSteps > 1 /\ 0 \in Steps /\ 1 \in Steps
    /\ \A n \in Steps : n \in Nat /\ n <= MaxSteps
    /\ \A n \in Nat : n <= MaxSteps => n \in Steps
    /\ \A n \in Starts : n \in Steps /\ n + 1 < MaxSteps
    /\ Master \in Ranks
  BY NcclAssumption DEF Steps, Ranks

ForcedOK ==
    /\ orch.step \in Steps /\ Forced \in Steps
    /\ Forced = IF orch.step = 0 THEN 0 ELSE orch.step - 1

LEMMA ForcedFacts == TypeOK => ForcedOK
<1> SUFFICES ASSUME TypeOK PROVE ForcedOK
  OBVIOUS
<1>1. orch.step \in Steps
  BY DEF TypeOK
<1>2. Max({orch.step, 1}) \in {orch.step, 1} /\ \A y \in {orch.step, 1} : Max({orch.step, 1}) >= y
  BY <1>1, StepFacts, MaxOfSteps
<1> QED
  BY <1>1, <1>2, StepFacts DEF Forced, ForcedOK

NextOK ==
    /\ NextCkptStep \in Steps /\ NextCkptStep >= Forced
    /\ \A n \in stable : NextCkptStep >= n
    /\ NextCkptStep = Forced \/ NextCkptStep \in stable

LEMMA NextFacts == TypeOK => NextOK
<1> SUFFICES ASSUME TypeOK PROVE NextOK
  OBVIOUS
<1>1. {Forced} \cup stable \subseteq Steps
  BY ForcedFacts DEF TypeOK, ForcedOK
<1> QED
  BY <1>1, MaxOfSteps DEF NextCkptStep, NextOK

(* The records of TypeOK, by name.                                         *)
RankRec == [pc : {"top", "await", "send", "wait", "done"}, step : Steps, ready : BOOLEAN]
HostRec == [paused : BOOLEAN, weights : Steps, rpcs : 0 .. 2]
OrchRec == [pc : {"resume", "barrier", "generate", "done", "failed"}, step : Steps,
            ckpt : Steps, polling : BOOLEAN]
UpdRec == [pc : {"idle", "await", "pause", "post", "resume"}, v : Steps, todo : SUBSET Servers]

(* TypeOK by the parts that an action may change. *)
RankOK == rank \in [Ranks -> RankRec] /\ \A r \in Ranks : rank[r].step <= sent
FilesOK == start \in Starts /\ sent \in Steps /\ stable \subseteq Steps /\ marked \subseteq Steps
HostOK == host \in [Servers -> HostRec]
PostOK == post \in [Servers -> {"none", "open", "ok", "failed"}]
LoopOK == orch \in OrchRec /\ upd \in UpdRec
FaultsOK == faults \in 0 .. MaxFaults

LEMMA TypeParts ==
    TypeOK <=> RankOK /\ FilesOK /\ HostOK /\ PostOK /\ LoopOK /\ FaultsOK
  BY DEF TypeOK, RankOK, FilesOK, HostOK, PostOK, LoopOK, FaultsOK, RankRec, HostRec, OrchRec, UpdRec

LEMMA TypePartsNext ==
    TypeOK' <=> RankOK' /\ FilesOK' /\ HostOK' /\ PostOK' /\ LoopOK' /\ FaultsOK'
  BY TypeParts, PTL

LEMMA InitIInv == Init => IInv
<1> SUFFICES ASSUME Init PROVE IInv
  OBVIOUS
<1> USE StepFacts
<1>1. TypeOK
  BY NcclAssumption DEF Init, TypeOK, NoUpdate
<1>2. RankInv
  BY DEF Init, RankInv, RankAt, StableAt, Broadcasts
<1>3. OrchInv
  BY DEF Init, OrchInv, NoUpdate
<1>4. EngineInv
  BY DEF Init, EngineInv, NoUpdate
<1>5. RpcInv
  BY DEF Init, RpcInv, NoUpdate
<1>6. EarlyInv
  BY DEF Init, EarlyInv, Early, Together, ReceivedAt, MarkedAt, Passed
<1> QED
  BY <1>1, <1>2, <1>3, <1>4, <1>5, <1>6 DEF IInv


LEMMA FaultType == FaultsOK /\ (Fault \/ UNCHANGED faults) => FaultsOK' /\ (faults' = 0 => UNCHANGED faults)
  BY NcclAssumption DEF FaultsOK, Fault

LEMMA TypeNext == IInv /\ [Next]_vars => TypeOK'
<1> SUFFICES ASSUME IInv, RankOK, FilesOK, HostOK, PostOK, LoopOK, FaultsOK, [Next]_vars
             PROVE  RankOK' /\ FilesOK' /\ HostOK' /\ PostOK' /\ LoopOK' /\ FaultsOK'
  BY TypeParts, TypePartsNext DEF IInv
<1> USE StepFacts DEF RankOK, FilesOK, HostOK, PostOK, LoopOK, FaultsOK
<1>1. ASSUME NEW r \in Ranks, Skip(r) \/ Notify(r) \/ SeeReady(r)
      PROVE  RankOK' /\ FilesOK' /\ HostOK' /\ PostOK' /\ LoopOK' /\ FaultsOK'
  <2>1. /\ UNCHANGED <<start, sent, marked, post, orch, upd, host, faults>>
        /\ stable' \subseteq Steps
    BY <1>1 DEF Skip, Notify, SeeReady, orchVars, RankRec
  <2>2. RankOK'
    BY <1>1 DEF Skip, Notify, SeeReady, orchVars, RankRec
  <2> QED
    BY <2>1, <2>2
<1>4. CASE Transfer
  <2>1. UNCHANGED <<start, sent, marked, orch, upd, stable>>
    BY <1>4 DEF Transfer
  <2>2. RankOK'
    BY <1>4 DEF Transfer, RankRec
  <2>3. HostOK'
    <3>1. \A s \in Servers : [host[s] EXCEPT !.weights = rank[Master].step, !.rpcs = @ - 1] \in HostRec
      <4> TAKE s \in Servers
      <4>1. rank[Master].step \in Steps
        BY DEF RankRec
      <4>2. host[s].rpcs \in 0 .. 2 /\ host[s].rpcs > 0
        BY <1>4 DEF Transfer, HostRec
      <4>3. host[s].rpcs - 1 \in 0 .. 2
        BY <4>2
      <4> QED
        BY <4>1, <4>3 DEF HostRec
    <3> QED
      BY <1>4, <3>1 DEF Transfer
  <2>4. PostOK' /\ FaultsOK'
    BY <1>4, FaultType DEF Transfer
  <2> QED
    BY <2>1, <2>2, <2>3, <2>4
<1>5. CASE Train
  <2>1. UNCHANGED <<start, sent, marked, orch, upd, stable, host, post, faults>>
    BY <1>5 DEF Train, orchVars
  <2>2. RankOK'
    BY <1>5 DEF Train, RankRec, BatchThere, RankInv, RankAt, IInv, orchVars
  <2> QED
    BY <2>1, <2>2
<1>6. CASE Resume \/ Barrier \/ Poll \/ UpdStable
  <2>1. UNCHANGED <<start, sent, marked, stable, rank, host, post, faults>>
    BY <1>6 DEF Resume, Barrier, Poll, UpdStable, trainVars
  <2>2. LoopOK'
    <3>1. NextCkptStep \in Steps
      BY NextFacts DEF NextOK, IInv
    <3>2. CASE Resume
      BY <3>2 DEF Resume, OrchRec, UpdRec
    <3>3. CASE Barrier \/ Poll
      <4>1. CASE Update(NextCkptStep) /\ UNCHANGED orch
        BY <3>1, <4>1 DEF Update, UpdRec
      <4>2. CASE UNCHANGED upd /\ orch' = [orch EXCEPT !.pc = "generate", !.polling = TRUE]
        BY <4>2 DEF OrchRec
      <4> QED
        BY <3>3, <4>1, <4>2 DEF Barrier, Poll
    <3>4. CASE UpdStable
      BY <3>4 DEF UpdStable, UpdRec
    <3> QED
      BY <1>6, <3>2, <3>3, <3>4
  <2> QED
    BY <2>1, <2>2
<1>8. CASE SendBatch
  <2>1. UNCHANGED <<start, marked, stable, rank, host, post, upd, faults>>
    BY <1>8 DEF SendBatch, trainVars
  <2>2. orch.step + 1 \in Steps
    BY <1>8 DEF SendBatch, OrchInv, IInv, OrchRec
  <2>3. sent' \in Steps /\ sent' >= sent
    BY <1>8, <2>2, MaxOfSteps DEF SendBatch
  <2>4. RankOK'
    BY <2>1, <2>3 DEF RankRec
  <2>5. LoopOK'
    BY <1>8, <2>2 DEF SendBatch, OrchRec
  <2> QED
    BY <2>1, <2>3, <2>4, <2>5
<1>10. ASSUME NEW s \in Servers, Pause(s)
       PROVE  RankOK' /\ FilesOK' /\ HostOK' /\ PostOK' /\ LoopOK' /\ FaultsOK'
  <2>1. UNCHANGED <<start, sent, marked, stable, rank, post, orch, faults>>
    BY <1>10 DEF Pause, trainVars
  <2>2. HostOK'
    BY <1>10 DEF Pause, HostRec
  <2>3. upd' \in UpdRec
    BY <1>10 DEF Pause, UpdRec
  <2> QED
    BY <2>1, <2>2, <2>3
<1>11. CASE PauseFails
  <2>1. UNCHANGED <<start, sent, marked, stable, rank, post>> /\ FaultsOK'
    BY <1>11, FaultType DEF PauseFails, trainVars
  <2>2. HostOK'
    <3>1. PICK P \in SUBSET upd.todo :
            host' = [s \in Servers |-> [host[s] EXCEPT !.paused = @ \/ s \in P]]
      BY <1>11 DEF PauseFails
    <3>2. \A s \in Servers : [host[s] EXCEPT !.paused = @ \/ s \in P] \in HostRec
      BY DEF HostRec
    <3> QED
      BY <3>1, <3>2
  <2>3. LoopOK'
    BY <1>11 DEF PauseFails, UpdFails, NoUpdate, OrchRec, UpdRec
  <2> QED
    BY <2>1, <2>2, <2>3
<1>12. CASE Post
  <2>1. UNCHANGED <<start, sent, stable, rank, orch, faults>> /\ PostOK' /\ upd' \in UpdRec
    BY <1>12 DEF Post, trainVars, UpdRec
  <2>2. marked' \subseteq Steps
    BY <1>12 DEF Post, UpdRec
  <2>3. \A s \in Servers : host[s].rpcs <= 1
    BY <1>12 DEF Post, AllPaused, IInv, RpcInv
  <2>4. HostOK'
    BY <1>12, <2>3, SMTT(30) DEF Post, HostRec
  <2> QED
    BY <2>1, <2>2, <2>4
<1>13. ASSUME NEW s \in Servers, PostFails(s) \/ PostTimesOut(s)
       PROVE  RankOK' /\ FilesOK' /\ HostOK' /\ PostOK' /\ LoopOK' /\ FaultsOK'
  <2>1. UNCHANGED <<start, sent, marked, stable, rank, orch, upd>> /\ PostOK' /\ FaultsOK'
    BY <1>13, FaultType DEF PostFails, PostTimesOut, trainVars
  <2>2. post[s] = "open" => host[s].rpcs > 0
    BY DEF IInv, RpcInv
  <2>3. HostOK'
    BY <1>13, <2>2 DEF PostFails, PostTimesOut, HostRec
  <2> QED
    BY <2>1, <2>3
<1>15. CASE UpdDone
  <2>1. UNCHANGED <<start, sent, marked, stable, rank>> /\ PostOK' /\ FaultsOK'
    BY <1>15, FaultType DEF UpdDone, trainVars
  <2>2. HostOK'
    <3>2. PICK F \in SUBSET Servers :
            host' = [s \in Servers |-> [host[s] EXCEPT !.paused = s \in F]]
      BY <1>15 DEF UpdDone
    <3>1. \A s \in Servers, b \in BOOLEAN : [host[s] EXCEPT !.paused = b] \in HostRec
      BY DEF HostRec
    <3>3. \A s \in Servers : [host[s] EXCEPT !.paused = s \in F] \in HostRec
      <4> TAKE s \in Servers
      <4>1. (s \in F) \in BOOLEAN
        OBVIOUS
      <4> QED
        BY <3>1, <4>1, Zenon
    <3> QED
      BY <3>2, <3>3
  <2>3. LoopOK'
    <3>1. NoUpdate \in UpdRec
      BY DEF NoUpdate, UpdRec
    <3>2. CASE upd' = NoUpdate /\ orch' = [orch EXCEPT !.ckpt = upd.v,
                                         !.pc = IF @ = "resume" THEN "barrier" ELSE @]
      BY <3>1, <3>2 DEF OrchRec, UpdRec
    <3>3. CASE UpdFails
      BY <3>1, <3>3 DEF UpdFails, OrchRec
    <3> QED
      BY <1>15, <3>2, <3>3 DEF UpdDone
  <2> QED
    BY <2>1, <2>2, <2>3
<1>16. CASE UNCHANGED vars
  BY <1>16 DEF vars, trainVars, orchVars
<1> QED
  BY <1>1, <1>4, <1>5, <1>6, <1>8, <1>10, <1>11, <1>12, <1>13,
     <1>15, <1>16 DEF Next, Trainer, Orchestrator

-----------------------------------------------------------------------------
(* What the trainer's actions change, one field at a time.                  *)
LEMMA SkipEffect ==
    ASSUME RankOK, NEW r \in Ranks, Skip(r)
    PROVE  /\ UNCHANGED <<start, stable, sent, marked, post, orch, upd, host, faults>>
           /\ rank[r].pc = "top" /\ ~Broadcasts(rank[r].step)
           /\ rank'[r].pc \in {"wait", "done"} /\ ~rank'[r].ready
           /\ rank'[r].pc = "done" => rank[r].step = MaxSteps
           /\ \A q \in Ranks : rank'[q].step = rank[q].step /\ (q # r => rank'[q] = rank[q])
  BY DEF Skip, RankOK, RankRec, orchVars

LEMMA NotifyEffect ==
    ASSUME RankOK, NEW r \in Ranks, Notify(r)
    PROVE  /\ UNCHANGED <<start, sent, marked, post, orch, upd, host, faults>>
           /\ rank[r].pc = "top" /\ Broadcasts(rank[r].step)
           /\ rank'[r].pc = "await" \/ rank'[r].pc = "send"
           /\ rank'[r].pc = "await" => rank[r].ready
           /\ rank'[r].pc = "send" => ~rank[r].ready
           /\ rank'[r].ready => rank[r].ready
           /\ \A q \in Ranks : rank'[q].step = rank[q].step /\ (q # r => rank'[q] = rank[q])
           /\ \/ stable' = stable
              \/ (stable' = stable \cup {rank[r].step} /\ r = Master /\ rank[r].ready)
  BY DEF Notify, Notified, RankOK, RankRec, orchVars

LEMMA SeeReadyEffect ==
    ASSUME RankOK, NEW r \in Ranks, SeeReady(r)
    PROVE  /\ UNCHANGED <<start, stable, sent, marked, post, orch, upd, host, faults>>
           /\ rank[r].pc = "await" /\ rank[r].step \in marked
           /\ rank'[r].pc = "send" /\ rank'[r].ready = rank[r].ready
           /\ \A q \in Ranks : rank'[q].step = rank[q].step /\ (q # r => rank'[q] = rank[q])
  BY DEF SeeReady, Marked, RankOK, RankRec, orchVars

LEMMA TransferEffect ==
    ASSUME RankOK, Transfer
    PROVE  /\ UNCHANGED <<start, stable, sent, marked, orch, upd>>
           /\ \A q \in Ranks : /\ rank[q].pc = "send" /\ rank'[q].pc = "wait"
                               /\ rank'[q].step = rank[q].step /\ rank'[q].ready = rank[q].ready
  BY DEF Transfer, RankOK, RankRec

LEMMA TrainEffect ==
    ASSUME RankOK, Train
    PROVE  /\ UNCHANGED <<start, stable, sent, marked, post, orch, upd, host, faults>>
           /\ \A q \in Ranks : /\ rank[q].pc = "wait" /\ rank'[q].pc = "top"
                               /\ rank'[q].step = rank[q].step + 1 /\ rank'[q].ready
  BY DEF Train, RankOK, RankRec, orchVars

LEMMA RankFacts ==
    ASSUME RankOK, FilesOK
    PROVE  /\ start \in Nat /\ Master \in Ranks
           /\ \A q \in Ranks : rank[q].step \in Nat /\ rank[q].step <= MaxSteps
           /\ \A n \in stable : n \in Nat
  BY StepFacts DEF RankOK, RankRec, FilesOK

LEMMA RankNext == IInv /\ [Next]_vars => RankInv'
<1> SUFFICES ASSUME RankInv, RankOK, FilesOK, [Next]_vars
             PROVE  RankInv'
  BY TypeParts DEF IInv
<1>a. RankAt(Master) /\ \A r \in Ranks : RankAt(r)
  BY RankFacts DEF RankInv
<1>b. \A n \in stable : StableAt(n)
  BY DEF RankInv
<1>1. ASSUME NEW r \in Ranks, Skip(r) PROVE RankInv'
  <2>1. ASSUME NEW q \in Ranks PROVE RankAt(q)'
    BY <1>a, <1>1, <2>1, SkipEffect, RankFacts DEF RankAt
  <2>2. ASSUME NEW n \in stable' PROVE StableAt(n)'
    BY <1>b, <1>1, <2>2, SkipEffect, RankFacts DEF StableAt
  <2> QED
    BY <2>1, <2>2 DEF RankInv
<1>2. ASSUME NEW r \in Ranks, Notify(r) PROVE RankInv'
  <2>1. ASSUME NEW q \in Ranks PROVE RankAt(q)'
    BY <1>a, <1>2, <2>1, NotifyEffect, RankFacts DEF RankAt
  <2>2. ASSUME NEW n \in stable' PROVE StableAt(n)'
    BY <1>a, <1>b, <1>2, <2>2, NotifyEffect, RankFacts DEF StableAt, RankAt
  <2> QED
    BY <2>1, <2>2 DEF RankInv
<1>3. ASSUME NEW r \in Ranks, SeeReady(r) PROVE RankInv'
  <2>1. ASSUME NEW q \in Ranks PROVE RankAt(q)'
    BY <1>a, <1>3, <2>1, SeeReadyEffect, RankFacts DEF RankAt
  <2>2. ASSUME NEW n \in stable' PROVE StableAt(n)'
    BY <1>b, <1>3, <2>2, SeeReadyEffect, RankFacts DEF StableAt
  <2> QED
    BY <2>1, <2>2 DEF RankInv
<1>4. CASE Transfer
  <2>1. ASSUME NEW q \in Ranks PROVE RankAt(q)'
    BY <1>a, <1>4, <2>1, TransferEffect, RankFacts DEF RankAt
  <2>2. ASSUME NEW n \in stable' PROVE StableAt(n)'
    BY <1>b, <1>4, <2>2, TransferEffect, RankFacts DEF StableAt
  <2> QED
    BY <2>1, <2>2 DEF RankInv
<1>5. CASE Train
  <2>1. ASSUME NEW q \in Ranks PROVE RankAt(q)'
    BY <1>a, <1>5, <2>1, TrainEffect, RankFacts DEF RankAt
  <2>2. ASSUME NEW n \in stable' PROVE StableAt(n)'
    BY <1>b, <1>5, <2>2, TrainEffect, RankFacts DEF StableAt
  <2> QED
    BY <2>1, <2>2 DEF RankInv
<1>6. CASE UNCHANGED <<start, rank, stable>> /\ marked \subseteq marked'
  <2>1. ASSUME NEW q \in Ranks PROVE RankAt(q)'
    BY <1>a, <1>6, <2>1 DEF RankAt
  <2>2. ASSUME NEW n \in stable' PROVE StableAt(n)'
    BY <1>b, <1>6, <2>2 DEF StableAt
  <2> QED
    BY <2>1, <2>2 DEF RankInv
<1> QED
  <2>1. ASSUME NEW s \in Servers, Pause(s) \/ PostFails(s) \/ PostTimesOut(s)
        PROVE  UNCHANGED <<start, rank, stable, marked>>
    BY <2>1 DEF Pause, PostFails, PostTimesOut, trainVars
  <2>2. CASE Resume \/ Barrier \/ Poll \/ SendBatch \/ UpdStable \/ UpdDone \/ PauseFails \/ Post
             \/ UNCHANGED vars
    BY <1>6, <2>2 DEF Resume, Barrier, Poll, SendBatch, UpdStable, UpdDone, PauseFails, Post, vars,
                      trainVars, orchVars
  <2> QED
    BY <1>1, <1>2, <1>3, <1>4, <1>5, <1>6, <2>1, <2>2 DEF Next, Trainer, Orchestrator

LEMMA NextFactsNext == TypeOK' => NextOK' /\ ForcedOK'
  BY NextFacts, ForcedFacts, PTL

LEMMA NextMono ==
    ASSUME TypeOK, TypeOK', stable \subseteq stable', orch.step <= orch'.step
    PROVE  NextCkptStep <= NextCkptStep'
<1>1. NextOK /\ ForcedOK /\ NextOK' /\ ForcedOK'
  BY NextFacts, ForcedFacts, NextFactsNext
<1>2. Forced <= Forced'
  <2>1. orch.step \in Nat /\ orch'.step \in Nat
    BY <1>1, StepFacts DEF ForcedOK
  <2>2. Forced = IF orch.step = 0 THEN 0 ELSE orch.step - 1
    BY <1>1 DEF ForcedOK
  <2>3. Forced' = IF orch'.step = 0 THEN 0 ELSE orch'.step - 1
    BY <1>1 DEF ForcedOK
  <2> QED
    BY <2>1, <2>2, <2>3
<1>3. NextCkptStep \in Nat /\ NextCkptStep' \in Nat /\ Forced \in Nat /\ Forced' \in Nat
  BY <1>1, StepFacts DEF NextOK, ForcedOK
<1>4. CASE NextCkptStep = Forced
  BY <1>1, <1>2, <1>3, <1>4 DEF NextOK
<1>5. CASE NextCkptStep \in stable
  BY <1>1, <1>5 DEF NextOK
<1> QED
  BY <1>1, <1>4, <1>5 DEF NextOK

-----------------------------------------------------------------------------
(* The orchestrator's actions, one field at a time. *)

LEMMA ResumeEffect ==
    ASSUME LoopOK, Resume
    PROVE  /\ UNCHANGED <<start, sent, stable, marked, rank, post, orch, host, faults>>
           /\ orch.pc = "resume" /\ upd.pc = "idle"
           /\ upd'.pc = "pause" /\ upd'.v = orch.step /\ upd'.todo = Servers
  BY DEF Resume, trainVars, LoopOK

LEMMA UpdateEffect ==
    ASSUME LoopOK, Barrier \/ Poll
    PROVE  /\ UNCHANGED <<start, sent, stable, marked, rank, post, host, faults>>
           /\ upd.pc = "idle"
           /\ orch.pc = "barrier" \/ (orch.pc = "generate" /\ orch.polling)
           /\ \/ /\ UNCHANGED orch /\ NextCkptStep > orch.ckpt
                 /\ upd'.pc \in {"await", "pause"} /\ upd'.v = NextCkptStep /\ upd'.todo = Servers
                 /\ upd'.pc = "pause" => upd'.v # Forced
              \/ /\ UNCHANGED upd /\ ~(NextCkptStep > orch.ckpt)
                 /\ orch'.pc = "generate" /\ orch'.polling
                 /\ orch'.step = orch.step /\ orch'.ckpt = orch.ckpt
<1>1. CASE Poll
  BY <1>1 DEF Poll, Behind, Update, trainVars, LoopOK
<1>2. CASE Barrier /\ Behind
  BY <1>2 DEF Barrier, Behind, Update, trainVars, LoopOK
<1>3. CASE Barrier /\ ~Behind
  BY <1>3 DEF Barrier, Behind, trainVars, LoopOK, OrchRec
<1> QED
  BY <1>1, <1>2, <1>3

LEMMA SendBatchEffect ==
    ASSUME LoopOK, SendBatch
    PROVE  /\ UNCHANGED <<start, stable, marked, rank, post, upd, host, faults>>
           /\ orch.pc = "generate"
           /\ orch'.step = orch.step + 1 /\ orch'.ckpt = orch.ckpt /\ ~orch'.polling
           /\ orch'.pc = "done" \/ (orch'.pc = "barrier" /\ orch'.step # MaxSteps)
  BY DEF SendBatch, trainVars, LoopOK, OrchRec

LEMMA UpdStableEffect ==
    ASSUME LoopOK, UpdStable
    PROVE  /\ UNCHANGED <<start, sent, stable, marked, rank, post, orch, host, faults>>
           /\ upd.pc = "await" /\ upd.v \in stable
           /\ upd'.pc = "pause" /\ upd'.v = upd.v /\ upd'.todo = upd.todo
  BY DEF UpdStable, trainVars, LoopOK, UpdRec

LEMMA PauseEffect ==
    ASSUME LoopOK, HostOK, NEW s \in Servers, Pause(s)
    PROVE  /\ UNCHANGED <<start, sent, stable, marked, rank, post, orch, faults>>
           /\ upd.pc = "pause" /\ upd'.pc = "pause" /\ upd'.v = upd.v /\ upd'.todo = upd.todo \ {s}
           /\ host'[s].paused
           /\ \A t \in Servers : /\ t # s => host'[t] = host[t]
                                 /\ host'[t].rpcs = host[t].rpcs /\ host'[t].weights = host[t].weights
  BY DEF Pause, trainVars, LoopOK, UpdRec, HostOK, HostRec

UpdFailed ==
    /\ upd'.pc = "idle" /\ ~orch'.polling
    /\ orch'.step = orch.step /\ orch'.ckpt = orch.ckpt
    /\ IF orch.pc = "generate" THEN orch'.pc = "generate" ELSE orch'.pc = "failed"

LEMMA UpdFailsEffect ==
    ASSUME LoopOK, UpdFails, orch.polling => orch.pc = "generate"
    PROVE  UpdFailed
  BY DEF UpdFails, NoUpdate, UpdFailed, LoopOK, OrchRec

LEMMA PauseFailsEffect ==
    ASSUME LoopOK, HostOK, PauseFails, orch.polling => orch.pc = "generate"
    PROVE  /\ UNCHANGED <<start, sent, stable, marked, rank, post>>
           /\ upd.pc = "pause" /\ Fault /\ UpdFailed
           /\ \A t \in Servers : host'[t].rpcs = host[t].rpcs /\ host'[t].weights = host[t].weights
<1>1. UNCHANGED <<start, sent, stable, marked, rank, post>> /\ upd.pc = "pause" /\ Fault /\ UpdFails
  BY DEF PauseFails, trainVars
<1>2. PICK P \in SUBSET upd.todo :
        host' = [s \in Servers |-> [host[s] EXCEPT !.paused = @ \/ s \in P]]
  BY DEF PauseFails
<1>3. \A t \in Servers : host'[t].rpcs = host[t].rpcs /\ host'[t].weights = host[t].weights
  BY <1>2 DEF HostOK, HostRec
<1> QED
  BY <1>1, <1>3, UpdFailsEffect

LEMMA PostEffect ==
    ASSUME LoopOK, HostOK, PostOK, Post
    PROVE  /\ UNCHANGED <<start, sent, stable, rank, orch, faults>>
           /\ upd.pc = "pause" /\ upd.todo = {}
           /\ upd'.pc = "post" /\ upd'.v = upd.v
           /\ marked' = marked \cup {upd.v}
           /\ \A t \in Servers : /\ post'[t] = "open" /\ host'[t].rpcs = host[t].rpcs + 1
                                 /\ host'[t].paused = host[t].paused
                                 /\ host'[t].weights = host[t].weights
  BY DEF Post, AllPaused, trainVars, LoopOK, UpdRec, HostOK, HostRec, PostOK

LEMMA PostFailsEffect ==
    ASSUME HostOK, PostOK, NEW s \in Servers, PostFails(s)
    PROVE  /\ UNCHANGED <<start, sent, stable, marked, rank, orch, upd>>
           /\ post[s] = "open" /\ Fault /\ post'[s] = "failed" /\ host'[s].rpcs = host[s].rpcs - 1
           /\ \A t \in Servers : /\ t # s => post'[t] = post[t] /\ host'[t] = host[t]
                                 /\ host'[t].paused = host[t].paused
                                 /\ host'[t].weights = host[t].weights
  BY DEF PostFails, trainVars, HostOK, HostRec, PostOK

LEMMA PostTimesOutEffect ==
    ASSUME PostOK, NEW s \in Servers, PostTimesOut(s)
    PROVE  /\ UNCHANGED <<start, sent, stable, marked, rank, orch, upd, host>>
           /\ post[s] = "open" /\ post'[s] = "failed" /\ (Fault \/ (~Coming /\ UNCHANGED faults))
           /\ \A t \in Servers : t # s => post'[t] = post[t]
  BY DEF PostTimesOut, trainVars, PostOK

LEMMA UpdDoneEffect ==
    ASSUME LoopOK, HostOK, PostOK, FaultsOK, UpdDone, orch.polling => orch.pc = "generate"
    PROVE  /\ UNCHANGED <<start, sent, stable, marked, rank>>
           /\ upd.pc = "post" /\ upd'.pc = "idle" /\ (Fault \/ UNCHANGED faults)
           /\ \A t \in Servers : /\ post[t] # "open" /\ post'[t] = "none"
                                 /\ host'[t].rpcs = host[t].rpcs
                                 /\ host'[t].weights = host[t].weights
           /\ \/ UpdFailed /\ (faults' = faults => \E s \in Servers : post[s] # "ok")
              \/ /\ \A t \in Servers : post[t] = "ok"
                 /\ orch'.ckpt = upd.v /\ orch'.step = orch.step /\ orch'.polling = orch.polling
                 /\ orch'.pc = IF orch.pc = "resume" THEN "barrier" ELSE orch.pc
<1>1. UNCHANGED <<start, sent, stable, marked, rank>> /\ upd.pc = "post"
  BY DEF UpdDone, trainVars
<1>2. PICK F \in SUBSET Servers :
        /\ IF F = {} THEN UNCHANGED faults ELSE Fault
        /\ host' = [s \in Servers |-> [host[s] EXCEPT !.paused = s \in F]]
        /\ IF F = {} /\ \A s \in Servers : post[s] = "ok"
           THEN /\ upd' = NoUpdate
                /\ orch' = [orch EXCEPT !.ckpt = upd.v,
                                        !.pc = IF @ = "resume" THEN "barrier" ELSE @]
           ELSE UpdFails
  BY DEF UpdDone
<1>3. \A t \in Servers : host'[t].rpcs = host[t].rpcs /\ host'[t].weights = host[t].weights
  BY <1>2 DEF HostOK, HostRec
<1>4. \A t \in Servers : post[t] # "open" /\ post'[t] = "none"
  BY DEF UpdDone
<1>5. CASE UpdFails /\ ~(F = {} /\ \A s \in Servers : post[s] = "ok")
  <2>1. UpdFailed
    BY <1>5, UpdFailsEffect
  <2>2. faults' = faults => F = {}
    BY <1>2, NcclAssumption DEF Fault, FaultsOK
  <2> QED
    BY <1>1, <1>2, <1>3, <1>4, <1>5, <2>1, <2>2 DEF UpdFailed
<1>6. CASE /\ F = {} /\ \A s \in Servers : post[s] = "ok"
           /\ upd' = NoUpdate
           /\ orch' = [orch EXCEPT !.ckpt = upd.v, !.pc = IF @ = "resume" THEN "barrier" ELSE @]
  <2>1. /\ orch'.ckpt = upd.v /\ orch'.step = orch.step /\ orch'.polling = orch.polling
        /\ orch'.pc = IF orch.pc = "resume" THEN "barrier" ELSE orch.pc
        /\ upd'.pc = "idle"
    BY <1>6 DEF LoopOK, OrchRec, NoUpdate
  <2> QED
    BY <1>1, <1>2, <1>3, <1>4, <1>6, <2>1
<1> QED
  BY <1>2, <1>5, <1>6

-----------------------------------------------------------------------------
LEMMA LoopFacts ==
    ASSUME LoopOK
    PROVE  orch.step \in Nat /\ orch.ckpt \in Nat /\ upd.v \in Nat
  BY StepFacts DEF LoopOK, OrchRec, UpdRec

LEMMA LoopFactsNext == LoopOK' => orch'.step \in Nat /\ orch'.ckpt \in Nat /\ upd'.v \in Nat
  BY StepFacts DEF LoopOK, OrchRec, UpdRec

LEMMA OrchNext == IInv /\ [Next]_vars => OrchInv'
<1> SUFFICES ASSUME IInv, [Next]_vars
             PROVE  OrchInv'
  OBVIOUS
<1>a. /\ TypeOK /\ TypeOK' /\ OrchInv /\ RankOK /\ FilesOK /\ HostOK /\ PostOK /\ LoopOK /\ FaultsOK
      /\ orch.polling => orch.pc = "generate"
  BY TypeParts, TypeNext DEF IInv, RpcInv
<1>b. NextOK /\ NextOK'
  BY <1>a, NextFacts, NextFactsNext
<1>c. /\ NextCkptStep \in Nat /\ NextCkptStep' \in Nat /\ start \in Nat /\ MaxSteps \in Nat
      /\ orch.step \in Nat /\ orch.ckpt \in Nat /\ upd.v \in Nat
      /\ orch'.step \in Nat /\ orch'.ckpt \in Nat /\ upd'.v \in Nat
      /\ \A n \in marked : n \in Nat
  BY <1>a, <1>b, StepFacts, LoopFacts, LoopFactsNext, RankFacts, TypePartsNext DEF NextOK, FilesOK
<1>d. ASSUME stable \subseteq stable', orch'.step = orch.step
      PROVE  NextCkptStep <= NextCkptStep'
  BY <1>a, <1>c, <1>d, NextMono
<1>1. ASSUME UNCHANGED <<start, marked, orch, upd>>, stable \subseteq stable'
      PROVE  OrchInv'
  BY <1>1, <1>a, <1>c, <1>d DEF OrchInv
<1>2. CASE Resume
  <2>1. NextCkptStep <= NextCkptStep'
    BY <1>2, <1>a, <1>d, ResumeEffect
  <2> QED
    BY <1>2, <1>a, <1>c, <2>1, ResumeEffect DEF OrchInv
<1>3. CASE Barrier \/ Poll
  <2>1. NextCkptStep' = NextCkptStep
    BY <1>3, <1>a, UpdateEffect DEF NextCkptStep, Forced
  <2> QED
    BY <1>3, <1>a, <1>b, <1>c, <2>1, UpdateEffect DEF OrchInv, NextOK
<1>4. CASE SendBatch
  <2>1. NextCkptStep <= NextCkptStep'
    BY <1>4, <1>a, <1>c, NextMono, SendBatchEffect
  <2>2. orch'.step <= MaxSteps
    BY <1>4, <1>a, <1>c, SendBatchEffect DEF OrchInv
  <2> QED
    BY <1>4, <1>a, <1>c, <2>1, <2>2, SendBatchEffect DEF OrchInv
<1>5. CASE UpdStable
  <2>1. NextCkptStep <= NextCkptStep'
    BY <1>5, <1>a, <1>d, UpdStableEffect
  <2> QED
    BY <1>5, <1>a, <1>c, <2>1, UpdStableEffect DEF OrchInv
<1>6. ASSUME NEW s \in Servers, Pause(s) PROVE OrchInv'
  <2>1. NextCkptStep <= NextCkptStep'
    BY <1>6, <1>a, <1>d, PauseEffect
  <2> QED
    BY <1>6, <1>a, <1>c, <2>1, PauseEffect DEF OrchInv
<1>7. CASE PauseFails
  <2>1. NextCkptStep <= NextCkptStep'
    BY <1>7, <1>a, <1>d, PauseFailsEffect DEF UpdFailed
  <2> QED
    BY <1>7, <1>a, <1>c, <2>1, PauseFailsEffect DEF OrchInv, UpdFailed
<1>8. CASE Post
  <2>1. NextCkptStep <= NextCkptStep'
    BY <1>8, <1>a, <1>d, PostEffect
  <2> QED
    BY <1>8, <1>a, <1>c, <2>1, PostEffect DEF OrchInv
<1>9. CASE UpdDone
  <2>1. NextCkptStep <= NextCkptStep'
    BY <1>9, <1>a, <1>d, UpdDoneEffect DEF UpdFailed
  <2> QED
    BY <1>9, <1>a, <1>c, <2>1, UpdDoneEffect DEF OrchInv, UpdFailed
<1>10. ASSUME NEW s \in Servers, PostFails(s) \/ PostTimesOut(s) PROVE OrchInv'
  BY <1>10, <1>a, <1>1, PostFailsEffect, PostTimesOutEffect
<1>11. ASSUME NEW r \in Ranks, Skip(r) \/ Notify(r) \/ SeeReady(r) PROVE OrchInv'
  BY <1>11, <1>a, <1>1, SkipEffect, NotifyEffect, SeeReadyEffect
<1>12. CASE Transfer \/ Train
  BY <1>12, <1>a, <1>1, TransferEffect, TrainEffect
<1>13. CASE UNCHANGED vars
  BY <1>13, <1>1 DEF vars, trainVars, orchVars
<1> QED
  BY <1>2, <1>3, <1>4, <1>5, <1>6, <1>7, <1>8, <1>9, <1>10, <1>11, <1>12, <1>13
  DEF Next, Trainer, Orchestrator

-----------------------------------------------------------------------------
LEMMA TransferPosts ==
    ASSUME HostOK, PostOK, FaultsOK, Transfer
    PROVE  /\ Fault \/ UNCHANGED faults
           /\ \A t \in Servers :
                /\ host[t].rpcs \in Nat /\ host[t].rpcs > 0
                /\ host'[t].rpcs = host[t].rpcs - 1 /\ host'[t].weights = rank[Master].step
                /\ host'[t].paused = host[t].paused
                /\ \/ post'[t] = post[t] /\ ~(post[t] = "open" /\ host[t].rpcs = 1)
                   \/ post[t] = "open" /\ host[t].rpcs = 1 /\ post'[t] = "ok"
                   \/ post[t] = "open" /\ host[t].rpcs = 1 /\ post'[t] = "failed" /\ Fault
<1>1. \A t \in Servers :
         /\ host[t].rpcs \in Nat /\ host[t].rpcs > 0
         /\ host'[t].rpcs = host[t].rpcs - 1 /\ host'[t].weights = rank[Master].step
         /\ host'[t].paused = host[t].paused
  <2> TAKE t \in Servers
  <2>1. host[t].rpcs \in Nat /\ host[t].rpcs > 0
    <3>1. host[t].rpcs \in 0 .. 2
      BY DEF HostOK, HostRec
    <3>2. host[t].rpcs > 0
      BY DEF Transfer
    <3> QED
      BY <3>1, <3>2
  <2>2. host'[t] = [host[t] EXCEPT !.weights = rank[Master].step, !.rpcs = @ - 1]
    BY DEF Transfer
  <2>3. host[t] \in HostRec
    BY DEF HostOK
  <2> QED
    BY <2>1, <2>2, <2>3 DEF HostRec
<1>2. PICK F \in SUBSET {s \in Servers : post[s] = "open" /\ host[s].rpcs = 1} :
        /\ post' = [s \in Servers |-> IF s \in F THEN "failed"
                       ELSE IF s \in {z \in Servers : post[z] = "open" /\ host[z].rpcs = 1}
                       THEN "ok" ELSE post[s]]
        /\ IF F = {} THEN UNCHANGED faults ELSE Fault
  BY DEF Transfer
<1> QED
  BY <1>1, <1>2

(* What the trainer's ranks send is the version that is being asked for.    *)
LEMMA SentIsAsked ==
    ASSUME RankInv, OrchInv, RankOK, FilesOK, LoopOK, upd.pc = "post",
           \A r \in Ranks : rank[r].pc = "send"
    PROVE  upd.v = rank[Master].step
<1>1. /\ Master \in Ranks /\ RankAt(Master) /\ start \in Nat /\ upd.v \in Nat
      /\ rank[Master].step \in Nat
  BY RankFacts, LoopFacts DEF RankInv
<1>2. upd.v <= rank[Master].step
  <2>1. upd.v = start \/ upd.v \in stable
    BY DEF OrchInv
  <2> QED
    BY <1>1, <2>1 DEF RankInv, RankAt, StableAt
<1>3. rank[Master].step <= upd.v
  <2>1. CASE rank[Master].step = start
    BY <1>1, <2>1, LoopFacts DEF OrchInv
  <2>2. CASE rank[Master].step # start
    BY <1>1, <2>2 DEF OrchInv, RankAt
  <2> QED
    BY <2>1, <2>2
<1> QED
  BY <1>1, <1>2, <1>3

LEMMA EngineNext == IInv /\ [Next]_vars => EngineInv'
<1> SUFFICES ASSUME IInv, [Next]_vars
             PROVE  EngineInv'
  OBVIOUS
<1>a. /\ EngineInv /\ RankInv /\ OrchInv /\ RankOK /\ FilesOK /\ HostOK /\ PostOK /\ LoopOK /\ FaultsOK
      /\ orch.polling => orch.pc = "generate"
      /\ \A s \in Servers : host[s].rpcs \in Nat
  BY TypeParts DEF IInv, RpcInv, HostOK, HostRec
<1>1. CASE UNCHANGED <<upd, host, post>>
  BY <1>1, <1>a DEF EngineInv
<1>2. CASE Resume
  BY <1>2, <1>a, ResumeEffect DEF EngineInv
<1>3. CASE Barrier \/ Poll
  BY <1>3, <1>a, UpdateEffect DEF EngineInv
<1>4. CASE UpdStable
  BY <1>4, <1>a, UpdStableEffect DEF EngineInv
<1>5. ASSUME NEW s \in Servers, Pause(s) PROVE EngineInv'
  BY <1>5, <1>a, PauseEffect DEF EngineInv
<1>6. CASE PauseFails
  BY <1>6, <1>a, PauseFailsEffect DEF EngineInv, UpdFailed
<1>7. CASE Post
  BY <1>7, <1>a, PostEffect DEF EngineInv
<1>8. CASE UpdDone
  BY <1>8, <1>a, UpdDoneEffect DEF EngineInv, UpdFailed
<1>9. ASSUME NEW s \in Servers, PostFails(s) PROVE EngineInv'
  BY <1>9, <1>a, PostFailsEffect DEF EngineInv
<1>10. ASSUME NEW s \in Servers, PostTimesOut(s) PROVE EngineInv'
  BY <1>10, <1>a, PostTimesOutEffect DEF EngineInv
<1>11. CASE Transfer
  <2>1. \A s \in Servers : post[s] # "ok"
    BY <1>11, <1>a, TransferPosts DEF EngineInv
  <2>2. UNCHANGED upd
    BY <1>11, <1>a, TransferEffect
  <2>3. ASSUME NEW s \in Servers, post'[s] = "ok"
        PROVE  host'[s].rpcs = 0 /\ upd.v = rank[Master].step
    <3>1. post[s] = "open" /\ host[s].rpcs = 1
      BY <1>11, <1>a, <2>1, <2>3, TransferPosts
    <3>2. upd.pc = "post"
      BY <1>a, <3>1 DEF EngineInv
    <3> QED
      BY <1>11, <1>a, <3>1, <3>2, TransferPosts, TransferEffect, SentIsAsked
  <2> QED
    BY <1>11, <1>a, <2>2, <2>3, TransferPosts DEF EngineInv
<1>12. CASE SendBatch \/ Train \/ \E r \in Ranks : Skip(r) \/ Notify(r) \/ SeeReady(r)
  BY <1>12, <1>1, <1>a, SkipEffect, NotifyEffect, SeeReadyEffect, TrainEffect, SendBatchEffect
<1>13. CASE UNCHANGED vars
  BY <1>13, <1>1 DEF vars, orchVars
<1> QED
  BY <1>2, <1>3, <1>4, <1>5, <1>6, <1>7, <1>8, <1>9, <1>10, <1>11, <1>12, <1>13
  DEF Next, Trainer, Orchestrator

LEMMA RpcNext == IInv /\ [Next]_vars => RpcInv'
<1> SUFFICES ASSUME IInv, [Next]_vars
             PROVE  RpcInv'
  OBVIOUS
<1>a. /\ RpcInv /\ EngineInv /\ RankOK /\ FilesOK /\ HostOK /\ PostOK /\ LoopOK /\ FaultsOK
      /\ TypeOK /\ TypeOK'
      /\ orch.polling => orch.pc = "generate"
      /\ \A s \in Servers : host[s].rpcs \in Nat
  BY TypeParts, TypeNext DEF IInv, RpcInv, HostOK, HostRec
<1>b. NextCkptStep \in Nat /\ NextCkptStep' \in Nat /\ orch.ckpt \in Nat /\ orch.step \in Nat
  BY <1>a, NextFacts, NextFactsNext, StepFacts, LoopFacts DEF NextOK
<1>d. ASSUME stable \subseteq stable', orch'.step = orch.step
      PROVE  NextCkptStep <= NextCkptStep'
  BY <1>a, <1>b, <1>d, NextMono
<1>1. ASSUME UNCHANGED <<upd, host, post, orch>>, stable \subseteq stable'
      PROVE  RpcInv'
  BY <1>1, <1>a, <1>b, <1>d DEF RpcInv
<1>2. CASE Resume
  BY <1>2, <1>a, ResumeEffect DEF RpcInv
<1>3. CASE Barrier \/ Poll
  BY <1>3, <1>a, UpdateEffect DEF RpcInv
<1>4. CASE UpdStable
  BY <1>4, <1>a, UpdStableEffect DEF RpcInv
<1>5. ASSUME NEW s \in Servers, Pause(s) PROVE RpcInv'
  BY <1>5, <1>a, PauseEffect DEF RpcInv
<1>6. CASE PauseFails
  <2>1. NextCkptStep <= NextCkptStep' /\ (NextCkptStep > orch.ckpt \/ orch.pc = "resume")
    BY <1>6, <1>a, <1>b, <1>d, PauseFailsEffect, LoopFacts DEF UpdFailed, IInv, OrchInv
  <2> QED
    BY <1>6, <1>a, <1>b, <2>1, PauseFailsEffect DEF RpcInv, UpdFailed
<1>7. CASE Post
  BY <1>7, <1>a, PostEffect DEF RpcInv
<1>8. CASE UpdDone
  <2>1. NextCkptStep <= NextCkptStep' /\ (NextCkptStep > orch.ckpt \/ orch.pc = "resume")
    BY <1>8, <1>a, <1>b, <1>d, UpdDoneEffect, LoopFacts DEF UpdFailed, IInv, OrchInv
  <2>2. CASE UpdFailed
    BY <1>8, <1>a, <1>b, <2>1, <2>2, UpdDoneEffect DEF RpcInv, UpdFailed
  <2>3. CASE \A t \in Servers : post[t] = "ok"
    <3>1. \A t \in Servers : host'[t].rpcs = 0
      BY <1>8, <1>a, <2>3, UpdDoneEffect DEF EngineInv
    <3>2. UpdFailed \/ (orch'.polling = orch.polling
                        /\ orch'.pc = IF orch.pc = "resume" THEN "barrier" ELSE orch.pc)
      BY <1>8, <1>a, UpdDoneEffect
    <3> QED
      BY <1>8, <1>a, <3>1, <3>2, UpdDoneEffect DEF RpcInv, UpdFailed
  <2> QED
    BY <1>8, <1>a, <2>2, <2>3, UpdDoneEffect
<1>9. ASSUME NEW s \in Servers, PostFails(s) PROVE RpcInv'
  <2>1. upd.pc = "post"
    BY <1>9, <1>a, PostFailsEffect DEF EngineInv
  <2> QED
    BY <1>9, <1>a, <2>1, PostFailsEffect DEF RpcInv
<1>10. ASSUME NEW s \in Servers, PostTimesOut(s) PROVE RpcInv'
  <2>1. upd.pc = "post"
    BY <1>10, <1>a, PostTimesOutEffect DEF EngineInv
  <2> QED
    BY <1>10, <1>a, <2>1, PostTimesOutEffect DEF RpcInv
<1>11. CASE Transfer
  <2>1. UNCHANGED <<upd, orch, stable>>
    BY <1>11, <1>a, TransferEffect
  <2>2. NextCkptStep' = NextCkptStep
    BY <2>1 DEF NextCkptStep, Forced
  <2> QED
    BY <1>11, <1>a, <2>1, <2>2, TransferPosts DEF RpcInv
<1>12. CASE SendBatch
  <2>1. NextCkptStep <= NextCkptStep'
    BY <1>12, <1>a, <1>b, NextMono, SendBatchEffect
  <2> QED
    BY <1>12, <1>a, <1>b, <2>1, SendBatchEffect DEF RpcInv
<1>13. CASE Train \/ \E r \in Ranks : Skip(r) \/ Notify(r) \/ SeeReady(r)
  BY <1>13, <1>1, <1>a, SkipEffect, NotifyEffect, SeeReadyEffect, TrainEffect
<1>14. CASE UNCHANGED vars
  BY <1>14, <1>1 DEF vars, orchVars, trainVars
<1> QED
  BY <1>2, <1>3, <1>4, <1>5, <1>6, <1>7, <1>8, <1>9, <1>10, <1>11, <1>12, <1>13, <1>14
  DEF Next, Trainer, Orchestrator

-----------------------------------------------------------------------------
LEMMA FaultsStep == [Next]_vars => Fault \/ UNCHANGED faults
<1> SUFFICES ASSUME [Next]_vars PROVE Fault \/ UNCHANGED faults
  OBVIOUS
<1>1. ASSUME NEW r \in Ranks, Skip(r) \/ Notify(r) \/ SeeReady(r)
      PROVE  UNCHANGED faults
  BY <1>1 DEF Skip, Notify, SeeReady
<1>2. ASSUME NEW s \in Servers, Pause(s) \/ PostFails(s) \/ PostTimesOut(s)
      PROVE  Fault \/ UNCHANGED faults
  BY <1>2 DEF Pause, PostFails, PostTimesOut
<1>3. CASE Transfer \/ UpdDone \/ PauseFails
  BY <1>3 DEF Transfer, UpdDone, PauseFails
<1>4. CASE Train \/ Resume \/ Barrier \/ Poll \/ SendBatch \/ UpdStable \/ Post \/ UNCHANGED vars
  BY <1>4 DEF Train, Resume, Barrier, Poll, SendBatch, UpdStable, Post, vars
<1> QED
  BY <1>1, <1>2, <1>3, <1>4 DEF Next, Trainer, Orchestrator

(* As long as nothing has failed no request for weights times out.          *)
LEMMA StillComing ==
    ASSUME TypeOK, RankInv, OrchInv, EngineInv, Early, NEW s \in Servers, post[s] = "open"
    PROVE  Coming
<1>a. RankOK /\ FilesOK /\ HostOK /\ PostOK /\ LoopOK /\ FaultsOK
  BY TypeParts
<1>b. /\ Master \in Ranks /\ RankAt(Master) /\ start \in Nat /\ upd.v \in Nat
      /\ rank[Master].step \in Nat /\ orch.ckpt \in Nat /\ orch.step \in Nat
      /\ start \in Starts
      /\ rank[Master].pc \in {"top", "await", "send", "wait", "done"}
  BY <1>a, RankFacts, LoopFacts DEF RankInv, RankOK, RankRec, FilesOK
<1>1. upd.pc = "post" /\ \A t \in Servers : post[t] = "open" /\ host[t].rpcs > 0
  BY DEF EngineInv, Early, Together
<1>2. upd.v \in stable \/ (upd.v = start /\ start # 0 /\ orch.pc = "resume")
  BY <1>b, <1>1 DEF OrchInv
<1>3. upd.v <= rank[Master].step
  BY <1>b, <1>2 DEF RankInv, RankAt, StableAt
<1>4. ~Passed(upd.v)
  <2>1. ReceivedAt(upd.v)
    BY <1>2 DEF Early
  <2>2. ~(upd.v <= orch.ckpt /\ orch.pc # "resume")
    BY <1>b, <1>1 DEF OrchInv
  <2>3. ~(\A t \in Servers : post[t] = "ok")
    BY <1>1
  <2> QED
    BY <2>1, <2>2, <2>3 DEF ReceivedAt
<1>5. upd.v = rank[Master].step /\ rank[Master].pc \in {"top", "await", "send"}
  BY <1>b, <1>3, <1>4 DEF Passed
<1>6. Broadcasts(upd.v)
  <2>1. upd.v \in stable => Broadcasts(upd.v)
    BY DEF RankInv, StableAt
  <2>2. start # 0 => Broadcasts(start)
    BY <1>b, StepFacts DEF Broadcasts
  <2> QED
    BY <1>2, <2>1, <2>2
<1> QED
  BY <1>1, <1>5, <1>6 DEF Coming

LEMMA EarlyNext == IInv /\ [Next]_vars => EarlyInv'
<1> SUFFICES ASSUME IInv, [Next]_vars, faults' = 0, Servers # {}
             PROVE  Early'
  BY DEF EarlyInv
<1>a. /\ RankOK /\ FilesOK /\ HostOK /\ PostOK /\ LoopOK /\ FaultsOK
      /\ TypeOK /\ RankInv /\ OrchInv /\ EngineInv
      /\ orch.polling => orch.pc = "generate"
  BY TypeParts DEF IInv, RpcInv
<1>b. /\ Master \in Ranks /\ RankAt(Master) /\ start \in Nat /\ upd.v \in Nat
      /\ \A r \in Ranks : rank[r].step \in Nat
      /\ orch.ckpt \in Nat /\ orch.step \in Nat /\ \A n \in stable \cup marked : n \in Nat
      /\ start # 0 => Broadcasts(start)
      /\ \A n \in stable : Broadcasts(n)
  BY <1>a, RankFacts, LoopFacts, StepFacts DEF RankInv, StableAt, Broadcasts, FilesOK
<1>c. ~Fault /\ faults' = faults /\ faults = 0
  BY <1>a, FaultsStep DEF Fault, FaultsOK
<1>d. Early
  BY <1>c DEF IInv, EarlyInv
<1>1. CASE UNCHANGED <<upd, post, orch, start, stable, marked, rank>>
           /\ \A s \in Servers : host'[s].rpcs = host[s].rpcs
  BY <1>1, <1>d DEF Early, Together, ReceivedAt, MarkedAt, Passed
<1>2. ASSUME NEW r \in Ranks, Skip(r) PROVE Early'
  <2>1. ASSUME NEW n \in Nat, Broadcasts(n) PROVE Passed(n)' <=> Passed(n)
    BY <1>2, <1>a, <1>b, <2>1, SkipEffect DEF Passed
  <2>2. ASSUME NEW n \in Nat, Passed(n) PROVE Passed(n)'
    BY <1>2, <1>a, <1>b, <2>2, SkipEffect DEF Passed
  <2> QED
    BY <1>2, <1>a, <1>b, <1>d, <2>1, <2>2, SkipEffect DEF Early, Together, ReceivedAt, MarkedAt
<1>3. ASSUME NEW r \in Ranks, Notify(r) PROVE Early'
  <2>1. ASSUME NEW n \in Nat PROVE Passed(n)' <=> Passed(n)
    BY <1>3, <1>a, <1>b, <2>1, NotifyEffect DEF Passed
  <2>2. ~Passed(rank[Master].step) \/ r # Master
    BY <1>3, <1>a, <1>b, NotifyEffect DEF Passed
  <2> QED
    BY <1>3, <1>a, <1>b, <1>d, <2>1, <2>2, NotifyEffect DEF Early, Together, ReceivedAt, MarkedAt
<1>4. ASSUME NEW r \in Ranks, SeeReady(r) PROVE Early'
  <2>1. ASSUME NEW n \in Nat PROVE Passed(n)' <=> Passed(n)
    BY <1>4, <1>a, <1>b, <2>1, SeeReadyEffect DEF Passed
  <2> QED
    BY <1>4, <1>a, <1>b, <1>d, <2>1, SeeReadyEffect DEF Early, Together, ReceivedAt, MarkedAt
<1>5. CASE Train
  <2>1. ASSUME NEW n \in Nat PROVE Passed(n)' <=> Passed(n)
    BY <1>5, <1>a, <1>b, <2>1, TrainEffect DEF Passed
  <2> QED
    BY <1>5, <1>a, <1>b, <1>d, <2>1, TrainEffect DEF Early, Together, ReceivedAt, MarkedAt
<1>6. CASE Transfer
  <2>1. \A t \in Servers : post[t] = "open" /\ host[t].rpcs = 1
    BY <1>6, <1>a, <1>d, TransferPosts DEF Early, Together
  <2>2. upd.pc = "post"
    BY <1>a, <2>1 DEF EngineInv
  <2>3. upd.v = rank[Master].step
    BY <1>6, <1>a, <2>2, TransferEffect, SentIsAsked
  <2>4. \A t \in Servers : post'[t] = "ok" /\ host'[t].rpcs = 0
    BY <1>6, <1>a, <1>c, <2>1, TransferPosts
  <2>5. /\ UNCHANGED <<start, stable, marked, upd, orch>>
        /\ rank[Master].pc = "send" /\ rank'[Master].pc = "wait"
        /\ rank'[Master].step = rank[Master].step
    BY <1>6, <1>a, <1>b, TransferEffect
  <2>6. ASSUME NEW n \in Nat PROVE Passed(n)' <=> Passed(n) \/ n = upd.v
    BY <1>b, <2>3, <2>5 DEF Passed
  <2>7. ASSUME NEW n \in Nat, ReceivedAt(n) PROVE ReceivedAt(n)'
    BY <2>1, <2>2, <2>4, <2>5, <2>6, <2>7 DEF ReceivedAt
  <2>8. ASSUME NEW n \in marked PROVE MarkedAt(n)'
    BY <1>b, <1>d, <2>5, <2>6, <2>8 DEF MarkedAt, Early
  <2>9. Together'
    BY <2>4 DEF Together
  <2> QED
    BY <1>b, <1>d, <2>5, <2>7, <2>8, <2>9 DEF Early
<1>7. CASE Resume
  BY <1>7, <1>a, <1>d, ResumeEffect DEF Early, Together, ReceivedAt, MarkedAt, Passed
<1>8. CASE Barrier \/ Poll
  BY <1>8, <1>a, <1>d, UpdateEffect DEF Early, Together, ReceivedAt, MarkedAt, Passed
<1>9. CASE SendBatch
  BY <1>9, <1>a, <1>d, SendBatchEffect DEF Early, Together, ReceivedAt, MarkedAt, Passed
<1>10. CASE UpdStable
  BY <1>10, <1>a, <1>d, UpdStableEffect DEF Early, Together, ReceivedAt, MarkedAt, Passed
<1>11. ASSUME NEW s \in Servers, Pause(s) PROVE Early'
  BY <1>11, <1>a, <1>d, PauseEffect DEF Early, Together, ReceivedAt, MarkedAt, Passed
<1>12. CASE PauseFails
  BY <1>12, <1>a, <1>c, PauseFailsEffect
<1>13. CASE Post
  BY <1>13, <1>a, <1>b, <1>d, PostEffect DEF Early, Together, ReceivedAt, MarkedAt, Passed, EngineInv
<1>14. ASSUME NEW s \in Servers, PostFails(s) PROVE Early'
  BY <1>14, <1>a, <1>c, PostFailsEffect
<1>15. ASSUME NEW s \in Servers, PostTimesOut(s) PROVE Early'
  BY <1>15, <1>a, <1>c, <1>d, PostTimesOutEffect, StillComing
<1>16. CASE UpdDone
  <2>1. \A s \in Servers : post[s] = "ok"
    BY <1>16, <1>a, <1>d, UpdDoneEffect DEF PostOK, EngineInv, Early, Together
  <2>2. /\ orch'.ckpt = upd.v
        /\ orch'.pc # "resume"
    BY <1>16, <1>a, <1>c, <2>1, UpdDoneEffect
  <2>3. upd.v >= orch.ckpt
    BY <1>16, <1>a, <1>b, UpdDoneEffect DEF OrchInv
  <2> QED
    BY <1>16, <1>a, <1>b, <1>d, <2>1, <2>2, <2>3, UpdDoneEffect
    DEF Early, Together, ReceivedAt, MarkedAt, Passed
<1>17. CASE UNCHANGED vars
  BY <1>1, <1>17 DEF vars, trainVars, orchVars
<1> QED
  BY <1>2, <1>3, <1>4, <1>5, <1>6, <1>7, <1>8, <1>9, <1>10, <1>11, <1>12, <1>13, <1>14, <1>15,
     <1>16, <1>17 DEF Next, Trainer, Orchestrator

-----------------------------------------------------------------------------
LEMMA NextIInv == IInv /\ [Next]_vars => IInv'
  BY TypeNext, RankNext, OrchNext, EngineNext, RpcNext, EarlyNext DEF IInv

LEMMA Invariance == Spec => []IInv
  BY InitIInv, NextIInv, PTL DEF Spec

(* The files, ranks, requests and RPCs of a run over NCCL are what the model
   says, and no worker ever has more than two RPCs waiting for the trainer: the
   one of a request that was given up and the one of the retry.               *)
THEOREM TypeCorrect == Spec => []TypeOK
<1>1. IInv => TypeOK
  BY DEF IInv
<1> QED
  BY <1>1, Invariance, PTL

(* For any number of servers, ranks, steps and resume points: as long as no
   request fails, no rank of the trainer is in the collective of a step it was
   notified of while an engine still serves rollouts (_wait_for_nccl_ready).  *)
THEOREM EnginesArePaused == Spec => []NobodyEarly
<1>1. IInv => NobodyEarly
  <2> SUFFICES ASSUME IInv, faults = 0, NEW r \in Ranks, rank[r].pc = "send",
                      rank[r].step # start, NEW s \in Servers
               PROVE  host[s].paused
    BY DEF NobodyEarly
  <2>a. /\ RankOK /\ FilesOK /\ EngineInv /\ Early
        /\ RankAt(r) /\ RankAt(Master)
    BY TypeParts, StepFacts DEF IInv, RankInv, EarlyInv
  <2>1. rank[r].step \in marked
    BY <2>a DEF RankAt
  <2>2. ~Passed(rank[r].step)
    BY <2>a, RankFacts, StepFacts DEF RankAt, Passed, Broadcasts
  <2>3. upd.pc = "post"
    BY <2>a, <2>1, <2>2 DEF Early, MarkedAt
  <2> QED
    BY <2>a, <2>3 DEF EngineInv
<1> QED
  BY <1>1, Invariance, PTL

(* Whatever requests fail, time out and leave their RPC behind: when ckpt_step
   moves, every worker has the weights of exactly that step (update_weights,
   receive_state_dict).                                                       *)
THEOREM ServedIsWhatItSays == Spec => ServesWhatItSays
<1>1. IInv /\ [Next]_vars => [orch'.ckpt # orch.ckpt =>
                                \A s \in Servers : host[s].weights = orch'.ckpt]_vars
  <2> SUFFICES ASSUME IInv, Next, orch'.ckpt # orch.ckpt
               PROVE  \A s \in Servers : host[s].weights = orch'.ckpt
    OBVIOUS
  <2>a. /\ RankOK /\ FilesOK /\ HostOK /\ PostOK /\ LoopOK /\ FaultsOK /\ EngineInv
        /\ orch.polling => orch.pc = "generate"
    BY TypeParts DEF IInv, RpcInv
  <2>1. CASE UpdDone
    <3>1. orch'.ckpt = upd.v /\ \A s \in Servers : post[s] = "ok"
      BY <2>1, <2>a, UpdDoneEffect DEF UpdFailed
    <3> QED
      BY <2>a, <3>1 DEF EngineInv
  <2>2. CASE PauseFails
    BY <2>2, <2>a, PauseFailsEffect DEF UpdFailed
  <2>3. CASE Barrier \/ Poll \/ SendBatch
    BY <2>3, <2>a, UpdateEffect, SendBatchEffect
  <2>4. ASSUME Trainer \/ Resume \/ UpdStable \/ Post
               \/ \E s \in Servers : Pause(s) \/ PostFails(s) \/ PostTimesOut(s)
        PROVE  UNCHANGED orch
    BY <2>4 DEF Trainer, Skip, Notify, SeeReady, Transfer, Train, Resume, UpdStable, Post, Pause,
                PostFails, PostTimesOut, orchVars
  <2> QED
    BY <2>1, <2>2, <2>3, <2>4 DEF Next, Orchestrator
<1> QED
  BY <1>1, Invariance, PTL DEF Spec, ServesWhatItSays
=============================================================================
