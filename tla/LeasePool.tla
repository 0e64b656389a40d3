----------------------------- MODULE LeasePool -----------------------------
(***************************************************************************)
(* StaticInferencePool (src/src/prime_rl/utils/client.py) with             *)
(* lease_enabled and lease_recovery_enabled: how one orchestrator keeps a  *)
(* set of inference servers on one policy by staging and committing sparse *)
(* deltas, retires the endpoints that fail, and brings them back by a      *)
(* reload of the base model and a replay of every retained delta.          *)
(*                                                                         *)
(* Each endpoint operation is the client coroutine of                      *)
(* _run_endpoint_operations (pause, request, resume) against the handlers  *)
(* of its server, which run in the FIFO order of weight_update_lock.  A    *)
(* client that gives up leaves its request behind: the handler still runs. *)
(*                                                                         *)
(* Abstractions.  Version v is always the delta of base v - 1 (scheduler   *)
(* _stage_policy_update), None and "0" are both 0.  An upload is one       *)
(* request that ends in _register_staged_version; StageServer has the      *)
(* details.  Endpoints are visited in any order.                           *)
(***************************************************************************)
EXTENDS Naturals, Sequences, FiniteSets

CONSTANTS
    Endpoints,     \* the admin clients
    NoEndpoint,    \* no endpoint is being recovered
    MaxVersion,    \* bound: last policy the trainer publishes
    MaxFaults      \* bound: crashes, timeouts, lost answers, failed RPCs and
                   \* failed rollouts of one behaviour, all together

ASSUME PoolAssumption ==
    /\ MaxVersion \in Nat \ {0}
    /\ MaxFaults \in Nat
    /\ NoEndpoint \notin Endpoints
    /\ IsFiniteSet(Endpoints)

Versions == 1 .. MaxVersion
Policies == 0 .. MaxVersion

VARIABLES
    lease,       \* EndpointLeaseRuntime.state
    cooling,     \* quarantine_until lies in the future
    poolActive,  \* _active_version
    stagedAt,    \* _staged_endpoints
    replay,      \* the versions in _delta_replay_entries
    phase,       \* what the holder of _weight_update_lock is doing
    target,      \* the version it stages or commits
    ready,       \* the version the driver has staged and may commit; 0: none
    sel,         \* the endpoints of the gather in progress
    task,        \* endpoint -> its coroutine in that gather
    cur,         \* the endpoint _recover_retired_endpoint works on
    todo,        \* the endpoints the recovery loop has still to probe
    wanted,      \* a caller found no healthy client and waits for the lock
    server,      \* endpoint -> state of its inference server
    faults,      \* faults so far
    lost         \* history: the server died since it last proved its version

poolVars  == <<lease, cooling, poolActive, stagedAt, replay>>
phaseVars == <<phase, target, ready, sel, cur, todo>>
vars == <<poolVars, phaseVars, task, wanted, server, faults, lost>>

LeaseStates == {"healthy", "quarantine", "retired", "recovering"}
Phases == {"idle", "stage", "restage", "commit", "recover"}
Ops == {"stage", "commit", "reload"}

Requests == [op : Ops, v : Policies, live : BOOLEAN]
Servers == [up : BOOLEAN, paused : BOOLEAN, active : Policies, dirty : BOOLEAN,
            staged : SUBSET Versions, queue : Seq(Requests), running : BOOLEAN]
Tasks == [pc : {"pause", "send", "wait", "resume", "done"}, op : Ops, v : Policies,
          ok : BOOLEAN]

TypeOK ==
    /\ lease \in [Endpoints -> LeaseStates]
    /\ cooling \in [Endpoints -> BOOLEAN]
    /\ poolActive \in Policies
    /\ stagedAt \in [Versions -> SUBSET Endpoints]
    /\ replay \subseteq Versions
    /\ phase \in Phases
    /\ target \in Policies /\ ready \in Policies
    /\ sel \subseteq Endpoints
    /\ task \in [Endpoints -> Tasks]
    /\ cur \in Endpoints \cup {NoEndpoint}
    /\ todo \subseteq Endpoints
    /\ wanted \in BOOLEAN
    /\ server \in [Endpoints -> Servers]
    /\ faults \in 0 .. MaxFaults
    /\ lost \in [Endpoints -> BOOLEAN]

Fresh(up) == [up |-> up, paused |-> FALSE, active |-> 0, dirty |-> FALSE,
              staged |-> {}, queue |-> <<>>, running |-> FALSE]
NoTask == [pc |-> "done", op |-> "reload", v |-> 0, ok |-> TRUE]

Init ==
    /\ lease = [e \in Endpoints |-> "healthy"]
    /\ cooling = [e \in Endpoints |-> FALSE]
    /\ poolActive = 0
    /\ stagedAt = [v \in Versions |-> {}]
    /\ replay = {}
    /\ phase = "idle" /\ target = 0 /\ ready = 0 /\ sel = {}
    /\ cur = NoEndpoint /\ todo = {}
    /\ task = [e \in Endpoints |-> NoTask]
    /\ wanted = FALSE
    /\ server = [e \in Endpoints |-> Fresh(TRUE)]
    /\ faults = 0
    /\ lost = [e \in Endpoints |-> FALSE]

Fault == faults < MaxFaults /\ faults' = faults + 1

-----------------------------------------------------------------------------
(* One endpoint operation: a coroutine on the client, a handler on the     *)
(* server.                                                                 *)

(* _commit_with_pause and _reload_with_pause pause first; a stage does not. *)
NewTask(op, v) ==
    [pc |-> IF op = "stage" THEN "send" ELSE "pause", op |-> op, v |-> v, ok |-> TRUE]

(* The request has been answered: `finally: await _resume_engine`. *)
Answered(t, ok) ==
    [t EXCEPT !.pc = IF t.op = "stage" THEN "done" ELSE "resume", !.ok = ok]
Failed(t) == [t EXCEPT !.pc = "done", !.ok = FALSE]

SetTask(e, t) == task' = [task EXCEPT ![e] = t]
SetServer(e, s) == server' = [server EXCEPT ![e] = s]

(* POST /pause comes before the try: if it fails nothing is resumed. *)
Pause(e) ==
    /\ task[e].pc = "pause"
    /\ \/ /\ server[e].up
          /\ SetServer(e, [server[e] EXCEPT !.paused = TRUE])
          /\ SetTask(e, [task[e] EXCEPT !.pc = "send"])
          /\ UNCHANGED faults
       \/ /\ server[e].up /\ Fault        \* the answer is lost
          /\ SetServer(e, [server[e] EXCEPT !.paused = TRUE])
          /\ SetTask(e, Failed(task[e]))
       \/ /\ ~server[e].up
          /\ SetTask(e, Failed(task[e]))
          /\ UNCHANGED <<server, faults>>
    /\ UNCHANGED <<poolVars, phaseVars, wanted, lost>>

(* Mutant: the base of a delta is not compared with the active version. *)
ValidNoBase(s, v) == ~s.dirty
(* _validate_stage_metadata of a delta *)
Valid(s, v) == ~s.dirty /\ s.active = v - 1

(* The request reaches the handler, which joins the queue of the lock; a   *)
(* stage is first validated without the lock.                              *)
Send(e) ==
    LET t == task[e]
        s == server[e]
        rejected == ~s.up \/ (t.op = "stage" /\ ~Valid(s, t.v))
    IN  /\ t.pc = "send"
        /\ IF rejected
           THEN SetTask(e, Answered(t, FALSE)) /\ UNCHANGED server
           ELSE /\ SetTask(e, [t EXCEPT !.pc = "wait"])
                /\ SetServer(e, [s EXCEPT !.queue =
                                   Append(@, [op |-> t.op, v |-> t.v, live |-> TRUE])])
        /\ UNCHANGED <<poolVars, phaseVars, wanted, faults, lost>>

(* The admin timeout fires: the request stays on the server. *)
Abandon(e) ==
    /\ task[e].pc = "wait" /\ Fault
    /\ SetTask(e, Answered(task[e], FALSE))
    /\ LET last == Len(server[e].queue) IN
         SetServer(e, [server[e] EXCEPT !.queue[last].live = FALSE])
    /\ UNCHANGED <<poolVars, phaseVars, wanted, lost>>

(* POST /resume is refused while weights_dirty is up. *)
Resume(e) ==
    LET s == server[e] IN
    /\ task[e].pc = "resume"
    /\ \/ /\ s.up /\ ~s.dirty
          /\ SetServer(e, [s EXCEPT !.paused = FALSE])
          /\ \/ SetTask(e, [task[e] EXCEPT !.pc = "done"]) /\ UNCHANGED faults
             \/ SetTask(e, Failed(task[e])) /\ Fault        \* the answer is lost
       \/ /\ ~s.up \/ s.dirty
          /\ SetTask(e, Failed(task[e]))
          /\ UNCHANGED <<server, faults>>
    /\ UNCHANGED <<poolVars, phaseVars, wanted, lost>>

(* The handler at the head of the queue returns, and its client, if it     *)
(* still waits, learns the outcome.                                        *)
Return(e, s, ok) ==
    /\ SetServer(e, [s EXCEPT !.queue = Tail(@), !.running = FALSE])
    /\ IF Head(s.queue).live THEN SetTask(e, Answered(task[e], ok)) ELSE UNCHANGED task

Serving(e, op) ==
    /\ server[e].queue # <<>> /\ ~server[e].running
    /\ Head(server[e].queue).op = op

(* _register_staged_version *)
Register(e) ==
    /\ Serving(e, "stage")
    /\ LET s == server[e]
           v == Head(s.queue).v
       IN  IF Valid(s, v)
           THEN /\ Return(e, [s EXCEPT !.staged = @ \cup {v}], TRUE)
                /\ lost' = [lost EXCEPT ![e] = FALSE]
           ELSE Return(e, s, FALSE) /\ UNCHANGED lost
    /\ UNCHANGED <<poolVars, phaseVars, wanted, faults>>

(* _commit_weights: refused, already active, or handed to the engine. *)
CommitBegin(e) ==
    /\ Serving(e, "commit")
    /\ LET s == server[e]
           v == Head(s.queue).v
       IN  \/ /\ v \notin s.staged \/ s.dirty \/ (s.active # v /\ s.active # v - 1)
              /\ Return(e, s, FALSE)
           \/ /\ v \in s.staged /\ ~s.dirty /\ s.active = v
              /\ Return(e, [s EXCEPT !.staged = {v}], TRUE)
           \/ /\ v \in s.staged /\ Valid(s, v)
              /\ SetServer(e, [s EXCEPT !.dirty = TRUE, !.running = TRUE])
              /\ UNCHANGED task
    /\ UNCHANGED <<poolVars, phaseVars, wanted, faults, lost>>

ReloadBegin(e) ==
    /\ Serving(e, "reload")
    /\ SetServer(e, [server[e] EXCEPT !.dirty = TRUE, !.running = TRUE])
    /\ UNCHANGED <<poolVars, phaseVars, task, wanted, faults, lost>>

(* The engine RPC of a commit or a reload returns, or raises. *)
EngineDone(e) ==
    LET s == server[e]
        r == Head(s.queue)
        v == IF r.op = "commit" THEN r.v ELSE 0
        kept == IF r.op = "commit" THEN {v} ELSE {}
    IN  /\ s.running
        /\ \/ /\ Return(e, [s EXCEPT !.active = v, !.dirty = FALSE, !.staged = kept], TRUE)
              /\ lost' = [lost EXCEPT ![e] = FALSE]
              /\ UNCHANGED faults
           \/ Return(e, s, FALSE) /\ Fault /\ UNCHANGED lost
        /\ UNCHANGED <<poolVars, phaseVars, wanted>>

(* The server process dies: its requests break off. *)
Crash(e) ==
    /\ server[e].up /\ Fault
    /\ SetServer(e, Fresh(FALSE))
    /\ IF task[e].pc = "wait" THEN SetTask(e, Answered(task[e], FALSE)) ELSE UNCHANGED task
    /\ lost' = [lost EXCEPT ![e] = TRUE]
    /\ UNCHANGED <<poolVars, phaseVars, wanted>>

(* ... and starts again on the base model: custom_init_app_state. *)
Boot(e) ==
    /\ ~server[e].up
    /\ SetServer(e, Fresh(TRUE))
    /\ UNCHANGED <<poolVars, phaseVars, task, wanted, faults, lost>>

-----------------------------------------------------------------------------
(* The pool *)

Healthy == {e \in Endpoints : lease[e] = "healthy"}

(* quarantine_client: a rollout raised on this endpoint, at any time. *)
Quarantine(e) ==
    /\ lease[e] = "healthy" /\ Fault
    /\ lease' = [lease EXCEPT ![e] = "quarantine"]
    /\ cooling' = [cooling EXCEPT ![e] = TRUE]
    /\ UNCHANGED <<poolActive, stagedAt, replay, phaseVars, task, wanted, server, lost>>

(* lease_cooldown_s has passed. *)
CoolDown(e) ==
    /\ cooling[e]
    /\ cooling' = [cooling EXCEPT ![e] = FALSE]
    /\ UNCHANGED <<lease, poolActive, stagedAt, replay, phaseVars, task, wanted,
                   server, faults, lost>>

(* Mutant: failed endpoints stay in the pool. *)
RetireNone(E) == UNCHANGED <<lease, cooling>>
(* _set_endpoint_state(e, "retired") for the endpoints in E *)
Retire(E) ==
    /\ lease' = [e \in Endpoints |-> IF e \in E THEN "retired" ELSE lease[e]]
    /\ cooling' = [e \in Endpoints |-> e \in E \/ cooling[e]]

(* _healthy_admin_clients retires what it finds in quarantine. *)
Quarantined == {e \in Endpoints : lease[e] = "quarantine"}

Gather(E, op, v) ==
    /\ sel' = E
    /\ task' = [e \in Endpoints |-> IF e \in E THEN NewTask(op, v) ELSE task[e]]

GatherDone == \A e \in sel : task[e].pc = "done"
Succeeded == {e \in sel : task[e].ok}

(* stage_weights takes the lock.  With no healthy endpoint it raises, and  *)
(* the driver may try again later.                                         *)
StageStart ==
    /\ phase = "idle" /\ ready = 0 /\ poolActive < MaxVersion
    /\ Retire(Quarantined)
    /\ IF Healthy = {}
       THEN UNCHANGED <<phase, target, sel, task>>
       ELSE /\ phase' = "stage" /\ target' = poolActive + 1
            /\ Gather(Healthy, "stage", poolActive + 1)
    /\ UNCHANGED <<poolActive, stagedAt, replay, ready, cur, todo, wanted, server,
                   faults, lost>>

(* _mark_failed_endpoints_retired, then _staged_endpoints and the replay   *)
(* entry, unless every endpoint failed.                                    *)
StageDone ==
    /\ phase = "stage" /\ GatherDone
    /\ Retire(sel \ Succeeded)
    /\ phase' = "idle"
    /\ IF Succeeded = {}
       THEN UNCHANGED <<stagedAt, replay, ready>>
       ELSE /\ stagedAt' = [stagedAt EXCEPT ![target] = Succeeded]
            /\ replay' = replay \cup {target}
            /\ ready' = target
    /\ UNCHANGED <<poolActive, target, sel, cur, todo, task, wanted, server, faults, lost>>

(* commit_weights: endpoints that came back since the stage get it now. *)
CommitStart ==
    LET missing == Healthy \ stagedAt[ready] IN
    /\ phase = "idle" /\ ready # 0
    /\ Retire(Quarantined)
    /\ target' = ready /\ ready' = 0
    /\ IF Healthy = {}
       THEN UNCHANGED <<phase, sel, task>>
       ELSE IF missing # {}
       THEN phase' = "restage" /\ Gather(missing, "stage", ready)
       ELSE phase' = "commit" /\ Gather(Healthy, "commit", ready)
    /\ UNCHANGED <<poolActive, stagedAt, replay, cur, todo, wanted, server, faults, lost>>

(* The late stage may fail on all of them as long as a healthy one is left. *)
RestageDone ==
    LET left == Healthy \ (sel \ Succeeded) IN
    /\ phase = "restage" /\ GatherDone
    /\ Retire((sel \ Succeeded) \cup (IF Succeeded = {} /\ left = {} THEN {} ELSE Quarantined))
    /\ stagedAt' = [stagedAt EXCEPT ![target] = @ \cup Succeeded]
    /\ IF left = {}
       THEN phase' = "idle" /\ UNCHANGED <<sel, task>>
       ELSE phase' = "commit" /\ Gather(left, "commit", target)
    /\ UNCHANGED <<poolActive, replay, target, ready, cur, todo, wanted, server, faults, lost>>

(* Mutant: only a quarantine ends, a retirement is for good. *)
EligibleQuarantined(l, c) == {e \in Endpoints : l[e] = "quarantine" /\ ~c[e]}
(* The endpoints _recover_unhealthy_endpoints will probe. *)
Eligible(l, c) == {e \in Endpoints : l[e] \in {"quarantine", "retired"} /\ ~c[e]}

(* One endpoint is enough for the pool to move on; the recovery of the     *)
(* others starts under the same lock.                                      *)
CommitDone ==
    /\ phase = "commit" /\ GatherDone
    /\ Retire(sel \ Succeeded)
    /\ IF Succeeded = {}
       THEN phase' = "idle" /\ UNCHANGED <<poolActive, todo>>
       ELSE /\ poolActive' = target
            /\ phase' = "recover" /\ todo' = Eligible(lease', cooling')
    /\ UNCHANGED <<stagedAt, replay, target, ready, sel, cur, task, wanted, server,
                   faults, lost>>

(* get_eval_client and _select_least_loaded_client ask for a recovery when *)
(* they find no healthy client; by the time they get the lock one may be.  *)
WantRecovery ==
    /\ ~wanted /\ Healthy = {}
    /\ wanted' = TRUE
    /\ UNCHANGED <<poolVars, phaseVars, task, server, faults, lost>>

RecoverStart ==
    /\ wanted /\ phase = "idle"
    /\ wanted' = FALSE
    /\ phase' = "recover" /\ todo' = Eligible(lease, cooling)
    /\ UNCHANGED <<poolVars, target, ready, sel, cur, task, server, faults, lost>>

(* Mutant: what was staged on the endpoint before is not forgotten. *)
ForgetNothing(e) == stagedAt
Forget(e) == [v \in Versions |-> stagedAt[v] \ {e}]

(* _recover_retired_endpoint, if /health answers. *)
RecoverProbe(e) ==
    /\ phase = "recover" /\ cur = NoEndpoint /\ e \in todo
    /\ todo' = todo \ {e}
    /\ IF server[e].up
       THEN /\ cur' = e
            /\ lease' = [lease EXCEPT ![e] = "recovering"]
            /\ cooling' = [cooling EXCEPT ![e] = FALSE]
            /\ stagedAt' = Forget(e)
            /\ Gather({e}, "reload", 0)
       ELSE UNCHANGED <<cur, lease, cooling, stagedAt, sel, task>>
    /\ UNCHANGED <<poolActive, replay, phase, target, ready, wanted, server, faults, lost>>

(* Mutant: a failed operation of the replay is overlooked. *)
GoesOnAnyway(t) == TRUE
(* _delta_replay_plan, computed after the reload, raises if it has a gap.  *)
GoesOn(t) == t.ok /\ (t.op = "reload" => 1 .. poolActive \subseteq replay)

(* Mutant: the replay runs one version past the active one. *)
OnePastActive(v) == v <= poolActive
MoreToReplay(v) == v < poolActive

(* Each version of the plan in turn is staged, then committed. *)
ReplayOp(op, v) ==
    /\ Gather({cur}, op, v)
    /\ UNCHANGED <<lease, cooling, cur>>
Recovered ==
    /\ lease' = [lease EXCEPT ![cur] = "healthy"]
    /\ cooling' = [cooling EXCEPT ![cur] = FALSE]
    /\ cur' = NoEndpoint
    /\ UNCHANGED <<sel, task>>
RecoveryFailed ==
    /\ Retire({cur})
    /\ cur' = NoEndpoint
    /\ UNCHANGED <<sel, task>>

(* The operation in progress on the recovering endpoint has ended. *)
RecoverStep ==
    /\ phase = "recover" /\ cur # NoEndpoint /\ task[cur].pc = "done"
    /\ LET t == task[cur] IN
         /\ \/ ~GoesOn(t) /\ RecoveryFailed
            \/ GoesOn(t) /\ t.op = "stage" /\ ReplayOp("commit", t.v)
            \/ GoesOn(t) /\ t.op # "stage" /\ MoreToReplay(t.v) /\ ReplayOp("stage", t.v + 1)
            \/ GoesOn(t) /\ t.op # "stage" /\ ~MoreToReplay(t.v) /\ Recovered
         /\ stagedAt' = IF GoesOn(t) /\ t.op = "commit"
                        THEN [stagedAt EXCEPT ![t.v] = @ \cup {cur}] ELSE stagedAt
    /\ UNCHANGED <<poolActive, replay, phase, target, ready, todo, wanted, server,
                   faults, lost>>

RecoverEnd ==
    /\ phase = "recover" /\ cur = NoEndpoint /\ todo = {}
    /\ phase' = "idle"
    /\ UNCHANGED <<poolVars, target, ready, sel, cur, todo, task, wanted, server,
                   faults, lost>>

-----------------------------------------------------------------------------
Operation(e) == Pause(e) \/ Send(e) \/ Resume(e)
Handle(e) == Register(e) \/ CommitBegin(e) \/ ReloadBegin(e) \/ EngineDone(e)
Driver == StageStart \/ CommitStart \/ WantRecovery
Hold == StageDone \/ RestageDone \/ CommitDone \/ RecoverStep \/ RecoverEnd

Next ==
    \/ \E e \in Endpoints :
         \/ Operation(e) \/ Handle(e) \/ RecoverProbe(e)
         \/ Abandon(e) \/ Crash(e) \/ Boot(e) \/ Quarantine(e) \/ CoolDown(e)
    \/ Driver \/ Hold \/ RecoverStart

Spec == Init /\ [][Next]_vars

(***************************************************************************)
(* Fairness: coroutines and handlers whose await has completed go on, the  *)
(* engine answers, a dead server is started again by its supervisor, the   *)
(* cooldown passes, and a scheduler or an evaluation that finds no healthy *)
(* client asks again every second and is served in the FIFO order of       *)
(* _weight_update_lock.  Nothing obliges the driver to publish a policy.   *)
(***************************************************************************)
Fairness ==
    /\ \A e \in Endpoints :
         /\ WF_vars(Operation(e)) /\ WF_vars(Handle(e)) /\ WF_vars(RecoverProbe(e))
         /\ WF_vars(Boot(e)) /\ WF_vars(CoolDown(e))
    /\ WF_vars(Hold) /\ WF_vars(WantRecovery) /\ SF_vars(RecoverStart)

FairSpec == Spec /\ Fairness
-----------------------------------------------------------------------------
(* Properties *)

Updating(e) == e \in sel /\ task[e].pc # "done" /\ task[e].op # "stage"

(* The policy a healthy endpoint is expected at: the pool's, or, once its own
   commit has been acknowledged, the version the pool is about to adopt. *)
Expected(e) ==
    IF phase = "commit" /\ e \in sel THEN target ELSE poolActive

(* An endpoint that rollouts are routed to, outside of its own commit, whose
   last operation did not just fail and which has not died since it proved its
   version. *)
Trusted == {e \in Healthy : ~lost[e] /\ ~Updating(e) /\ task[e].ok}

(* Every endpoint that rollouts are routed to serves exactly the pool's policy,
   with clean weights and a running engine: a partial failure of a stage or a
   commit, a request that outlives its client, a quarantine at any moment and a
   replay all end in the same policy (_record_admin_results,
   _healthy_admin_clients, _recover_retired_endpoint). *)
HealthyInSync ==
    \A e \in Trusted :
        /\ server[e].active = Expected(e)
        /\ ~server[e].dirty /\ ~server[e].paused

(* The pool knows what its endpoints will do next.  No request of an earlier,
   abandoned operation is waiting on a healthy endpoint to change its weights
   behind the pool's back: the FIFO order of weight_update_lock flushes it
   before the reload that recovery begins with.  And a healthy endpoint noted in
   _staged_endpoints for the version to commit holds that version, whatever was
   recovered between stage and commit. *)
NoSurprise ==
    \A e \in Healthy :
        /\ task[e].ok => \A i \in 1 .. Len(server[e].queue) : server[e].queue[i].live
        /\ (ready # 0 /\ e \in stagedAt[ready] /\ ~lost[e]) => ready \in server[e].staged

(* One link of the weight chain per server, whatever the pool replays. *)
ChainMode(e) ==
    IF server[e].running
    THEN IF Head(server[e].queue).op = "commit" THEN "delta" ELSE "reloading"
    ELSE IF server[e].dirty THEN "broken" ELSE "serving"

Chain(e) == INSTANCE WeightChain WITH policy <- server[e].active, mode <- ChainMode(e)

(* Every server, seen through the requests of this pool, implements WeightChain:
   replay and late stages skip no delta and apply none twice. *)
ImplementsChain ==
    /\ \A e \in Endpoints : Chain(e)!ChainInit
    /\ [][\A e \in Endpoints : [Chain(e)!ChainNext]_(Chain(e)!chainVars)]_vars

(* A pool that has lost every endpoint gets one back: once faults stop, reload
   and replay of the retained deltas succeed from every state they are met in. *)
PoolRecovers == Healthy = {} ~> Healthy # {}
=============================================================================
