--------------------------- MODULE LeasePoolProofs ---------------------------
(***************************************************************************)
(* For any number of endpoints, versions and faults: the lease-managed pool *)
(* is well typed, every endpoint that rollouts are routed to serves the     *)
(* pool's policy, no forgotten request is waiting on it, and every server   *)
(* implements WeightChain.                                                  *)
(*                                                                          *)
(* The argument is local to an endpoint.  QueueSound ties its coroutine to  *)
(* the request queue of its server: only the last request can have a client *)
(* waiting.  TaskSound then says, for an endpoint that is healthy or being  *)
(* recovered and whose operation has not failed, how far its server is:     *)
(* from the policy the operation starts at to the one it ends at.  What the *)
(* operations are is the pool's business (PhaseInv): at every moment all    *)
(* healthy endpoints have last completed an operation that ends at the      *)
(* pool's policy, or are on their way to the next one together.             *)
(***************************************************************************)
EXTENDS LeasePool, SequenceTheorems, TLAPS

(* What can be said of a queue q and the coroutine t that waits for its end. *)
QueueSound(s, t) ==
    /\ \A i \in 1 .. Len(s.queue) : s.queue[i].live <=> (t.pc = "wait" /\ i = Len(s.queue))
    /\ t.pc = "wait" => /\ s.queue # <<>>
                        /\ s.queue[Len(s.queue)].op = t.op /\ s.queue[Len(s.queue)].v = t.v
    /\ t.op = "stage" => t.pc \notin {"pause", "resume"}
    /\ ~t.ok => t.pc \in {"resume", "done"}
    /\ ~s.up => s.queue = <<>>
    /\ s.running => /\ s.queue # <<>> /\ s.dirty
                    /\ Head(s.queue).op # "stage"
                    /\ Head(s.queue).op = "commit" => Head(s.queue).v = s.active + 1

(* The policy an operation starts from, where that matters. *)
From(t) == t.v - 1

(* How far the server is in an operation that has not failed.  gone: it has
   died since it last proved its version. *)
TaskSound(s, t, gone) ==
    /\ t.op = "reload" => t.v = 0
    /\ t.op # "reload" \/ t.pc \in {"resume", "done"} =>
         \A i \in 1 .. Len(s.queue) : s.queue[i].live
    /\ t.op = "stage" => /\ ~s.dirty /\ ~s.paused
                         /\ gone \/ s.active = From(t)
                         /\ t.pc = "done" => gone \/ t.v \in s.staged
    /\ t.op = "commit" =>
         /\ t.pc = "pause" => ~s.paused
         /\ t.pc \in {"pause", "send", "wait"} => /\ gone \/ s.active = From(t)
                                                  /\ ~s.running => ~s.dirty
    /\ t.op # "stage" /\ t.pc \in {"resume", "done"} =>
         /\ ~s.dirty /\ (gone \/ s.active = t.v)
         /\ t.pc = "done" => ~s.paused

Governed(e) == lease[e] = "healthy" \/ e = cur

ServerInv == \A e \in Endpoints :
    QueueSound(server[e], task[e]) /\ (~server[e].up => lost[e])
TaskInv == \A e \in Endpoints :
    Governed(e) /\ task[e].ok => TaskSound(server[e], task[e], lost[e])

(* One gather at a time, over the endpoints in sel. *)
GatherInv ==
    /\ \A e \in Endpoints : task[e].pc # "done" => e \in sel
    /\ phase = "idle" => GatherDone
    /\ phase = "recover" /\ cur = NoEndpoint => GatherDone
    /\ phase \in {"stage", "restage", "commit"} =>
         /\ target = poolActive + 1
         /\ \A e \in sel : task[e].v = target
                           /\ task[e].op = IF phase = "commit" THEN "commit" ELSE "stage"
    /\ phase \in {"stage", "commit"} => Healthy \subseteq sel
    /\ ready # 0 => ready = poolActive + 1 /\ phase \in {"idle", "recover"}

RecoverInv ==
    cur # NoEndpoint =>
        /\ phase = "recover" /\ sel = {cur} /\ lease[cur] = "recovering"
        /\ task[cur].v <= poolActive
        /\ \A v \in Versions : v > poolActive => cur \notin stagedAt[v]

(* Healthy endpoints have completed the operation that ends at the pool's policy. *)
SettledInv ==
    \A e \in Healthy :
        /\ phase # "commit" =>
             task[e].v = IF task[e].op = "stage" THEN poolActive + 1 ELSE poolActive
        /\ phase \in {"idle", "recover"} \/ (phase = "restage" /\ e \notin sel) => task[e].ok
        /\ (ready # 0 /\ e \in stagedAt[ready] /\ ~lost[e]) => ready \in server[e].staged

IInv == TypeOK /\ ServerInv /\ TaskInv /\ GatherInv /\ RecoverInv /\ SettledInv

-----------------------------------------------------------------------------
(* Queues, requests and coroutines as values *)

LEMMA QueueTail ==
  ASSUME NEW S, NEW q \in Seq(S), q # <<>>
  PROVE  /\ Head(q) = q[1] /\ q[1] \in S /\ Len(q) \in Nat \ {0}
         /\ Tail(q) \in Seq(S) /\ Len(Tail(q)) = Len(q) - 1
         /\ \A i \in 1 .. Len(q) - 1 : Tail(q)[i] = q[i + 1]
  BY HeadTailProperties, ElementOfSeq, LenProperties

LEMMA QueueAppend ==
  ASSUME NEW S, NEW q \in Seq(S), NEW r \in S
  PROVE  /\ Append(q, r) \in Seq(S) /\ Len(Append(q, r)) = Len(q) + 1 /\ Len(q) \in Nat
         /\ \A i \in 1 .. Len(q) : Append(q, r)[i] = q[i]
         /\ Append(q, r)[Len(q) + 1] = r
         /\ Append(q, r) # <<>>
         /\ q # <<>> => Head(Append(q, r)) = Head(q)
  BY AppendProperties, LenProperties, SMT

LEMMA EmptyQueue ==
  ASSUME NEW q \in Seq(Requests)
  PROVE  q = <<>> <=> Len(q) = 0
  BY EmptySeq

LEMMA NoIndex ==
  ASSUME NEW q, Len(q) = 0
  PROVE  \A i \in 1 .. Len(q) : FALSE
  OBVIOUS

(* Abandon: the client of the last request has left. *)
GivenUp(q) == [q EXCEPT ![Len(q)].live = FALSE]

LEMMA QueueAbandon ==
  ASSUME NEW q \in Seq(Requests), q # <<>>,
         NEW p, p = GivenUp(q)
  PROVE  /\ p \in Seq(Requests) /\ Len(p) = Len(q) /\ Len(q) \in Nat \ {0}
         /\ \A i \in 1 .. Len(q) : p[i].op = q[i].op /\ p[i].v = q[i].v
         /\ \A i \in 1 .. Len(q) : p[i].live <=> (q[i].live /\ i # Len(q))
         /\ p # <<>> /\ Head(p).op = Head(q).op /\ Head(p).v = Head(q).v
PROOF
<1>1. Len(q) \in Nat \ {0} /\ q \in [1 .. Len(q) -> Requests]
  BY QueueTail, LenProperties
<1>2. q[Len(q)] \in Requests
  BY <1>1
<1>3. [q[Len(q)] EXCEPT !.live = FALSE] \in Requests
  BY <1>2 DEF Requests
<1>4. p = [q EXCEPT ![Len(q)] = [q[Len(q)] EXCEPT !.live = FALSE]]
  BY DEF GivenUp
<1>5. p \in [1 .. Len(q) -> Requests]
  BY <1>1, <1>3, <1>4
<1>6. p \in Seq(Requests) /\ Len(p) = Len(q)
  BY <1>1, <1>5, SeqDef, LenProperties
<1>7. \A i \in 1 .. Len(q) : p[i] = IF i = Len(q) THEN [q[Len(q)] EXCEPT !.live = FALSE] ELSE q[i]
  BY <1>1, <1>4
<1>8. \A i \in 1 .. Len(q) : q[i] \in Requests
  BY <1>1
<1>9. \A i \in 1 .. Len(q) : /\ p[i].op = q[i].op /\ p[i].v = q[i].v
                             /\ p[i].live <=> (q[i].live /\ i # Len(q))
  BY <1>7, <1>8 DEF Requests
<1>10. p # <<>> /\ Head(p) = p[1] /\ Head(q) = q[1]
  BY <1>1, <1>6, QueueTail
<1>11. 1 \in 1 .. Len(q)
  BY <1>1
<1>12. Head(p).op = Head(q).op /\ Head(p).v = Head(q).v
  BY <1>9, <1>10, <1>11, Zenon
<1> QED
  BY <1>1, <1>6, <1>9, <1>10, <1>12, Zenon

LEMMA TaskValues ==
  ASSUME NEW t \in Tasks, NEW b \in BOOLEAN
  PROVE  /\ Answered(t, b) \in Tasks
         /\ Answered(t, b).op = t.op /\ Answered(t, b).v = t.v /\ Answered(t, b).ok = b
         /\ Answered(t, b).pc = IF t.op = "stage" THEN "done" ELSE "resume"
  BY DEF Tasks, Answered

LEMMA FailedValues ==
  ASSUME NEW t \in Tasks
  PROVE  /\ Failed(t) \in Tasks
         /\ Failed(t).op = t.op /\ Failed(t).v = t.v /\ Failed(t).ok = FALSE
         /\ Failed(t).pc = "done"
  BY DEF Tasks, Failed

(* How an operation begins. *)
LEMMA NewTaskValues ==
  ASSUME NEW op \in Ops, NEW v \in Policies
  PROVE  /\ NewTask(op, v) \in Tasks
         /\ NewTask(op, v).op = op /\ NewTask(op, v).v = v /\ NewTask(op, v).ok = TRUE
         /\ NewTask(op, v).pc = IF op = "stage" THEN "send" ELSE "pause"
  BY DEF NewTask, Tasks

LEMMA FreshValues ==
  ASSUME NEW up \in BOOLEAN
  PROVE  /\ Fresh(up) \in Servers
         /\ Fresh(up).up = up /\ Fresh(up).queue = <<>> /\ Fresh(up).running = FALSE
         /\ Fresh(up).dirty = FALSE /\ Fresh(up).paused = FALSE /\ Fresh(up).active = 0
PROOF
<1>1. <<>> \in Seq(Requests) /\ 0 \in Policies
  BY PoolAssumption, EmptySeq DEF Policies
<1> QED
  BY <1>1 DEF Fresh, Servers

-----------------------------------------------------------------------------
(* The steps of one endpoint *)

LocalInv(e) == QueueSound(server[e], task[e]) /\ (~server[e].up => lost[e])

(* A step of endpoint e alone, which does not change what its operation is.   *)
LocalStep(e) ==
    /\ UNCHANGED <<poolVars, phaseVars>>
    /\ wanted' \in BOOLEAN /\ faults' \in 0 .. MaxFaults
    /\ server' = [server EXCEPT ![e] = server'[e]] /\ server'[e] \in Servers
    /\ task' = [task EXCEPT ![e] = task'[e]] /\ task'[e] \in Tasks
    /\ lost' = [lost EXCEPT ![e] = lost'[e]] /\ lost'[e] \in BOOLEAN
    /\ task'[e].op = task[e].op /\ task'[e].v = task[e].v
    /\ task[e].pc = "done" => task'[e] = task[e]
    /\ task'[e].ok => task[e].ok

(* It leaves the endpoint sound, and what is staged on one without requests
   stays there unless the server dies. *)
SoundStep(e) ==
    /\ LocalInv(e)'
    /\ task'[e].ok /\ TaskSound(server[e], task[e], lost[e])
         => TaskSound(server'[e], task'[e], lost'[e])
    /\ server[e].queue = <<>> /\ ~lost'[e]
         => server'[e].staged = server[e].staged /\ ~lost[e]

LEMMA EndpointTypes ==
  ASSUME TypeOK, NEW e \in Endpoints
  PROVE  /\ server[e] \in Servers /\ task[e] \in Tasks /\ lost[e] \in BOOLEAN
         /\ server[e].up \in BOOLEAN /\ server[e].paused \in BOOLEAN
         /\ server[e].active \in Policies /\ server[e].dirty \in BOOLEAN
         /\ server[e].staged \subseteq Versions /\ server[e].queue \in Seq(Requests)
         /\ server[e].running \in BOOLEAN
         /\ task[e].op \in Ops /\ task[e].v \in Policies /\ task[e].ok \in BOOLEAN
         /\ task[e].pc \in {"pause", "send", "wait", "resume", "done"}
         /\ server = [server EXCEPT ![e] = server[e]]
         /\ task = [task EXCEPT ![e] = task[e]]
         /\ lost = [lost EXCEPT ![e] = lost[e]]
         /\ faults \in 0 .. MaxFaults /\ wanted \in BOOLEAN
  BY DEF TypeOK, Servers, Tasks

LEMMA FaultTypes ==
  ASSUME TypeOK, Fault
  PROVE  faults' \in 0 .. MaxFaults
  BY PoolAssumption DEF TypeOK, Fault

LEMMA PauseLocal ==
  ASSUME TypeOK, NEW e \in Endpoints, LocalInv(e), Pause(e)
  PROVE  LocalStep(e) /\ SoundStep(e)
PROOF
<1>0. task[e] \in Tasks
  BY EndpointTypes
<1>1. /\ server'[e] = server[e] \/ (server[e].up /\ server'[e] = [server[e] EXCEPT !.paused = TRUE])
      /\ server' = [server EXCEPT ![e] = server'[e]]
      /\ task[e].pc = "pause"
      /\ task' = [task EXCEPT ![e] = task'[e]]
      /\ task'[e] = Failed(task[e]) \/ task'[e] = [task[e] EXCEPT !.pc = "send"]
      /\ UNCHANGED <<poolVars, phaseVars, wanted, lost>>
  BY EndpointTypes DEF Pause, SetServer, SetTask, TypeOK
<1>2. faults' \in 0 .. MaxFaults
  BY FaultTypes, EndpointTypes DEF Pause
<1>3. /\ server'[e] \in Servers
      /\ server'[e].queue = server[e].queue /\ server'[e].up = server[e].up
      /\ server'[e].dirty = server[e].dirty /\ server'[e].running = server[e].running
      /\ server'[e].active = server[e].active /\ server'[e].staged = server[e].staged
  BY <1>1, EndpointTypes DEF Servers
<1>4. /\ task'[e] \in Tasks /\ task'[e].op = task[e].op /\ task'[e].v = task[e].v
      /\ \/ task'[e].ok = FALSE /\ task'[e].pc = "done"
         \/ task'[e].ok = task[e].ok /\ task'[e].pc = "send"
  <2>1. CASE task'[e] = Failed(task[e])
    BY <1>0, <2>1, FailedValues
  <2>2. CASE task'[e] = [task[e] EXCEPT !.pc = "send"]
    BY <2>2, EndpointTypes DEF Tasks
  <2> QED
    BY <1>1, <2>1, <2>2
<1>5. LocalStep(e)
  BY <1>1, <1>2, <1>3, <1>4, EndpointTypes DEF LocalStep
<1>6. QueueSound(server'[e], task'[e])
  BY <1>1, <1>3, <1>4, EndpointTypes DEF QueueSound, LocalInv
<1>7. ASSUME task'[e].ok, TaskSound(server[e], task[e], lost[e])
      PROVE  TaskSound(server'[e], task'[e], lost'[e])
  BY <1>1, <1>3, <1>4, <1>7, EndpointTypes DEF TaskSound, From, LocalInv, QueueSound
<1> QED
  BY <1>1, <1>3, <1>5, <1>6, <1>7, EndpointTypes DEF SoundStep, LocalInv

LEMMA SendLocal ==
  ASSUME TypeOK, NEW e \in Endpoints, LocalInv(e), Send(e)
  PROVE  LocalStep(e) /\ SoundStep(e)
PROOF
<1> DEFINE s == server[e]
           t == task[e]
           r == [op |-> t.op, v |-> t.v, live |-> TRUE]
<1>0. task[e] \in Tasks
  BY EndpointTypes
<1>1. /\ t.pc = "send"
      /\ \/ task' = [task EXCEPT ![e] = Answered(t, FALSE)] /\ server' = server
         \/ /\ s.up /\ (t.op = "stage" => Valid(s, t.v))
            /\ task' = [task EXCEPT ![e] = [t EXCEPT !.pc = "wait"]]
            /\ server' = [server EXCEPT ![e] = [s EXCEPT !.queue = Append(@, r)]]
      /\ UNCHANGED <<poolVars, phaseVars, wanted, faults, lost>>
  BY DEF Send, SetTask, SetServer
<1>2. CASE task' = [task EXCEPT ![e] = Answered(t, FALSE)] /\ server' = server
  <2>1. task'[e] = Answered(t, FALSE) /\ server'[e] = s /\ lost'[e] = lost[e]
    BY <1>1, <1>2 DEF TypeOK
  <2>2. /\ task'[e] \in Tasks /\ task'[e].op = t.op /\ task'[e].v = t.v /\ task'[e].ok = FALSE
        /\ task'[e].pc = IF t.op = "stage" THEN "done" ELSE "resume"
    BY <1>0, <2>1, TaskValues
  <2>3. LocalStep(e)
    BY <1>1, <1>2, <2>1, <2>2, EndpointTypes DEF LocalStep
  <2>4. QueueSound(server'[e], task'[e])
    BY <1>1, <2>1, <2>2, EndpointTypes DEF QueueSound, LocalInv
  <2> QED
    BY <1>1, <2>1, <2>2, <2>3, <2>4 DEF SoundStep, LocalInv
<1>3. CASE /\ s.up /\ (t.op = "stage" => Valid(s, t.v))
           /\ task' = [task EXCEPT ![e] = [t EXCEPT !.pc = "wait"]]
           /\ server' = [server EXCEPT ![e] = [s EXCEPT !.queue = Append(@, r)]]
  <2>1. /\ task'[e] = [t EXCEPT !.pc = "wait"] /\ lost'[e] = lost[e]
        /\ server'[e] = [s EXCEPT !.queue = Append(@, r)]
    BY <1>1, <1>3 DEF TypeOK
  <2>2. /\ task'[e] \in Tasks /\ task'[e].op = t.op /\ task'[e].v = t.v
        /\ task'[e].ok = t.ok /\ task'[e].pc = "wait"
    BY <2>1, EndpointTypes DEF Tasks
  <2>3. r \in Requests /\ r.op = t.op /\ r.v = t.v /\ r.live = TRUE
    BY EndpointTypes DEF Requests
  <2> HIDE DEF r
  <2>4. /\ server'[e].queue = Append(s.queue, r) /\ server'[e].queue \in Seq(Requests)
        /\ server'[e].up = s.up /\ server'[e].dirty = s.dirty
        /\ server'[e].running = s.running /\ server'[e].paused = s.paused
        /\ server'[e].active = s.active /\ server'[e].staged = s.staged
        /\ server'[e] \in Servers
    <3>1. Append(s.queue, r) \in Seq(Requests)
      BY <2>3, QueueAppend, EndpointTypes
    <3> QED
      BY <2>1, <3>1, EndpointTypes DEF Servers
  <2>5. LocalStep(e)
    BY <1>1, <1>3, <2>1, <2>2, <2>4, EndpointTypes DEF LocalStep
  <2>6. /\ Len(server'[e].queue) = Len(s.queue) + 1 /\ Len(s.queue) \in Nat
        /\ \A i \in 1 .. Len(s.queue) : server'[e].queue[i] = s.queue[i]
        /\ server'[e].queue[Len(s.queue) + 1] = r
        /\ server'[e].queue # <<>>
        /\ s.queue # <<>> => Head(server'[e].queue) = Head(s.queue)
    BY <2>3, <2>4, QueueAppend, EndpointTypes
  <2>7. \A i \in 1 .. Len(s.queue) : s.queue[i].live = FALSE
    BY <1>1, EndpointTypes, ElementOfSeq DEF QueueSound, LocalInv, Requests
  <2>8. \A i \in 1 .. Len(server'[e].queue) :
          server'[e].queue[i].live <=> i = Len(server'[e].queue)
    BY <2>3, <2>6, <2>7
  <2>9. QueueSound(server'[e], task'[e])
    BY <1>1, <1>3, <2>2, <2>3, <2>4, <2>6, <2>8 DEF QueueSound, LocalInv
  <2>10. ASSUME task'[e].ok, TaskSound(server[e], task[e], lost[e])
         PROVE  TaskSound(server'[e], task'[e], lost'[e])
    <3>1. t.op # "reload" => Len(s.queue) = 0
      BY <1>1, <2>6, <2>7, <2>10 DEF TaskSound
    <3>2. t.op # "reload" => \A i \in 1 .. Len(server'[e].queue) : server'[e].queue[i].live
      BY <2>6, <2>8, <3>1
    <3> QED
      BY <1>1, <2>1, <2>2, <2>4, <2>10, <3>2 DEF TaskSound, From
  <2> QED
    BY <1>1, <1>3, <2>1, <2>4, <2>5, <2>6, <2>9, <2>10 DEF SoundStep, LocalInv
<1> QED
  BY <1>1, <1>2, <1>3

LEMMA ResumeLocal ==
  ASSUME TypeOK, NEW e \in Endpoints, LocalInv(e), Resume(e)
  PROVE  LocalStep(e) /\ SoundStep(e)
PROOF
<1>0. task[e] \in Tasks
  BY EndpointTypes
<1>1. /\ task[e].pc = "resume"
      /\ \/ server[e].up /\ ~server[e].dirty /\ server'[e] = [server[e] EXCEPT !.paused = FALSE]
         \/ server'[e] = server[e] /\ task'[e] = Failed(task[e])
      /\ server' = [server EXCEPT ![e] = server'[e]]
      /\ task' = [task EXCEPT ![e] = task'[e]]
      /\ task'[e] = Failed(task[e]) \/ task'[e] = [task[e] EXCEPT !.pc = "done"]
      /\ UNCHANGED <<poolVars, phaseVars, wanted, lost>>
  BY EndpointTypes DEF Resume, SetServer, SetTask, TypeOK
<1>2. faults' \in 0 .. MaxFaults
  BY FaultTypes, EndpointTypes DEF Resume
<1>3. /\ server'[e] \in Servers
      /\ server'[e].queue = server[e].queue /\ server'[e].up = server[e].up
      /\ server'[e].dirty = server[e].dirty /\ server'[e].running = server[e].running
      /\ server'[e].active = server[e].active /\ server'[e].staged = server[e].staged
  BY <1>1, EndpointTypes DEF Servers
<1>4. /\ task'[e] \in Tasks /\ task'[e].op = task[e].op /\ task'[e].v = task[e].v
      /\ task'[e].pc = "done"
      /\ task'[e].ok = FALSE \/ (task'[e].ok = task[e].ok /\ task'[e] # Failed(task[e]))
  <2>1. CASE task'[e] = Failed(task[e])
    BY <1>0, <2>1, FailedValues
  <2>2. CASE task'[e] = [task[e] EXCEPT !.pc = "done"] /\ task'[e] # Failed(task[e])
    BY <2>2, EndpointTypes DEF Tasks
  <2> QED
    BY <1>1, <2>1, <2>2
<1>5. task'[e].ok => /\ task[e].ok /\ server[e].up /\ ~server[e].dirty
                     /\ server'[e].paused = FALSE
  BY <1>1, <1>4, EndpointTypes DEF Servers
<1>6. LocalStep(e)
  BY <1>1, <1>2, <1>3, <1>4, <1>5, EndpointTypes DEF LocalStep
<1>7. QueueSound(server'[e], task'[e])
  BY <1>1, <1>3, <1>4, EndpointTypes DEF QueueSound, LocalInv
<1>8. ASSUME task'[e].ok, TaskSound(server[e], task[e], lost[e])
      PROVE  TaskSound(server'[e], task'[e], lost'[e])
  BY <1>1, <1>3, <1>4, <1>5, <1>8, EndpointTypes DEF TaskSound, From, LocalInv, QueueSound
<1> QED
  BY <1>1, <1>3, <1>6, <1>7, <1>8, EndpointTypes DEF SoundStep, LocalInv

LEMMA AbandonLocal ==
  ASSUME TypeOK, NEW e \in Endpoints, LocalInv(e), Abandon(e)
  PROVE  LocalStep(e) /\ SoundStep(e)
PROOF
<1> DEFINE q == server[e].queue
           p == GivenUp(q)
<1>0. task[e] \in Tasks /\ q \in Seq(Requests)
  BY EndpointTypes
<1>1. /\ task[e].pc = "wait" /\ Fault
      /\ task' = [task EXCEPT ![e] = Answered(task[e], FALSE)]
      /\ server' = [server EXCEPT ![e] = [server[e] EXCEPT !.queue = p]]
      /\ UNCHANGED <<poolVars, phaseVars, wanted, lost>>
  BY EndpointTypes DEF Abandon, SetTask, SetServer, GivenUp
<1>2. q # <<>>
  BY <1>1 DEF LocalInv, QueueSound
<1>3. /\ p \in Seq(Requests) /\ Len(p) = Len(q) /\ Len(q) \in Nat \ {0}
      /\ \A i \in 1 .. Len(q) : p[i].live <=> (q[i].live /\ i # Len(q))
      /\ p # <<>> /\ Head(p).op = Head(q).op /\ Head(p).v = Head(q).v
  BY <1>0, <1>2, QueueAbandon
<1> HIDE DEF p
<1>4. /\ server'[e] = [server[e] EXCEPT !.queue = p]
      /\ task'[e] = Answered(task[e], FALSE) /\ lost'[e] = lost[e]
  BY <1>1 DEF TypeOK
<1>5. /\ server'[e] \in Servers /\ server'[e].queue = p
      /\ server'[e].up = server[e].up /\ server'[e].dirty = server[e].dirty
      /\ server'[e].running = server[e].running
      /\ server'[e].active = server[e].active /\ server'[e].staged = server[e].staged
  BY <1>3, <1>4, EndpointTypes DEF Servers
<1>6. /\ task'[e] \in Tasks /\ task'[e].op = task[e].op /\ task'[e].v = task[e].v
      /\ task'[e].pc = IF task[e].op = "stage" THEN "done" ELSE "resume"
      /\ task'[e].ok = FALSE
  BY <1>0, <1>4, TaskValues
<1>7. faults' \in 0 .. MaxFaults
  BY <1>1, FaultTypes
<1>8. LocalStep(e)
  BY <1>1, <1>4, <1>5, <1>6, <1>7, EndpointTypes DEF LocalStep
<1>9. \A i \in 1 .. Len(p) : ~p[i].live
  BY <1>1, <1>3 DEF LocalInv, QueueSound
<1>10. QueueSound(server'[e], task'[e])
  BY <1>3, <1>5, <1>6, <1>9 DEF QueueSound, LocalInv
<1> QED
  BY <1>2, <1>4, <1>5, <1>6, <1>8, <1>10 DEF SoundStep, LocalInv

(* If an operation has not failed, the request at the head of the queue is its
   own, unless it is a reload, which flushes what was there before it. *)
LEMMA HeadIsOwn ==
  ASSUME NEW s \in Servers, NEW t \in Tasks, NEW gone,
         QueueSound(s, t), TaskSound(s, t, gone), s.queue # <<>>
  PROVE  \/ t.op = "reload" /\ t.pc \in {"pause", "send", "wait"}
         \/ /\ t.pc = "wait" /\ Head(s.queue).live /\ Len(s.queue) = 1
            /\ Head(s.queue).op = t.op /\ Head(s.queue).v = t.v
PROOF
<1>1. s.queue \in Seq(Requests) /\ t.pc \in {"pause", "send", "wait", "resume", "done"}
  BY DEF Servers, Tasks
<1>2. Head(s.queue) = s.queue[1] /\ Len(s.queue) \in Nat \ {0}
  BY <1>1, QueueTail
<1>3. 1 \in 1 .. Len(s.queue)
  BY <1>2
<1>4. SUFFICES ASSUME t.op # "reload" \/ t.pc \in {"resume", "done"}
      PROVE  /\ t.pc = "wait" /\ Head(s.queue).live /\ Len(s.queue) = 1
             /\ Head(s.queue).op = t.op /\ Head(s.queue).v = t.v
  BY <1>1
<1>5. s.queue[1].live
  BY <1>3, <1>4 DEF TaskSound
<1>6. t.pc = "wait" /\ Len(s.queue) = 1
  BY <1>3, <1>5 DEF QueueSound
<1> QED
  BY <1>2, <1>5, <1>6 DEF QueueSound

(* What a handler leaves behind that returns, having made s of its server. *)
Returned(e, s, ok) ==
    /\ server' = [server EXCEPT ![e] = server'[e]] /\ server'[e] \in Servers
    /\ server'[e].up = s.up /\ server'[e].paused = s.paused
    /\ server'[e].active = s.active /\ server'[e].dirty = s.dirty
    /\ server'[e].staged = s.staged
    /\ task' = [task EXCEPT ![e] = task'[e]] /\ task'[e] \in Tasks
    /\ task'[e].op = task[e].op /\ task'[e].v = task[e].v
    /\ task[e].pc = "done" => task'[e] = task[e]
    /\ task'[e].ok => task[e].ok
    /\ QueueSound(server'[e], task'[e])
    /\ \/ task'[e] = task[e] /\ ~Head(s.queue).live
       \/ /\ Head(s.queue).live /\ task[e].pc = "wait" /\ server'[e].queue = <<>>
          /\ Head(s.queue).op = task[e].op /\ Head(s.queue).v = task[e].v
          /\ task'[e].ok = ok
          /\ task'[e].pc = IF task[e].op = "stage" THEN "done" ELSE "resume"

LEMMA ReturnValues ==
  ASSUME TypeOK, NEW e \in Endpoints, NEW s \in Servers, NEW ok \in BOOLEAN,
         QueueSound(server[e], task[e]), s.up = server[e].up,
         s.queue = server[e].queue, s.queue # <<>>, Return(e, s, ok)
  PROVE  Returned(e, s, ok)
PROOF
<1> DEFINE q == s.queue
<1>1. q \in Seq(Requests) /\ task[e] \in Tasks
  BY EndpointTypes
<1>2. /\ Head(q) = q[1] /\ q[1] \in Requests /\ Len(q) \in Nat \ {0}
      /\ Tail(q) \in Seq(Requests) /\ Len(Tail(q)) = Len(q) - 1
      /\ \A i \in 1 .. Len(q) - 1 : Tail(q)[i] = q[i + 1]
  BY <1>1, QueueTail
<1>3. /\ server' = [server EXCEPT ![e] = [s EXCEPT !.queue = Tail(@), !.running = FALSE]]
      /\ IF Head(q).live THEN task' = [task EXCEPT ![e] = Answered(task[e], ok)]
         ELSE task' = task
  BY DEF Return, SetServer, SetTask
<1>4. server'[e] = [s EXCEPT !.queue = Tail(@), !.running = FALSE]
  BY <1>3 DEF TypeOK
<1>5. /\ server'[e] \in Servers /\ server'[e].queue = Tail(q) /\ server'[e].running = FALSE
      /\ server'[e].up = s.up /\ server'[e].paused = s.paused
      /\ server'[e].active = s.active /\ server'[e].dirty = s.dirty
      /\ server'[e].staged = s.staged
  BY <1>2, <1>4 DEF Servers
<1>6. server' = [server EXCEPT ![e] = server'[e]]
  BY <1>3, <1>4
<1>7. s.up
  BY DEF QueueSound
<1>8. 1 \in 1 .. Len(q) /\ \A i \in 1 .. Len(q) - 1 : i + 1 \in 1 .. Len(q)
  BY <1>2
<1>9. CASE ~Head(q).live
  <2>1. task' = task /\ task'[e] = task[e]
    BY <1>3, <1>9
  <2>2. task[e].pc = "wait" => Len(q) # 1
    BY <1>2, <1>8, <1>9 DEF QueueSound
  <2>3. \A i \in 1 .. Len(q) - 1 : Tail(q)[i].live <=> (task[e].pc = "wait" /\ i = Len(q) - 1)
    BY <1>2, <1>8 DEF QueueSound
  <2>4. task[e].pc = "wait" => Len(q) - 1 \in 1 .. Len(q) - 1 /\ Tail(q) # <<>>
    <3> DEFINE n == Len(q)
    <3>0. n \in Nat \ {0} /\ (task[e].pc = "wait" => n # 1) /\ Len(Tail(q)) = n - 1
      BY <1>2, <2>2, Zenon
    <3> HIDE DEF n
    <3>1. task[e].pc = "wait" => n - 1 \in 1 .. n - 1
      BY <3>0
    <3>2. Tail(q) = <<>> <=> Len(Tail(q)) = 0
      BY <1>2, EmptyQueue, Zenon
    <3>3. task[e].pc = "wait" => Len(Tail(q)) # 0
      <4>1. task[e].pc = "wait" => n - 1 # 0
        BY <3>0
      <4> QED
        BY <3>0, <4>1, Zenon
    <3> QED
      BY <3>1, <3>2, <3>3, Zenon DEF n
  <2>5. task[e].pc = "wait" => Tail(q)[Len(q) - 1] = q[Len(q)]
    BY <1>2, <2>4
  <2>6. QueueSound(server'[e], task'[e])
    BY <1>2, <1>5, <1>7, <2>1, <2>3, <2>4, <2>5 DEF QueueSound
  <2> QED
    BY <1>1, <1>5, <1>6, <1>9, <2>1, <2>6, EndpointTypes DEF Returned
<1>10. CASE Head(q).live
  <2>1. task' = [task EXCEPT ![e] = Answered(task[e], ok)] /\ task'[e] = Answered(task[e], ok)
    BY <1>3, <1>10 DEF TypeOK
  <2>2. task[e].pc = "wait" /\ Len(q) = 1
    BY <1>2, <1>8, <1>10, ZenonT(30) DEF QueueSound
  <2>3. server'[e].queue = <<>> /\ Len(server'[e].queue) = 0
    <3>1. Tail(q) = <<>> <=> Len(Tail(q)) = 0
      BY <1>2, EmptyQueue, Zenon
    <3>2. Len(Tail(q)) = 0
      BY <1>2, <2>2
    <3> QED
      BY <1>5, <3>1, <3>2, Zenon
  <2>4. Head(q).op = task[e].op /\ Head(q).v = task[e].v
    BY <1>2, <2>2 DEF QueueSound
  <2>5. /\ task'[e] \in Tasks /\ task'[e].op = task[e].op /\ task'[e].v = task[e].v
        /\ task'[e].ok = ok /\ task'[e].pc = IF task[e].op = "stage" THEN "done" ELSE "resume"
    BY <1>1, <2>1, TaskValues
  <2>6. QueueSound(server'[e], task'[e])
    BY <1>5, <1>7, <2>3, <2>5 DEF QueueSound
  <2>7. task[e].ok /\ task[e].pc # "done"
    BY <2>2 DEF QueueSound
  <2> QED
    BY <1>5, <1>6, <1>10, <2>1, <2>2, <2>3, <2>4, <2>5, <2>6, <2>7 DEF Returned
<1> QED
  BY <1>9, <1>10

(* A handler that returns leaves its endpoint sound, if it reports success only
   where its server has got to the policy that the operation ends at. *)
LEMMA ReturnLocal ==
  ASSUME TypeOK, NEW e \in Endpoints, LocalInv(e), NEW s \in Servers, NEW ok \in BOOLEAN,
         s.up = server[e].up, s.queue = server[e].queue, s.queue # <<>>, Return(e, s, ok),
         UNCHANGED <<poolVars, phaseVars, wanted>>, faults' \in 0 .. MaxFaults,
         lost' = [lost EXCEPT ![e] = lost'[e]], lost'[e] \in BOOLEAN,
         ok => /\ ~s.dirty
               /\ Head(s.queue).op = "stage" =>
                    /\ s.paused = server[e].paused /\ Head(s.queue).v \in s.staged
                    /\ lost'[e] \/ s.active = Head(s.queue).v - 1
               /\ Head(s.queue).op = "commit" => lost'[e] \/ s.active = Head(s.queue).v
               /\ Head(s.queue).op = "reload" => lost'[e] \/ s.active = 0
  PROVE  LocalStep(e) /\ SoundStep(e)
PROOF
<1>1. QueueSound(server[e], task[e])
  BY DEF LocalInv
<1>2. server[e] \in Servers /\ task[e] \in Tasks /\ task[e].op \in Ops
  BY EndpointTypes
<1>3. Returned(e, s, ok)
  BY <1>1, ReturnValues, Zenon
<1>4. server[e].up
  BY <1>1 DEF QueueSound
<1>5. LocalStep(e)
  BY <1>3, EndpointTypes DEF LocalStep, Returned
<1>6. ASSUME task'[e].ok, TaskSound(server[e], task[e], lost[e])
      PROVE  TaskSound(server'[e], task'[e], lost'[e])
  <2>1. \/ task[e].op = "reload" /\ task[e].pc \in {"pause", "send", "wait"}
        \/ Head(s.queue).live
    BY <1>1, <1>2, <1>6, HeadIsOwn
  <2>2. CASE Head(s.queue).live
    <3>1. /\ ok /\ server'[e].queue = <<>> /\ Head(s.queue).op = task[e].op
          /\ Head(s.queue).v = task[e].v
      BY <1>3, <1>6, <2>2 DEF Returned
    <3>2. Len(server'[e].queue) = 0
      BY <3>1
    <3>3. \A i \in 1 .. Len(server'[e].queue) : server'[e].queue[i].live
      BY <3>2
    <3>4. task'[e].pc = IF task[e].op = "stage" THEN "done" ELSE "resume"
      BY <1>3, <2>2 DEF Returned
    <3> QED
      BY <1>2, <1>3, <1>6, <3>1, <3>3, <3>4 DEF TaskSound, From, Returned, Ops
  <2>3. CASE ~Head(s.queue).live
    <3>1. task'[e] = task[e]
      BY <1>3, <2>3 DEF Returned
    <3> QED
      BY <1>6, <2>1, <2>3, <3>1 DEF TaskSound
  <2> QED
    BY <2>2, <2>3
<1> QED
  BY <1>3, <1>4, <1>5, <1>6 DEF SoundStep, LocalInv, Returned

LEMMA HeadTypes ==
  ASSUME TypeOK, NEW e \in Endpoints, server[e].queue # <<>>
  PROVE  Head(server[e].queue).op \in Ops /\ Head(server[e].queue).v \in Policies
PROOF
<1>1. Head(server[e].queue) \in Requests
  BY QueueTail, EndpointTypes
<1> QED
  BY <1>1 DEF Requests

(* _register_staged_version *)
LEMMA RegisterLocal ==
  ASSUME TypeOK, NEW e \in Endpoints, LocalInv(e), Register(e)
  PROVE  LocalStep(e) /\ SoundStep(e)
PROOF
<1> DEFINE s == server[e]
           v == Head(s.queue).v
           r == [s EXCEPT !.staged = @ \cup {v}]
<1>1. /\ s.queue # <<>> /\ ~s.running /\ Head(s.queue).op = "stage"
      /\ UNCHANGED <<poolVars, phaseVars, wanted, faults>>
      /\ \/ Valid(s, v) /\ Return(e, r, TRUE) /\ lost' = [lost EXCEPT ![e] = FALSE]
         \/ ~Valid(s, v) /\ Return(e, s, FALSE) /\ lost' = lost
  BY DEF Register, Serving
<1>2. s \in Servers /\ s.active \in Policies /\ faults' \in 0 .. MaxFaults
  BY <1>1, EndpointTypes
<1>3. v \in Policies
  BY <1>1, HeadTypes
<1>4. CASE Valid(s, v) /\ Return(e, r, TRUE) /\ lost' = [lost EXCEPT ![e] = FALSE]
  <2>1. v \in Versions /\ s.active = v - 1 /\ ~s.dirty
    BY <1>2, <1>3, <1>4, PoolAssumption DEF Valid, Policies, Versions
  <2> HIDE DEF v
  <2>2. /\ r \in Servers /\ r.queue = s.queue /\ r.up = s.up /\ r.paused = s.paused
        /\ r.active = s.active /\ r.dirty = s.dirty /\ r.staged = s.staged \cup {v}
    BY <1>2, <2>1 DEF Servers
  <2> HIDE DEF r
  <2>3. lost'[e] = FALSE /\ lost' = [lost EXCEPT ![e] = lost'[e]]
    BY <1>4 DEF TypeOK
  <2> QED
    BY <1>1, <1>2, <1>4, <2>1, <2>2, <2>3, ReturnLocal DEF v
<1>5. CASE ~Valid(s, v) /\ Return(e, s, FALSE) /\ lost' = lost
  <2>1. lost'[e] \in BOOLEAN /\ lost' = [lost EXCEPT ![e] = lost'[e]]
    BY <1>5, EndpointTypes
  <2> QED
    BY <1>1, <1>2, <1>5, <2>1, ReturnLocal
<1> QED
  BY <1>1, <1>4, <1>5

(* _commit_weights up to the engine RPC *)
LEMMA CommitBeginLocal ==
  ASSUME TypeOK, NEW e \in Endpoints, LocalInv(e), CommitBegin(e)
  PROVE  LocalStep(e) /\ SoundStep(e)
PROOF
<1> DEFINE s == server[e]
           v == Head(s.queue).v
           r == [s EXCEPT !.staged = {v}]
           b == [s EXCEPT !.dirty = TRUE, !.running = TRUE]
<1>1. /\ s.queue # <<>> /\ ~s.running /\ Head(s.queue).op = "commit"
      /\ UNCHANGED <<poolVars, phaseVars, wanted, faults, lost>>
      /\ \/ Return(e, s, FALSE)
         \/ v \in s.staged /\ ~s.dirty /\ s.active = v /\ Return(e, r, TRUE)
         \/ /\ v \in s.staged /\ Valid(s, v)
            /\ server' = [server EXCEPT ![e] = b] /\ task' = task
  BY DEF CommitBegin, Serving, SetServer
<1>2. s \in Servers /\ task[e] \in Tasks /\ s.active \in Policies /\ faults' \in 0 .. MaxFaults
  BY <1>1, EndpointTypes
<1>3. lost'[e] \in BOOLEAN /\ lost'[e] = lost[e] /\ lost' = [lost EXCEPT ![e] = lost'[e]]
  BY <1>1, EndpointTypes
<1>4. CASE Return(e, s, FALSE)
  BY <1>1, <1>2, <1>3, <1>4, ReturnLocal
<1>5. CASE v \in s.staged /\ ~s.dirty /\ s.active = v /\ Return(e, r, TRUE)
  <2>1. v \in Versions
    BY <1>5, EndpointTypes
  <2> HIDE DEF v
  <2>2. /\ r \in Servers /\ r.queue = s.queue /\ r.up = s.up /\ r.paused = s.paused
        /\ r.active = s.active /\ r.dirty = s.dirty
    BY <1>2, <2>1 DEF Servers
  <2> HIDE DEF r
  <2> QED
    BY <1>1, <1>2, <1>3, <1>5, <2>2, ReturnLocal DEF v
<1>6. CASE /\ v \in s.staged /\ Valid(s, v)
           /\ server' = [server EXCEPT ![e] = b] /\ task' = task
  <2>1. server'[e] = b /\ task'[e] = task[e]
    BY <1>6 DEF TypeOK
  <2>2. /\ server'[e] \in Servers /\ server'[e].queue = s.queue /\ server'[e].up = s.up
        /\ server'[e].paused = s.paused /\ server'[e].active = s.active
        /\ server'[e].dirty = TRUE /\ server'[e].running = TRUE
        /\ server'[e].staged = s.staged
    BY <1>2, <2>1 DEF Servers
  <2>3. LocalStep(e)
    BY <1>1, <1>2, <1>3, <1>6, <2>1, <2>2, EndpointTypes DEF LocalStep
  <2>4. s.active + 1 = v
    BY <1>1, <1>2, <1>6, HeadTypes, PoolAssumption DEF Valid, Policies
  <2>5. QueueSound(server'[e], task'[e]) /\ s.up
    BY <1>1, <2>1, <2>2, <2>4 DEF QueueSound, LocalInv
  <2>6. ASSUME TaskSound(s, task[e], lost[e])
        PROVE  TaskSound(server'[e], task'[e], lost'[e])
    <3>1. \/ task[e].op = "reload" /\ task[e].pc \in {"pause", "send", "wait"}
          \/ task[e].pc = "wait" /\ task[e].op = "commit"
      BY <1>1, <1>2, <2>6, HeadIsOwn DEF LocalInv
    <3> QED
      BY <1>3, <2>1, <2>2, <2>6, <3>1 DEF TaskSound, From
  <2> QED
    BY <1>1, <1>3, <2>1, <2>2, <2>3, <2>5, <2>6 DEF SoundStep, LocalInv
<1> QED
  BY <1>1, <1>4, <1>5, <1>6

LEMMA ReloadBeginLocal ==
  ASSUME TypeOK, NEW e \in Endpoints, LocalInv(e), ReloadBegin(e)
  PROVE  LocalStep(e) /\ SoundStep(e)
PROOF
<1> DEFINE s == server[e]
           b == [s EXCEPT !.dirty = TRUE, !.running = TRUE]
<1>1. /\ s.queue # <<>> /\ ~s.running /\ Head(s.queue).op = "reload"
      /\ UNCHANGED <<poolVars, phaseVars, task, wanted, faults, lost>>
      /\ server' = [server EXCEPT ![e] = b]
  BY DEF ReloadBegin, Serving, SetServer
<1>2. s \in Servers /\ task[e] \in Tasks /\ faults' \in 0 .. MaxFaults
  BY <1>1, EndpointTypes
<1>3. server'[e] = b /\ task'[e] = task[e] /\ lost'[e] = lost[e]
  BY <1>1 DEF TypeOK
<1>4. /\ server'[e] \in Servers /\ server'[e].queue = s.queue /\ server'[e].up = s.up
      /\ server'[e].dirty = TRUE /\ server'[e].running = TRUE
  BY <1>2, <1>3 DEF Servers
<1>5. LocalStep(e)
  BY <1>1, <1>2, <1>3, <1>4, EndpointTypes DEF LocalStep
<1>6. QueueSound(server'[e], task'[e]) /\ s.up
  BY <1>1, <1>3, <1>4 DEF QueueSound, LocalInv
<1>7. ASSUME TaskSound(s, task[e], lost[e])
      PROVE  TaskSound(server'[e], task'[e], lost'[e])
  <2>1. task[e].op = "reload" /\ task[e].pc \in {"pause", "send", "wait"}
    BY <1>1, <1>2, <1>7, HeadIsOwn DEF LocalInv
  <2> QED
    BY <1>3, <1>7, <2>1 DEF TaskSound
<1> QED
  BY <1>1, <1>3, <1>4, <1>5, <1>6, <1>7 DEF SoundStep, LocalInv

(* The engine RPC returns or raises. *)
LEMMA EngineDoneLocal ==
  ASSUME TypeOK, NEW e \in Endpoints, LocalInv(e), EngineDone(e)
  PROVE  LocalStep(e) /\ SoundStep(e)
PROOF
<1> DEFINE s == server[e]
           q == Head(s.queue)
           v == IF q.op = "commit" THEN q.v ELSE 0
           kept == IF q.op = "commit" THEN {v} ELSE {}
           r == [s EXCEPT !.active = v, !.dirty = FALSE, !.staged = kept]
<1>1. /\ s.running /\ UNCHANGED <<poolVars, phaseVars, wanted>>
      /\ \/ Return(e, r, TRUE) /\ lost' = [lost EXCEPT ![e] = FALSE] /\ faults' = faults
         \/ Return(e, s, FALSE) /\ Fault /\ lost' = lost
  BY DEF EngineDone
<1>2. s \in Servers /\ s.active \in Policies
  BY EndpointTypes
<1>3. faults' \in 0 .. MaxFaults
  BY <1>1, FaultTypes, EndpointTypes
<1>4. s.queue # <<>> /\ q.op # "stage" /\ (q.op = "commit" => q.v = s.active + 1)
  BY <1>1 DEF LocalInv, QueueSound
<1>5. CASE Return(e, r, TRUE) /\ lost' = [lost EXCEPT ![e] = FALSE]
  <2>1. v \in Policies /\ kept \subseteq Versions
    BY <1>2, <1>4, HeadTypes, PoolAssumption DEF Policies, Versions
  <2>2. (q.op = "commit" => v = q.v) /\ (q.op = "reload" => v = 0)
    OBVIOUS
  <2> HIDE DEF v, kept
  <2>3. /\ r \in Servers /\ r.queue = s.queue /\ r.up = s.up
        /\ r.active = v /\ r.dirty = FALSE
    BY <1>2, <2>1 DEF Servers
  <2> HIDE DEF r
  <2>4. lost'[e] = FALSE /\ lost' = [lost EXCEPT ![e] = lost'[e]]
    BY <1>5 DEF TypeOK
  <2> QED
    BY <1>1, <1>3, <1>4, <1>5, <2>2, <2>3, <2>4, ReturnLocal
<1>6. CASE Return(e, s, FALSE) /\ lost' = lost
  <2>1. lost'[e] \in BOOLEAN /\ lost' = [lost EXCEPT ![e] = lost'[e]]
    BY <1>6, EndpointTypes
  <2> QED
    BY <1>1, <1>2, <1>3, <1>4, <1>6, <2>1, ReturnLocal
<1> QED
  BY <1>1, <1>5, <1>6

(* A server without requests, on the base model. *)
LEMMA FreshLocal ==
  ASSUME TypeOK, NEW e \in Endpoints, LocalInv(e), NEW alive \in BOOLEAN,
         UNCHANGED <<poolVars, phaseVars, wanted>>, faults' \in 0 .. MaxFaults,
         server' = [server EXCEPT ![e] = Fresh(alive)],
         task' = [task EXCEPT ![e] = IF task[e].pc = "wait" THEN Answered(task[e], FALSE)
                                     ELSE task[e]],
         lost' = [lost EXCEPT ![e] = TRUE]
  PROVE  LocalStep(e) /\ SoundStep(e)
PROOF
<1>0. task[e] \in Tasks /\ task[e].op \in Ops
      /\ task[e].pc \in {"pause", "send", "wait", "resume", "done"}
  BY EndpointTypes
<1>1. /\ server'[e] = Fresh(alive) /\ lost'[e] = TRUE /\ lost'[e] \in BOOLEAN
      /\ task'[e] = IF task[e].pc = "wait" THEN Answered(task[e], FALSE) ELSE task[e]
      /\ server' = [server EXCEPT ![e] = server'[e]]
      /\ task' = [task EXCEPT ![e] = task'[e]]
      /\ lost' = [lost EXCEPT ![e] = lost'[e]]
  BY DEF TypeOK
<1>2. /\ server'[e] \in Servers /\ server'[e].queue = <<>> /\ server'[e].running = FALSE
      /\ server'[e].dirty = FALSE /\ server'[e].paused = FALSE /\ server'[e].active = 0
  BY <1>1, FreshValues, ZenonT(30)
<1>3. /\ task'[e] \in Tasks /\ task'[e].op = task[e].op /\ task'[e].v = task[e].v
      /\ task'[e].pc # "wait" /\ (task'[e].ok => task'[e] = task[e])
      /\ task[e].pc = "done" => task'[e] = task[e]
      /\ task'[e].op = "stage" => task'[e].pc \notin {"pause", "resume"}
      /\ ~task'[e].ok => task'[e].pc \in {"resume", "done"}
  <2>1. CASE task[e].pc = "wait"
    <3>1. task'[e] = Answered(task[e], FALSE)
      BY <1>1, <2>1
    <3>2. /\ task'[e] \in Tasks /\ task'[e].op = task[e].op /\ task'[e].v = task[e].v
          /\ task'[e].pc = IF task[e].op = "stage" THEN "done" ELSE "resume"
          /\ ~task'[e].ok
      BY <1>0, <3>1, TaskValues, ZenonT(30)
    <3> QED
      <4>1. task[e].pc # "done"
        BY <2>1
      <4>2. task'[e].op = "stage" => task'[e].pc = "done"
        BY <3>2
      <4>3. task'[e].pc = "done" \/ task'[e].pc = "resume"
        BY <3>2
      <4>4. task'[e].op = "stage" => task'[e].pc \notin {"pause", "resume"}
        BY <4>2
      <4>5. task'[e].pc # "wait" /\ task'[e].pc \in {"resume", "done"}
        BY <4>3
      <4> QED
        BY <3>2, <4>1, <4>4, <4>5, Zenon
  <2>2. CASE task[e].pc # "wait"
    BY <1>0, <1>1, <2>2 DEF LocalInv, QueueSound
  <2> QED
    BY <2>1, <2>2
<1>4. LocalStep(e)
  BY <1>1, <1>2, <1>3, EndpointTypes DEF LocalStep
<1>5. Len(server'[e].queue) = 0
  BY <1>2
<1>6. QueueSound(server'[e], task'[e])
  <2>1. ~server'[e].running
    BY <1>2
  <2>2. \A i \in 1 .. Len(server'[e].queue) :
          server'[e].queue[i].live <=> (task'[e].pc = "wait" /\ i = Len(server'[e].queue))
    BY <1>5
  <2> QED
    BY <1>2, <1>3, <2>1, <2>2, Zenon DEF QueueSound
<1>7. ASSUME task'[e].ok, TaskSound(server[e], task[e], lost[e])
      PROVE  TaskSound(server'[e], task'[e], lost'[e])
  <2>1. lost'[e] /\ ~server'[e].dirty /\ ~server'[e].paused
    BY <1>1, <1>2
  <2>2. \A i \in 1 .. Len(server'[e].queue) : server'[e].queue[i].live
    BY <1>5
  <2>3. task'[e] = task[e]
    BY <1>3, <1>7
  <2>4. task'[e].op = "reload" => task'[e].v = 0
    BY <1>7, <2>3 DEF TaskSound
  <2> QED
    BY <2>1, <2>2, <2>4, Zenon DEF TaskSound
<1> QED
  BY <1>1, <1>4, <1>6, <1>7 DEF SoundStep, LocalInv

LEMMA CrashLocal ==
  ASSUME TypeOK, NEW e \in Endpoints, LocalInv(e), Crash(e)
  PROVE  LocalStep(e) /\ SoundStep(e)
PROOF
<1>1. /\ UNCHANGED <<poolVars, phaseVars, wanted>> /\ Fault
      /\ server' = [server EXCEPT ![e] = Fresh(FALSE)]
      /\ lost' = [lost EXCEPT ![e] = TRUE]
      /\ task' = [task EXCEPT ![e] = IF task[e].pc = "wait" THEN Answered(task[e], FALSE)
                                     ELSE task[e]]
  BY EndpointTypes DEF Crash, SetServer, SetTask
<1>2. faults' \in 0 .. MaxFaults
  BY <1>1, FaultTypes
<1> QED
  BY <1>1, <1>2, FreshLocal

LEMMA BootLocal ==
  ASSUME TypeOK, NEW e \in Endpoints, LocalInv(e), Boot(e)
  PROVE  LocalStep(e) /\ SoundStep(e)
PROOF
<1>1. ~server[e].up /\ UNCHANGED <<poolVars, phaseVars, wanted, task, lost, faults>>
      /\ server' = [server EXCEPT ![e] = Fresh(TRUE)]
  BY DEF Boot, SetServer
<1>2. lost[e] = TRUE /\ lost' = [lost EXCEPT ![e] = TRUE]
  BY <1>1, EndpointTypes DEF LocalInv
<1>3. server[e].queue = <<>> /\ task[e].pc # "wait"
  BY <1>1 DEF LocalInv, QueueSound
<1>4. task' = [task EXCEPT ![e] = IF task[e].pc = "wait" THEN Answered(task[e], FALSE)
                                  ELSE task[e]]
  BY <1>1, <1>3, EndpointTypes
<1>5. faults' \in 0 .. MaxFaults
  BY <1>1, EndpointTypes
<1> QED
  BY <1>1, <1>2, <1>4, <1>5, FreshLocal

EndpointAction(e) ==
    Operation(e) \/ Handle(e) \/ Abandon(e) \/ Crash(e) \/ Boot(e)

LEMMA EndpointLocal ==
  ASSUME TypeOK, NEW e \in Endpoints, LocalInv(e), EndpointAction(e)
  PROVE  LocalStep(e) /\ SoundStep(e)
  BY PauseLocal, SendLocal, ResumeLocal, AbandonLocal, RegisterLocal, CommitBeginLocal,
     ReloadBeginLocal, EngineDoneLocal, CrashLocal, BootLocal
     DEF EndpointAction, Operation, Handle

(* The pool's invariants do not depend on how far an operation is, except that
   it has ended. *)
LEMMA EndpointNext ==
  ASSUME IInv, NEW e \in Endpoints, EndpointAction(e)
  PROVE  IInv'
PROOF
<1>0. TypeOK /\ ServerInv /\ TaskInv /\ GatherInv /\ RecoverInv /\ SettledInv
  BY DEF IInv
<1>1. LocalStep(e) /\ SoundStep(e)
  BY <1>0, EndpointLocal DEF ServerInv, LocalInv
<1>2. \A f \in Endpoints \ {e} :
        server'[f] = server[f] /\ task'[f] = task[f] /\ lost'[f] = lost[f]
  BY <1>0, <1>1 DEF LocalStep, TypeOK
<1>3. /\ server' \in [Endpoints -> Servers] /\ task' \in [Endpoints -> Tasks]
      /\ lost' \in [Endpoints -> BOOLEAN]
  BY <1>0, <1>1 DEF LocalStep, TypeOK
<1>4. TypeOK'
  BY <1>0, <1>1, <1>3 DEF TypeOK, LocalStep, poolVars, phaseVars
<1>5. ServerInv'
  BY <1>0, <1>1, <1>2 DEF ServerInv, SoundStep, LocalInv
<1>6. UNCHANGED <<lease, stagedAt, poolActive, phase, target, ready, sel, cur>>
  BY <1>1 DEF LocalStep, poolVars, phaseVars
<1>7. \A f \in Endpoints : Governed(f)' <=> Governed(f)
  BY <1>6 DEF Governed
<1>8. TaskInv'
  BY <1>0, <1>1, <1>2, <1>7 DEF TaskInv, SoundStep, LocalStep
<1>9. \A f \in Endpoints : /\ task'[f].op = task[f].op /\ task'[f].v = task[f].v
                           /\ task[f].pc = "done" => task'[f] = task[f]
  BY <1>1, <1>2 DEF LocalStep
<1>10. sel \subseteq Endpoints /\ Healthy' = Healthy /\ Healthy \subseteq Endpoints
  BY <1>0, <1>6 DEF TypeOK, Healthy
<1>11. GatherInv'
  BY <1>0, <1>6, <1>9, <1>10 DEF GatherInv, GatherDone
<1>12. RecoverInv'
  BY <1>0, <1>6, <1>9, <1>10 DEF RecoverInv
<1>13. SettledInv'
  <2>1. SUFFICES ASSUME NEW f \in Healthy
        PROVE  /\ phase # "commit" => task'[f].v = IF task'[f].op = "stage"
                                                   THEN poolActive + 1 ELSE poolActive
               /\ phase \in {"idle", "recover"} \/ (phase = "restage" /\ f \notin sel)
                    => task'[f].ok
               /\ (ready # 0 /\ f \in stagedAt[ready] /\ ~lost'[f])
                    => ready \in server'[f].staged
    BY <1>6, <1>10 DEF SettledInv
  <2>2. f \in Endpoints /\ lease[f] = "healthy"
    BY DEF Healthy
  <2>3. phase \in {"idle", "recover"} \/ (phase = "restage" /\ f \notin sel) =>
          task[f].pc = "done"
    BY <1>0, <2>2 DEF GatherInv, GatherDone, RecoverInv
  <2>4. phase \in {"idle", "recover"} \/ (phase = "restage" /\ f \notin sel) => task'[f].ok
    BY <1>0, <1>9, <2>2, <2>3 DEF SettledInv
  <2>5. ASSUME ready # 0, f \in stagedAt[ready], ~lost'[f]
        PROVE  ready \in server'[f].staged
    <3>1. phase \in {"idle", "recover"} /\ task[f].ok /\ task[f].pc = "done"
      BY <1>0, <2>3, <2>5 DEF GatherInv, SettledInv
    <3>2. TaskSound(server[f], task[f], lost[f]) /\ QueueSound(server[f], task[f])
      BY <1>0, <2>2, <3>1 DEF TaskInv, ServerInv, Governed
    <3>3. server[f].queue \in Seq(Requests)
      BY <1>0, <2>2, EndpointTypes
    <3>4. server[f].queue = <<>>
      BY <3>1, <3>2, <3>3, QueueTail DEF TaskSound, QueueSound
    <3>5. server'[f].staged = server[f].staged /\ ~lost[f]
      BY <1>1, <1>2, <2>2, <2>5, <3>4 DEF SoundStep
    <3> QED
      BY <1>0, <2>5, <3>5 DEF SettledInv
  <2> QED
    BY <1>0, <1>9, <2>2, <2>4, <2>5 DEF SettledInv
<1> QED
  BY <1>4, <1>5, <1>8, <1>11, <1>12, <1>13 DEF IInv

-----------------------------------------------------------------------------
(* The steps of the pool *)

LEMMA RetireValues ==
  ASSUME TypeOK, NEW E \in SUBSET Endpoints, Retire(E)
  PROVE  /\ lease' \in [Endpoints -> LeaseStates] /\ cooling' \in [Endpoints -> BOOLEAN]
         /\ \A e \in Endpoints : lease'[e] = IF e \in E THEN "retired" ELSE lease[e]
         /\ Healthy' = Healthy \ E
  BY DEF TypeOK, Retire, LeaseStates, Healthy

(* An operation may begin where the last one has ended. *)
LEMMA NewTaskSound ==
  ASSUME NEW s \in Servers, NEW t \in Tasks, NEW gone \in BOOLEAN,
         NEW op \in Ops, NEW v \in Policies, QueueSound(s, t), t.pc = "done",
         \/ op = "reload" /\ v = 0
         \/ /\ op # "reload" /\ TaskSound(s, t, gone)
            /\ v = IF t.op = "stage" THEN t.v ELSE t.v + 1
  PROVE  QueueSound(s, NewTask(op, v)) /\ TaskSound(s, NewTask(op, v), gone)
PROOF
<1> DEFINE n == NewTask(op, v)
<1>1. /\ n.op = op /\ n.v = v /\ n.ok = TRUE
      /\ n.pc = IF op = "stage" THEN "send" ELSE "pause"
  BY NewTaskValues
<1>2. /\ t.v \in Nat /\ v \in Nat /\ t.op \in Ops /\ s.active \in Nat
      /\ s.dirty \in BOOLEAN /\ s.paused \in BOOLEAN
  BY PoolAssumption DEF Tasks, Servers, Policies
<1> HIDE DEF n
<1>3. QueueSound(s, n)
  BY <1>1, <1>2 DEF QueueSound
<1>4. CASE op = "reload" /\ v = 0
  BY <1>1, <1>3, <1>4 DEF TaskSound, n
<1>5. CASE op # "reload" /\ TaskSound(s, t, gone) /\ v = IF t.op = "stage" THEN t.v ELSE t.v + 1
  <2>1. /\ \A i \in 1 .. Len(s.queue) : s.queue[i].live
        /\ ~s.dirty /\ ~s.paused /\ (gone \/ s.active = v - 1)
    BY <1>2, <1>5 DEF TaskSound, From, Ops
  <2>2. op \in {"stage", "commit"}
    BY <1>5 DEF Ops
  <2>3. TaskSound(s, n, gone)
    BY <1>1, <2>1, <2>2 DEF TaskSound, From
  <2> QED
    BY <1>3, <2>3 DEF n
<1> QED
  BY <1>4, <1>5

LEMMA GatherValues ==
  ASSUME TypeOK, NEW E \in SUBSET Endpoints, NEW op \in Ops, NEW v \in Policies,
         Gather(E, op, v)
  PROVE  /\ sel' = E /\ task' \in [Endpoints -> Tasks]
         /\ \A e \in Endpoints \ E : task'[e] = task[e]
         /\ \A e \in E : task'[e] = NewTask(op, v)
         /\ \A e \in E : task'[e].op = op /\ task'[e].v = v /\ task'[e].ok
  BY NewTaskValues DEF TypeOK, Gather

(* The healthy endpoints of E, which have all ended their last operation and
   stand at the pool's policy, begin the next one. *)
LEMMA GatherHealthy ==
  ASSUME IInv, NEW E \in SUBSET Healthy, NEW op \in {"stage", "commit"},
         Gather(E, op, poolActive + 1), poolActive + 1 \in Policies, phase # "commit",
         \A e \in E : task[e].pc = "done" /\ task[e].ok, UNCHANGED <<server, lost>>
  PROVE  /\ sel' = E /\ task' \in [Endpoints -> Tasks]
         /\ \A e \in Endpoints \ E : task'[e] = task[e]
         /\ \A e \in E : task'[e].op = op /\ task'[e].v = poolActive + 1 /\ task'[e].ok
         /\ ServerInv'
         /\ \A e \in Healthy : task'[e].ok => TaskSound(server[e], task'[e], lost[e])
PROOF
<1>0. TypeOK /\ ServerInv /\ TaskInv /\ SettledInv
  BY DEF IInv
<1>1. E \subseteq Endpoints /\ op \in Ops /\ Healthy \subseteq Endpoints
  BY DEF Healthy, Ops
<1>2. /\ sel' = E /\ task' \in [Endpoints -> Tasks]
      /\ \A e \in Endpoints \ E : task'[e] = task[e]
      /\ \A e \in E : task'[e] = NewTask(op, poolActive + 1)
      /\ \A e \in E : task'[e].op = op /\ task'[e].v = poolActive + 1 /\ task'[e].ok
  BY <1>0, <1>1, GatherValues
<1>3. \A e \in E : QueueSound(server[e], task'[e]) /\ TaskSound(server[e], task'[e], lost[e])
  <2>1. TAKE e \in E
  <2>2. e \in Endpoints /\ Governed(e) /\ e \in Healthy
    BY <1>1 DEF Healthy, Governed
  <2>3. /\ server[e] \in Servers /\ task[e] \in Tasks /\ lost[e] \in BOOLEAN
    BY <1>0, <2>2, EndpointTypes
  <2>4. QueueSound(server[e], task[e]) /\ TaskSound(server[e], task[e], lost[e])
    BY <1>0, <2>2 DEF ServerInv, TaskInv
  <2>5. poolActive + 1 = IF task[e].op = "stage" THEN task[e].v ELSE task[e].v + 1
    BY <1>0, <2>2 DEF SettledInv
  <2>6. op # "reload" /\ task[e].pc = "done"
    OBVIOUS
  <2>7. QueueSound(server[e], NewTask(op, poolActive + 1))
        /\ TaskSound(server[e], NewTask(op, poolActive + 1), lost[e])
    BY <1>1, <2>3, <2>4, <2>5, <2>6, NewTaskSound
  <2> QED
    BY <1>2, <2>7
<1>4. ServerInv'
  BY <1>0, <1>2, <1>3 DEF ServerInv
<1>5. \A e \in Healthy : task'[e].ok => TaskSound(server[e], task'[e], lost[e])
  BY <1>0, <1>1, <1>2, <1>3 DEF TaskInv, Governed, Healthy
<1> QED
  BY <1>2, <1>4, <1>5

LEMMA QuarantineNext ==
  ASSUME IInv, NEW e \in Endpoints, Quarantine(e)
  PROVE  IInv'
PROOF
<1>0. TypeOK /\ ServerInv /\ TaskInv /\ GatherInv /\ RecoverInv /\ SettledInv
  BY DEF IInv
<1>1. /\ lease[e] = "healthy" /\ Fault /\ lease' = [lease EXCEPT ![e] = "quarantine"]
      /\ cooling' = [cooling EXCEPT ![e] = TRUE]
      /\ UNCHANGED <<poolActive, stagedAt, replay, phase, target, ready, sel, cur, todo>>
      /\ UNCHANGED <<task, wanted, server, lost>>
  BY DEF Quarantine, phaseVars
<1>2. faults' \in 0 .. MaxFaults
  BY <1>0, <1>1, FaultTypes
<1>3. TypeOK'
  BY <1>0, <1>1, <1>2 DEF TypeOK, LeaseStates
<1>4. Healthy' \subseteq Healthy /\ \A f \in Endpoints : Governed(f)' => Governed(f)
  BY <1>0, <1>1 DEF Healthy, Governed, TypeOK
<1>5. ServerInv'
  BY <1>0, <1>1 DEF ServerInv
<1>6. TaskInv'
  BY <1>0, <1>1, <1>4 DEF TaskInv
<1>7. GatherInv'
  BY <1>0, <1>1, <1>4 DEF GatherInv, GatherDone
<1>8. RecoverInv'
  BY <1>0, <1>1 DEF RecoverInv, TypeOK
<1>9. SettledInv'
  BY <1>0, <1>1, <1>4 DEF SettledInv
<1> QED
  BY <1>3, <1>5, <1>6, <1>7, <1>8, <1>9 DEF IInv

LEMMA CoolDownNext ==
  ASSUME IInv, NEW e \in Endpoints, CoolDown(e)
  PROVE  IInv'
PROOF
<1>1. /\ cooling' = [cooling EXCEPT ![e] = FALSE]
      /\ UNCHANGED <<lease, poolActive, stagedAt, replay, phase, target, ready, sel, cur>>
      /\ UNCHANGED <<todo, task, wanted, server, faults, lost>>
  BY DEF CoolDown, phaseVars
<1>2. TypeOK'
  BY <1>1 DEF IInv, TypeOK
<1> QED
  BY <1>1, <1>2 DEF IInv, ServerInv, TaskInv, Governed, GatherInv, GatherDone, RecoverInv,
                    SettledInv, Healthy

LEMMA WantRecoveryNext ==
  ASSUME IInv, WantRecovery
  PROVE  IInv'
PROOF
<1>1. /\ wanted' = TRUE
      /\ UNCHANGED <<lease, cooling, poolActive, stagedAt, replay, phase, target, ready, sel>>
      /\ UNCHANGED <<cur, todo, task, server, faults, lost>>
  BY DEF WantRecovery, phaseVars, poolVars
<1>2. TypeOK'
  BY <1>1 DEF IInv, TypeOK
<1> QED
  BY <1>1, <1>2 DEF IInv, ServerInv, TaskInv, Governed, GatherInv, GatherDone, RecoverInv,
                    SettledInv, Healthy

LEMMA StageStartNext ==
  ASSUME IInv, StageStart
  PROVE  IInv'
PROOF
<1>0. TypeOK /\ ServerInv /\ TaskInv /\ GatherInv /\ RecoverInv /\ SettledInv
  BY DEF IInv
<1>1. /\ phase = "idle" /\ ready = 0 /\ poolActive < MaxVersion /\ Retire(Quarantined)
      /\ UNCHANGED <<poolActive, stagedAt, replay, ready, cur, todo, wanted, server, faults, lost>>
      /\ \/ Healthy = {} /\ UNCHANGED <<phase, target, sel, task>>
         \/ /\ phase' = "stage" /\ target' = poolActive + 1
            /\ Gather(Healthy, "stage", poolActive + 1)
  BY DEF StageStart
<1>2. Quarantined \subseteq Endpoints /\ Healthy \subseteq Endpoints
      /\ Healthy \cap Quarantined = {}
  BY DEF Quarantined, Healthy
<1>3. /\ lease' \in [Endpoints -> LeaseStates] /\ cooling' \in [Endpoints -> BOOLEAN]
      /\ Healthy' = Healthy
  BY <1>0, <1>1, <1>2, RetireValues
<1>4. cur = NoEndpoint /\ cur' = NoEndpoint /\ NoEndpoint \notin Endpoints
  BY <1>0, <1>1, PoolAssumption DEF RecoverInv
<1>5. poolActive + 1 \in Policies
  BY <1>0, <1>1, PoolAssumption DEF TypeOK, Policies
<1>6. \A e \in Endpoints : Governed(e)' => e \in Healthy
  BY <1>3, <1>4 DEF Governed, Healthy
<1>7. RecoverInv'
  BY <1>4 DEF RecoverInv
<1>8. CASE Healthy = {} /\ UNCHANGED <<phase, target, sel, task>>
  <2>1. TypeOK'
    BY <1>0, <1>1, <1>3, <1>8 DEF TypeOK
  <2> QED
    BY <1>0, <1>1, <1>3, <1>6, <1>7, <1>8, <2>1
       DEF IInv, ServerInv, TaskInv, GatherInv, GatherDone, SettledInv
<1>9. CASE /\ phase' = "stage" /\ target' = poolActive + 1
           /\ Gather(Healthy, "stage", poolActive + 1)
  <2>1. \A e \in Healthy : task[e].pc = "done" /\ task[e].ok
    BY <1>0, <1>1, <1>2 DEF GatherInv, GatherDone, SettledInv
  <2>2. /\ sel' = Healthy /\ task' \in [Endpoints -> Tasks]
        /\ \A e \in Endpoints \ Healthy : task'[e] = task[e]
        /\ \A e \in Healthy : /\ task'[e].op = "stage" /\ task'[e].v = poolActive + 1
                              /\ task'[e].ok
        /\ ServerInv'
        /\ \A e \in Healthy : task'[e].ok => TaskSound(server[e], task'[e], lost[e])
    BY <1>1, <1>5, <1>9, <2>1, GatherHealthy
  <2>3. TypeOK'
    BY <1>0, <1>1, <1>2, <1>3, <1>5, <1>9, <2>2 DEF TypeOK, Phases
  <2>4. TaskInv'
    BY <1>1, <1>6, <2>2 DEF TaskInv
  <2>5. \A e \in Endpoints \ Healthy : task[e].pc = "done"
    BY <1>0, <1>1 DEF GatherInv, GatherDone
  <2>6. GatherInv'
    BY <1>1, <1>2, <1>3, <1>9, <2>2, <2>5 DEF GatherInv
  <2>7. SettledInv'
    BY <1>1, <1>3, <1>9, <2>2 DEF SettledInv
  <2> QED
    BY <1>7, <2>2, <2>3, <2>4, <2>6, <2>7 DEF IInv
<1> QED
  BY <1>1, <1>8, <1>9

LEMMA StageDoneNext ==
  ASSUME IInv, StageDone
  PROVE  IInv'
PROOF
<1>0. TypeOK /\ ServerInv /\ TaskInv /\ GatherInv /\ RecoverInv /\ SettledInv
  BY DEF IInv
<1>1. /\ phase = "stage" /\ GatherDone /\ Retire(sel \ Succeeded) /\ phase' = "idle"
      /\ UNCHANGED <<poolActive, target, sel, cur, todo, task, wanted, server, faults, lost>>
      /\ \/ Succeeded = {} /\ UNCHANGED <<stagedAt, replay, ready>>
         \/ /\ stagedAt' = [stagedAt EXCEPT ![target] = Succeeded]
            /\ replay' = replay \cup {target} /\ ready' = target
  BY DEF StageDone
<1>2. /\ sel \subseteq Endpoints /\ Succeeded \subseteq sel
      /\ \A e \in Succeeded : task[e].ok
  BY <1>0 DEF TypeOK, Succeeded
<1>3. /\ lease' \in [Endpoints -> LeaseStates] /\ cooling' \in [Endpoints -> BOOLEAN]
      /\ Healthy' = Healthy \ (sel \ Succeeded)
  BY <1>0, <1>1, <1>2, RetireValues
<1>4. /\ target = poolActive + 1 /\ target \in Versions /\ Healthy \subseteq sel
      /\ ready = 0 /\ cur = NoEndpoint /\ NoEndpoint \notin Endpoints
      /\ \A e \in sel : task[e].v = target /\ task[e].op = "stage"
  BY <1>0, <1>1, PoolAssumption DEF GatherInv, RecoverInv, TypeOK, Policies, Versions
<1>5. TypeOK'
  BY <1>0, <1>1, <1>2, <1>3, <1>4 DEF TypeOK, Phases
<1>6. Healthy' \subseteq Healthy /\ Healthy' \subseteq Succeeded
  BY <1>3, <1>4
<1>7. \A e \in Endpoints : Governed(e)' => e \in Healthy'
  BY <1>1, <1>4 DEF Governed, Healthy
<1>8. ServerInv' /\ RecoverInv'
  BY <1>0, <1>1, <1>4 DEF ServerInv, RecoverInv
<1>9. \A e \in Healthy' : /\ e \in Endpoints /\ Governed(e) /\ task[e].ok
                          /\ TaskSound(server[e], task[e], lost[e])
  BY <1>0, <1>2, <1>6 DEF TaskInv, Healthy, Governed
<1>10. TaskInv'
  BY <1>1, <1>7, <1>9 DEF TaskInv
<1>11. GatherInv'
  BY <1>0, <1>1, <1>4 DEF GatherInv, GatherDone
<1>12. SettledInv'
  <2>1. SUFFICES ASSUME NEW e \in Healthy'
        PROVE  /\ task[e].op = "stage" /\ task[e].v = poolActive + 1 /\ task[e].ok
               /\ (ready' # 0 /\ e \in stagedAt'[ready'] /\ ~lost[e])
                    => ready' \in server[e].staged
    BY <1>1 DEF SettledInv
  <2>2. e \in sel /\ task[e].op = "stage" /\ task[e].v = target /\ task[e].pc = "done"
    BY <1>1, <1>2, <1>4, <1>6 DEF GatherDone
  <2>3. ready' # 0 => ready' = target
    BY <1>1, <1>4
  <2> QED
    BY <1>4, <1>9, <2>2, <2>3 DEF TaskSound
<1> QED
  BY <1>5, <1>8, <1>10, <1>11, <1>12 DEF IInv

LEMMA CommitStartNext ==
  ASSUME IInv, CommitStart
  PROVE  IInv'
PROOF
<1> DEFINE missing == Healthy \ stagedAt[ready]
<1>0. TypeOK /\ ServerInv /\ TaskInv /\ GatherInv /\ RecoverInv /\ SettledInv
  BY DEF IInv
<1>1. /\ phase = "idle" /\ ready # 0 /\ Retire(Quarantined)
      /\ target' = ready /\ ready' = 0
      /\ UNCHANGED <<poolActive, stagedAt, replay, cur, todo, wanted, server, faults, lost>>
      /\ \/ Healthy = {} /\ UNCHANGED <<phase, sel, task>>
         \/ phase' = "restage" /\ Gather(missing, "stage", ready)
         \/ phase' = "commit" /\ Gather(Healthy, "commit", ready)
  BY DEF CommitStart
<1>2. Quarantined \subseteq Endpoints /\ Healthy \subseteq Endpoints
      /\ Healthy \cap Quarantined = {}
  BY DEF Quarantined, Healthy
<1>3. /\ lease' \in [Endpoints -> LeaseStates] /\ cooling' \in [Endpoints -> BOOLEAN]
      /\ Healthy' = Healthy
  BY <1>0, <1>1, <1>2, RetireValues, SMTT(30)
<1>4. cur = NoEndpoint /\ cur' = NoEndpoint /\ NoEndpoint \notin Endpoints
  BY <1>0, <1>1, PoolAssumption DEF RecoverInv
<1>5. ready = poolActive + 1 /\ ready \in Policies
  BY <1>0, <1>1 DEF GatherInv, TypeOK
<1>6. \A e \in Endpoints : Governed(e)' => e \in Healthy
  BY <1>3, <1>4 DEF Governed, Healthy
<1>7. RecoverInv'
  BY <1>4 DEF RecoverInv
<1>8. \A e \in Healthy : task[e].pc = "done" /\ task[e].ok
  BY <1>0, <1>1, <1>2 DEF GatherInv, GatherDone, SettledInv
<1>9. CASE Healthy = {} /\ UNCHANGED <<phase, sel, task>>
  <2>1. TypeOK'
    BY <1>0, <1>1, <1>3, <1>5, <1>9, PoolAssumption DEF TypeOK, Policies
  <2> QED
    BY <1>0, <1>1, <1>3, <1>6, <1>7, <1>9, <2>1
       DEF IInv, ServerInv, TaskInv, GatherInv, GatherDone, SettledInv
<1>10. ASSUME NEW E \in SUBSET Healthy, NEW op \in {"stage", "commit"},
              Gather(E, op, ready), phase' = IF op = "commit" THEN "commit" ELSE "restage",
              op = "commit" => E = Healthy
       PROVE  IInv'
  <2>1. /\ sel' = E /\ task' \in [Endpoints -> Tasks]
        /\ \A e \in Endpoints \ E : task'[e] = task[e]
        /\ \A e \in E : task'[e].op = op /\ task'[e].v = poolActive + 1 /\ task'[e].ok
        /\ ServerInv'
        /\ \A e \in Healthy : task'[e].ok => TaskSound(server[e], task'[e], lost[e])
    BY <1>1, <1>5, <1>8, <1>10, GatherHealthy
  <2>2. TypeOK'
    BY <1>0, <1>1, <1>2, <1>3, <1>5, <1>10, <2>1, PoolAssumption DEF TypeOK, Phases, Policies
  <2>3. TaskInv'
    BY <1>1, <1>6, <2>1 DEF TaskInv
  <2>4. \A e \in Endpoints \ E : task[e].pc = "done"
    BY <1>0, <1>1 DEF GatherInv, GatherDone
  <2>5. GatherInv'
    BY <1>1, <1>2, <1>3, <1>5, <1>10, <2>1, <2>4 DEF GatherInv
  <2>6. SettledInv'
    BY <1>0, <1>1, <1>2, <1>3, <1>5, <1>8, <1>10, <2>1 DEF SettledInv
  <2> QED
    BY <1>7, <2>1, <2>2, <2>3, <2>5, <2>6 DEF IInv
<1> QED
  BY <1>1, <1>9, <1>10

LEMMA RestageDoneNext ==
  ASSUME IInv, RestageDone
  PROVE  IInv'
PROOF
<1> DEFINE left == Healthy \ (sel \ Succeeded)
           E == (sel \ Succeeded) \cup (IF Succeeded = {} /\ left = {} THEN {} ELSE Quarantined)
<1>0. TypeOK /\ ServerInv /\ TaskInv /\ GatherInv /\ RecoverInv /\ SettledInv
  BY DEF IInv
<1>1. /\ phase = "restage" /\ GatherDone /\ Retire(E)
      /\ stagedAt' = [stagedAt EXCEPT ![target] = @ \cup Succeeded]
      /\ UNCHANGED <<poolActive, replay, target, ready, cur, todo, wanted, server, faults, lost>>
      /\ \/ left = {} /\ phase' = "idle" /\ UNCHANGED <<sel, task>>
         \/ phase' = "commit" /\ Gather(left, "commit", target)
  BY DEF RestageDone
<1>2. /\ sel \subseteq Endpoints /\ Succeeded \subseteq sel /\ Healthy \subseteq Endpoints
      /\ \A e \in Succeeded : task[e].ok
      /\ E \subseteq Endpoints /\ E \cap Healthy = Healthy \cap (sel \ Succeeded)
  BY <1>0 DEF TypeOK, Succeeded, Quarantined, Healthy
<1> HIDE DEF E
<1>3. /\ lease' \in [Endpoints -> LeaseStates] /\ cooling' \in [Endpoints -> BOOLEAN]
      /\ Healthy' = left
  BY <1>0, <1>1, <1>2, RetireValues
<1>4. /\ target = poolActive + 1 /\ target \in Versions /\ target \in Policies
      /\ ready = 0 /\ cur = NoEndpoint /\ NoEndpoint \notin Endpoints
  BY <1>0, <1>1, PoolAssumption DEF GatherInv, RecoverInv, TypeOK, Policies, Versions
<1>5. \A e \in Endpoints : Governed(e)' => e \in left
  BY <1>1, <1>3, <1>4 DEF Governed, Healthy
<1>6. RecoverInv'
  BY <1>1, <1>4 DEF RecoverInv
<1>7. \A e \in left : e \in Healthy /\ task[e].pc = "done" /\ task[e].ok
  BY <1>0, <1>1, <1>2 DEF GatherInv, GatherDone, SettledInv
<1>8. stagedAt' \in [Versions -> SUBSET Endpoints]
  BY <1>0, <1>1, <1>2 DEF TypeOK
<1>9. CASE left = {} /\ phase' = "idle" /\ UNCHANGED <<sel, task>>
  <2>1. TypeOK'
    BY <1>0, <1>1, <1>3, <1>8, <1>9 DEF TypeOK, Phases
  <2>2. ServerInv' /\ GatherInv'
    BY <1>0, <1>1, <1>4, <1>9 DEF ServerInv, GatherInv, GatherDone
  <2>3. TaskInv' /\ SettledInv'
    BY <1>3, <1>5, <1>9 DEF TaskInv, SettledInv
  <2> QED
    BY <1>6, <2>1, <2>2, <2>3 DEF IInv
<1>10. CASE phase' = "commit" /\ Gather(left, "commit", target)
  <2>1. /\ sel' = left /\ task' \in [Endpoints -> Tasks]
        /\ \A e \in Endpoints \ left : task'[e] = task[e]
        /\ \A e \in left : /\ task'[e].op = "commit" /\ task'[e].v = poolActive + 1
                           /\ task'[e].ok
        /\ ServerInv'
        /\ \A e \in Healthy : task'[e].ok => TaskSound(server[e], task'[e], lost[e])
    BY <1>1, <1>4, <1>7, <1>10, GatherHealthy
  <2>2. TypeOK'
    BY <1>0, <1>1, <1>2, <1>3, <1>8, <1>10, <2>1 DEF TypeOK, Phases
  <2>3. TaskInv'
    BY <1>1, <1>5, <2>1 DEF TaskInv
  <2>4. \A e \in Endpoints \ left : task[e].pc = "done"
    BY <1>0, <1>1 DEF GatherInv, GatherDone
  <2>5. GatherInv'
    BY <1>1, <1>2, <1>3, <1>4, <1>10, <2>1, <2>4 DEF GatherInv
  <2>6. SettledInv'
    BY <1>1, <1>3, <1>4, <1>10, <2>1 DEF SettledInv
  <2> QED
    BY <1>6, <2>1, <2>2, <2>3, <2>5, <2>6 DEF IInv
<1> QED
  BY <1>1, <1>9, <1>10

LEMMA CommitDoneNext ==
  ASSUME IInv, CommitDone
  PROVE  IInv'
PROOF
<1>0. TypeOK /\ ServerInv /\ TaskInv /\ GatherInv /\ RecoverInv /\ SettledInv
  BY DEF IInv
<1>1. /\ phase = "commit" /\ GatherDone /\ Retire(sel \ Succeeded)
      /\ UNCHANGED <<stagedAt, replay, target, ready, sel, cur, task, wanted, server, faults, lost>>
      /\ \/ Succeeded = {} /\ phase' = "idle" /\ UNCHANGED <<poolActive, todo>>
         \/ /\ poolActive' = target /\ phase' = "recover"
            /\ todo' = Eligible(lease', cooling')
  BY DEF CommitDone
<1>2. /\ sel \subseteq Endpoints /\ Succeeded \subseteq sel
      /\ \A e \in Succeeded : task[e].ok
  BY <1>0 DEF TypeOK, Succeeded
<1>3. /\ lease' \in [Endpoints -> LeaseStates] /\ cooling' \in [Endpoints -> BOOLEAN]
      /\ Healthy' = Healthy \ (sel \ Succeeded)
  BY <1>0, <1>1, <1>2, RetireValues
<1>4. /\ target = poolActive + 1 /\ target \in Policies /\ Healthy \subseteq sel
      /\ ready = 0 /\ cur = NoEndpoint /\ NoEndpoint \notin Endpoints
      /\ \A e \in sel : task[e].v = target /\ task[e].op = "commit"
  BY <1>0, <1>1, PoolAssumption DEF GatherInv, RecoverInv, TypeOK
<1>5. TypeOK'
  BY <1>0, <1>1, <1>3, <1>4 DEF TypeOK, Phases, Eligible
<1>6. Healthy' \subseteq Healthy /\ Healthy' \subseteq Succeeded
  BY <1>3, <1>4
<1>7. \A e \in Endpoints : Governed(e)' => e \in Healthy'
  BY <1>1, <1>4 DEF Governed, Healthy
<1>8. ServerInv' /\ RecoverInv'
  BY <1>0, <1>1, <1>4 DEF ServerInv, RecoverInv
<1>9. \A e \in Healthy' : /\ e \in Endpoints /\ task[e].ok
                          /\ TaskSound(server[e], task[e], lost[e])
  BY <1>0, <1>2, <1>6 DEF TaskInv, Healthy, Governed
<1>10. TaskInv'
  BY <1>1, <1>7, <1>9 DEF TaskInv
<1>11. GatherInv'
  BY <1>0, <1>1, <1>4 DEF GatherInv, GatherDone
<1>12. SettledInv'
  BY <1>1, <1>2, <1>4, <1>6, <1>9 DEF SettledInv
<1> QED
  BY <1>5, <1>8, <1>10, <1>11, <1>12 DEF IInv

LEMMA RecoverStartNext ==
  ASSUME IInv, RecoverStart
  PROVE  IInv'
PROOF
<1>0. TypeOK /\ ServerInv /\ TaskInv /\ GatherInv /\ RecoverInv /\ SettledInv
  BY DEF IInv
<1>1. /\ phase = "idle" /\ phase' = "recover" /\ wanted' = FALSE
      /\ todo' = Eligible(lease, cooling)
      /\ UNCHANGED <<lease, cooling, poolActive, stagedAt, replay, target, ready, sel, cur>>
      /\ UNCHANGED <<task, server, faults, lost>>
  BY DEF RecoverStart, poolVars
<1>2. TypeOK'
  BY <1>0, <1>1 DEF TypeOK, Phases, Eligible
<1>3. ServerInv' /\ TaskInv' /\ RecoverInv'
  BY <1>0, <1>1 DEF ServerInv, TaskInv, Governed, RecoverInv
<1>4. GatherInv'
  BY <1>0, <1>1 DEF GatherInv, GatherDone
<1>5. SettledInv'
  BY <1>0, <1>1 DEF SettledInv, Healthy
<1> QED
  BY <1>2, <1>3, <1>4, <1>5 DEF IInv

LEMMA RecoverEndNext ==
  ASSUME IInv, RecoverEnd
  PROVE  IInv'
PROOF
<1>0. TypeOK /\ ServerInv /\ TaskInv /\ GatherInv /\ RecoverInv /\ SettledInv
  BY DEF IInv
<1>1. /\ phase = "recover" /\ phase' = "idle" /\ cur = NoEndpoint
      /\ UNCHANGED <<lease, cooling, poolActive, stagedAt, replay, target, ready, sel, cur>>
      /\ UNCHANGED <<todo, wanted, task, server, faults, lost>>
  BY DEF RecoverEnd, poolVars
<1>2. TypeOK'
  BY <1>0, <1>1 DEF TypeOK, Phases
<1>3. ServerInv' /\ TaskInv' /\ RecoverInv'
  BY <1>0, <1>1 DEF ServerInv, TaskInv, Governed, RecoverInv
<1>4. GatherInv'
  BY <1>0, <1>1 DEF GatherInv, GatherDone
<1>5. SettledInv'
  BY <1>0, <1>1 DEF SettledInv, Healthy
<1> QED
  BY <1>2, <1>3, <1>4, <1>5 DEF IInv

LEMMA RecoverProbeNext ==
  ASSUME IInv, NEW e \in Endpoints, RecoverProbe(e)
  PROVE  IInv'
PROOF
<1>0. TypeOK /\ ServerInv /\ TaskInv /\ GatherInv /\ RecoverInv /\ SettledInv
  BY DEF IInv
<1>1. /\ phase = "recover" /\ phase' = phase /\ cur = NoEndpoint /\ todo' = todo \ {e}
      /\ UNCHANGED <<poolActive, replay, target, ready, wanted, server, faults, lost>>
      /\ \/ UNCHANGED <<cur, lease, cooling, stagedAt, sel, task>>
         \/ /\ cur' = e /\ lease' = [lease EXCEPT ![e] = "recovering"]
            /\ cooling' = [cooling EXCEPT ![e] = FALSE]
            /\ stagedAt' = Forget(e) /\ Gather({e}, "reload", 0)
  BY DEF RecoverProbe
<1>2. CASE UNCHANGED <<cur, lease, cooling, stagedAt, sel, task>>
  <2>1. TypeOK'
    BY <1>0, <1>1, <1>2 DEF TypeOK
  <2> QED
    BY <1>0, <1>1, <1>2, <2>1 DEF IInv, ServerInv, TaskInv, Governed, GatherInv, GatherDone,
                                  RecoverInv, SettledInv, Healthy
<1>3. CASE /\ cur' = e /\ lease' = [lease EXCEPT ![e] = "recovering"]
           /\ cooling' = [cooling EXCEPT ![e] = FALSE]
           /\ stagedAt' = Forget(e) /\ Gather({e}, "reload", 0)
  <2>1. 0 \in Policies /\ "reload" \in Ops /\ {e} \in SUBSET Endpoints /\ poolActive >= 0
    BY <1>0, PoolAssumption DEF Policies, Ops, TypeOK
  <2>2. /\ sel' = {e} /\ task' \in [Endpoints -> Tasks]
        /\ \A f \in Endpoints \ {e} : task'[f] = task[f]
        /\ task'[e] = NewTask("reload", 0)
        /\ task'[e].op = "reload" /\ task'[e].v = 0 /\ task'[e].ok
    <3> DEFINE E == {e}
    <3>1. E \in SUBSET Endpoints /\ Gather(E, "reload", 0) /\ e \in E
      BY <1>3, <2>1
    <3> HIDE DEF E
    <3>2. /\ sel' = E /\ task' \in [Endpoints -> Tasks]
          /\ \A f \in Endpoints \ E : task'[f] = task[f]
          /\ \A f \in E : task'[f] = NewTask("reload", 0)
          /\ \A f \in E : task'[f].op = "reload" /\ task'[f].v = 0 /\ task'[f].ok
      BY <1>0, <2>1, <3>1, GatherValues
    <3> QED
      BY <3>1, <3>2 DEF E
  <2>3. \A f \in Endpoints : task[f].pc = "done"
    BY <1>0, <1>1 DEF GatherInv, GatherDone
  <2>4. QueueSound(server[e], task'[e]) /\ TaskSound(server[e], task'[e], lost[e])
    <3>1. server[e] \in Servers /\ task[e] \in Tasks /\ lost[e] \in BOOLEAN
      BY <1>0, EndpointTypes
    <3>2. QueueSound(server[e], task[e]) /\ task[e].pc = "done"
      BY <1>0, <2>3 DEF ServerInv
    <3> QED
      BY <2>1, <2>2, <3>1, <3>2, NewTaskSound
  <2>5. /\ stagedAt' \in [Versions -> SUBSET Endpoints]
        /\ \A v \in Versions : stagedAt'[v] = stagedAt[v] \ {e}
    BY <1>0, <1>3 DEF TypeOK, Forget
  <2>6. TypeOK'
    BY <1>0, <1>1, <1>3, <2>2, <2>5 DEF TypeOK, LeaseStates
  <2>7. Healthy' \subseteq Healthy \ {e} /\ Healthy \subseteq Endpoints
    BY <1>0, <1>3 DEF Healthy, TypeOK
  <2>8. \A f \in Endpoints : Governed(f)' => f = e \/ f \in Healthy'
    BY <1>3 DEF Governed, Healthy
  <2>9. ServerInv'
    BY <1>0, <1>1, <2>2, <2>4 DEF ServerInv
  <2>10. TaskInv'
    <3>1. ASSUME NEW f \in Healthy', task'[f].ok
          PROVE  TaskSound(server[f], task'[f], lost[f])
      BY <1>0, <2>2, <2>7, <3>1 DEF TaskInv, Governed, Healthy
    <3> QED
      BY <1>1, <2>4, <2>8, <3>1 DEF TaskInv
  <2>11. GatherInv'
    BY <1>0, <1>1, <1>3, <2>2, <2>3, PoolAssumption DEF GatherInv, GatherDone
  <2>12. RecoverInv'
    BY <1>0, <1>1, <1>3, <2>1, <2>2, <2>5 DEF RecoverInv, TypeOK
  <2>13. SettledInv'
    <3>1. ready' # 0 => ready' \in Versions
      BY <1>0, <1>1, PoolAssumption DEF TypeOK, Policies, Versions
    <3> QED
      BY <1>0, <1>1, <2>2, <2>5, <2>7, <3>1 DEF SettledInv
  <2> QED
    BY <2>6, <2>9, <2>10, <2>11, <2>12, <2>13 DEF IInv
<1> QED
  BY <1>1, <1>2, <1>3

LEMMA RecoverStepNext ==
  ASSUME IInv, RecoverStep
  PROVE  IInv'
PROOF
<1> DEFINE t == task[cur]
<1>0. TypeOK /\ ServerInv /\ TaskInv /\ GatherInv /\ RecoverInv /\ SettledInv
  BY DEF IInv
<1>1. /\ phase = "recover" /\ cur # NoEndpoint /\ t.pc = "done"
      /\ \/ ~GoesOn(t) /\ RecoveryFailed
         \/ GoesOn(t) /\ t.op = "stage" /\ ReplayOp("commit", t.v)
         \/ GoesOn(t) /\ t.op # "stage" /\ MoreToReplay(t.v) /\ ReplayOp("stage", t.v + 1)
         \/ GoesOn(t) /\ t.op # "stage" /\ ~MoreToReplay(t.v) /\ Recovered
      /\ stagedAt' = IF GoesOn(t) /\ t.op = "commit"
                     THEN [stagedAt EXCEPT ![t.v] = @ \cup {cur}] ELSE stagedAt
      /\ UNCHANGED <<poolActive, replay, phase, target, ready, todo, wanted, server, faults, lost>>
  BY DEF RecoverStep
<1>2. /\ cur \in Endpoints /\ sel = {cur} /\ lease[cur] = "recovering"
      /\ t.v <= poolActive /\ t.v \in Policies /\ poolActive \in Policies /\ t \in Tasks
      /\ \A v \in Versions : v > poolActive => cur \notin stagedAt[v]
  BY <1>0, <1>1, EndpointTypes DEF RecoverInv, TypeOK
<1>3. \A e \in Endpoints : task[e].pc = "done"
  BY <1>0, <1>1, <1>2 DEF GatherInv
<1>4. cur \notin Healthy /\ Healthy \subseteq Endpoints
  BY <1>2 DEF Healthy
<1>5. /\ stagedAt' \in [Versions -> SUBSET Endpoints]
      /\ \A v \in Versions : v > poolActive => stagedAt'[v] = stagedAt[v]
  <2>1. \A v \in Policies : v > poolActive => v # t.v
    BY <1>2, PoolAssumption DEF Policies
  <2> QED
    BY <1>0, <1>1, <1>2, <2>1 DEF TypeOK, Versions, Policies
<1>6. ready # 0 => ready \in Versions /\ ready > poolActive
  BY <1>0, PoolAssumption DEF TypeOK, Policies, Versions, GatherInv
<1>7. GoesOn(t) => t.ok /\ TaskSound(server[cur], t, lost[cur])
  BY <1>0, <1>2 DEF GoesOn, TaskInv, Governed
<1>8. CASE RecoveryFailed
  <2>1. Retire({cur}) /\ cur' = NoEndpoint /\ sel' = sel /\ task' = task
    BY <1>8 DEF RecoveryFailed
  <2>2. /\ lease' \in [Endpoints -> LeaseStates] /\ cooling' \in [Endpoints -> BOOLEAN]
        /\ Healthy' = Healthy
    <3> DEFINE E == {cur}
    <3>1. E \in SUBSET Endpoints /\ Retire(E)
      BY <1>2, <2>1
    <3> HIDE DEF E
    <3>2. /\ lease' \in [Endpoints -> LeaseStates] /\ cooling' \in [Endpoints -> BOOLEAN]
          /\ Healthy' = Healthy \ E
      BY <1>0, <3>1, RetireValues
    <3> QED
      BY <1>4, <3>2 DEF E
  <2>3. TypeOK'
    BY <1>0, <1>1, <1>5, <2>1, <2>2 DEF TypeOK
  <2>4. ServerInv' /\ GatherInv' /\ RecoverInv'
    BY <1>0, <1>1, <1>3, <2>1, <2>2 DEF ServerInv, GatherInv, GatherDone, RecoverInv, TypeOK
  <2>5. TaskInv'
    BY <1>0, <1>1, <2>1, <2>2, PoolAssumption DEF TaskInv, Governed, Healthy
  <2>6. SettledInv'
    BY <1>0, <1>1, <1>5, <1>6, <2>1, <2>2 DEF SettledInv
  <2> QED
    BY <2>3, <2>4, <2>5, <2>6 DEF IInv
<1>9. ASSUME NEW op \in {"stage", "commit"}, NEW v \in Policies, ReplayOp(op, v), GoesOn(t),
             v = (IF t.op = "stage" THEN t.v ELSE t.v + 1), v <= poolActive
      PROVE  IInv'
  <2>1. Gather({cur}, op, v) /\ lease' = lease /\ cooling' = cooling /\ cur' = cur
    BY <1>9 DEF ReplayOp
  <2>2. op \in Ops /\ {cur} \in SUBSET Endpoints /\ op # "reload"
    BY <1>2 DEF Ops
  <2>3. /\ sel' = {cur} /\ task' \in [Endpoints -> Tasks]
        /\ \A f \in Endpoints \ {cur} : task'[f] = task[f]
        /\ task'[cur] = NewTask(op, v) /\ task'[cur].v = v
    <3> DEFINE E == {cur}
    <3>1. E \in SUBSET Endpoints /\ Gather(E, op, v) /\ cur \in E
      BY <2>1, <2>2
    <3> HIDE DEF E
    <3>2. /\ sel' = E /\ task' \in [Endpoints -> Tasks]
          /\ \A f \in Endpoints \ E : task'[f] = task[f]
          /\ \A f \in E : task'[f] = NewTask(op, v)
          /\ \A f \in E : task'[f].op = op /\ task'[f].v = v /\ task'[f].ok
      BY <1>0, <2>2, <3>1, GatherValues
    <3> QED
      BY <3>1, <3>2 DEF E
  <2>4. QueueSound(server[cur], task'[cur]) /\ TaskSound(server[cur], task'[cur], lost[cur])
    <3>1. server[cur] \in Servers /\ lost[cur] \in BOOLEAN /\ QueueSound(server[cur], t)
      BY <1>0, <1>2, EndpointTypes DEF ServerInv
    <3> QED
      BY <1>1, <1>2, <1>7, <1>9, <2>2, <2>3, <3>1, NewTaskSound
  <2>5. Healthy' = Healthy
    BY <2>1 DEF Healthy
  <2>6. TypeOK'
    BY <1>0, <1>1, <1>2, <1>5, <2>1, <2>3 DEF TypeOK
  <2>7. ServerInv'
    BY <1>0, <1>1, <2>3, <2>4 DEF ServerInv
  <2>8. TaskInv'
    BY <1>0, <1>1, <2>1, <2>3, <2>4 DEF TaskInv, Governed
  <2>9. GatherInv'
    BY <1>0, <1>1, <1>3, <2>1, <2>3, <2>5 DEF GatherInv
  <2>10. RecoverInv'
    BY <1>1, <1>2, <1>5, <1>9, <2>1, <2>3 DEF RecoverInv
  <2>11. SettledInv'
    BY <1>0, <1>1, <1>4, <1>5, <1>6, <2>3, <2>5 DEF SettledInv
  <2> QED
    BY <2>6, <2>7, <2>8, <2>9, <2>10, <2>11 DEF IInv
<1>10. CASE GoesOn(t) /\ t.op # "stage" /\ ~MoreToReplay(t.v) /\ Recovered
  <2>1. /\ lease' = [lease EXCEPT ![cur] = "healthy"] /\ cooling' = [cooling EXCEPT ![cur] = FALSE]
        /\ cur' = NoEndpoint /\ sel' = sel /\ task' = task
    BY <1>10 DEF Recovered
  <2>2. t.v = poolActive
    BY <1>2, <1>10, PoolAssumption DEF MoreToReplay, Policies
  <2>3. Healthy' = Healthy \cup {cur}
    BY <1>0, <1>2, <2>1 DEF Healthy, TypeOK
  <2>4. TypeOK'
    BY <1>0, <1>1, <1>5, <2>1 DEF TypeOK, LeaseStates
  <2>5. ServerInv' /\ GatherInv' /\ RecoverInv'
    BY <1>0, <1>1, <1>3, <2>1 DEF ServerInv, GatherInv, GatherDone, RecoverInv, TypeOK
  <2>6. \A e \in Endpoints : Governed(e)' => Governed(e)
    BY <1>0, <2>1, PoolAssumption DEF Governed, TypeOK
  <2>7. TaskInv'
    BY <1>0, <1>1, <2>1, <2>6 DEF TaskInv
  <2>8. SettledInv'
    <3>1. SUFFICES ASSUME NEW e \in Healthy'
          PROVE  /\ task[e].v = IF task[e].op = "stage" THEN poolActive + 1 ELSE poolActive
                 /\ task[e].ok
                 /\ (ready # 0 /\ e \in stagedAt'[ready] /\ ~lost[e])
                      => ready \in server[e].staged
      BY <1>1, <2>1 DEF SettledInv
    <3>2. CASE e = cur
      BY <1>2, <1>5, <1>6, <1>7, <1>10, <2>2, <3>2
    <3>3. CASE e \in Healthy
      BY <1>0, <1>1, <1>5, <1>6, <3>3 DEF SettledInv
    <3> QED
      BY <2>3, <3>2, <3>3
  <2> QED
    BY <2>4, <2>5, <2>7, <2>8 DEF IInv
<1>11. CASE GoesOn(t) /\ t.op = "stage" /\ ReplayOp("commit", t.v)
  BY <1>2, <1>9, <1>11
<1>12. CASE GoesOn(t) /\ t.op # "stage" /\ MoreToReplay(t.v) /\ ReplayOp("stage", t.v + 1)
  <2>1. t.v + 1 \in Policies /\ t.v + 1 <= poolActive
    BY <1>2, <1>12, PoolAssumption DEF MoreToReplay, Policies
  <2> QED
    BY <1>9, <1>12, <2>1
<1> QED
  BY <1>1, <1>8, <1>10, <1>11, <1>12

LEMMA InitIInv == Init => IInv
PROOF
<1> SUFFICES ASSUME Init PROVE IInv
  OBVIOUS
<1>1. /\ Fresh(TRUE) \in Servers /\ Fresh(TRUE).up = TRUE /\ Fresh(TRUE).queue = <<>>
      /\ Fresh(TRUE).running = FALSE /\ Fresh(TRUE).dirty = FALSE
      /\ Fresh(TRUE).paused = FALSE /\ Fresh(TRUE).active = 0
  BY FreshValues
<1>2. 0 \in Policies /\ 0 \in 0 .. MaxFaults
  BY PoolAssumption DEF Policies
<1>3. /\ NoTask \in Tasks /\ NoTask.op = "reload" /\ NoTask.pc = "done" /\ NoTask.v = 0
      /\ NoTask.ok = TRUE
  BY <1>2 DEF NoTask, Tasks, Ops
<1>4. TypeOK
  BY <1>1, <1>2, <1>3 DEF Init, TypeOK, LeaseStates, Phases
<1>5. \A e \in Endpoints : server[e] = Fresh(TRUE) /\ task[e] = NoTask
  BY DEF Init
<1>6. Len(Fresh(TRUE).queue) = 0
  BY <1>1
<1>7. ServerInv
  <2>1. \A i \in 1 .. Len(Fresh(TRUE).queue) : FALSE
    BY <1>6, NoIndex, Zenon
  <2>2. ~Fresh(TRUE).running /\ Fresh(TRUE).up /\ NoTask.ok
    BY <1>1, <1>3
  <2>3. NoTask.pc # "wait" /\ NoTask.op # "stage"
    BY <1>3
  <2>4. QueueSound(Fresh(TRUE), NoTask)
    BY <2>1, <2>2, <2>3, Zenon DEF QueueSound
  <2> QED
    BY <1>5, <2>2, <2>4, Zenon DEF ServerInv
<1>8. TaskInv
  <2>1. \A i \in 1 .. Len(Fresh(TRUE).queue) : FALSE
    BY <1>6, NoIndex, Zenon
  <2>2. ~Fresh(TRUE).dirty /\ ~Fresh(TRUE).paused /\ Fresh(TRUE).active = NoTask.v
    BY <1>1, <1>3
  <2>3. NoTask.op # "commit" /\ NoTask.op # "stage" /\ NoTask.v = 0
    BY <1>3
  <2>4. \A gone : TaskSound(Fresh(TRUE), NoTask, gone)
    BY <2>1, <2>2, <2>3, Zenon DEF TaskSound
  <2> QED
    BY <1>5, <2>4, Zenon DEF TaskInv
<1>9. GatherInv /\ RecoverInv /\ SettledInv
  BY <1>3, <1>5, PoolAssumption DEF Init, GatherInv, GatherDone, RecoverInv, SettledInv, Healthy
<1> QED
  BY <1>4, <1>7, <1>8, <1>9 DEF IInv

LEMMA NextIInv == IInv /\ [Next]_vars => IInv'
PROOF
<1> SUFFICES ASSUME IInv, [Next]_vars PROVE IInv'
  OBVIOUS
<1>1. ASSUME NEW e \in Endpoints,
             \/ Operation(e) \/ Handle(e) \/ RecoverProbe(e)
             \/ Abandon(e) \/ Crash(e) \/ Boot(e) \/ Quarantine(e) \/ CoolDown(e)
      PROVE  IInv'
  BY <1>1, EndpointNext, RecoverProbeNext, QuarantineNext, CoolDownNext DEF EndpointAction
<1>2. CASE Driver
  BY <1>2, StageStartNext, CommitStartNext, WantRecoveryNext DEF Driver
<1>3. CASE Hold
  BY <1>3, StageDoneNext, RestageDoneNext, CommitDoneNext, RecoverStepNext, RecoverEndNext DEF Hold
<1>4. CASE RecoverStart
  BY <1>4, RecoverStartNext
<1>5. CASE UNCHANGED vars
  <2>1. UNCHANGED <<lease, cooling, poolActive, stagedAt, replay, phase, target, ready, sel, cur>>
        /\ UNCHANGED <<todo, task, wanted, server, faults, lost>>
    BY <1>5 DEF vars, poolVars, phaseVars
  <2> QED
    BY <2>1 DEF IInv, TypeOK, ServerInv, TaskInv, Governed, GatherInv, GatherDone, RecoverInv,
                SettledInv, Healthy
<1> QED
  BY <1>1, <1>2, <1>3, <1>4, <1>5 DEF Next

LEMMA Inductive == Spec => []IInv
PROOF
<1>1. Init => IInv
  BY InitIInv
<1>2. IInv /\ [Next]_vars => IInv'
  BY NextIInv
<1> QED
  BY <1>1, <1>2, PTL DEF Spec

-----------------------------------------------------------------------------
(* What is proved of the pool *)

(* Every reachable state of the pool, its coroutines, the request queues and
   the servers is well typed. *)
THEOREM TypeCorrect == Spec => []TypeOK
PROOF
<1>1. IInv => TypeOK
  BY DEF IInv
<1> QED
  BY <1>1, Inductive, PTL

(* What the pool routes rollouts to serves the pool's policy, with clean
   weights and a running engine: _record_admin_results retires every endpoint
   whose operation failed, _recover_retired_endpoint replays up to the active
   version, and a commit moves all healthy endpoints together. *)
THEOREM HealthyServePolicy == Spec => []HealthyInSync
PROOF
<1>1. ASSUME IInv
      PROVE  HealthyInSync
  <2>0. TypeOK /\ TaskInv /\ GatherInv /\ SettledInv
    BY <1>1 DEF IInv
  <2>1. SUFFICES ASSUME NEW e \in Trusted
        PROVE  server[e].active = Expected(e) /\ ~server[e].dirty /\ ~server[e].paused
    BY DEF HealthyInSync
  <2>2. e \in Healthy /\ e \in Endpoints /\ ~lost[e] /\ ~Updating(e) /\ task[e].ok
    BY DEF Trusted, Healthy
  <2>3. TaskSound(server[e], task[e], lost[e])
    BY <2>0, <2>2 DEF TaskInv, Governed, Healthy
  <2>4. task[e].op # "stage" => task[e].pc = "done"
    BY <2>0, <2>2 DEF GatherInv, Updating
  <2>5. /\ task[e].v \in Nat /\ poolActive \in Nat /\ server[e].active \in Nat
        /\ task[e].op \in Ops
    BY <2>0, <2>2, EndpointTypes, PoolAssumption DEF Policies, TypeOK
  <2>6. CASE phase = "commit"
    <3>1. e \in sel /\ task[e].op = "commit" /\ task[e].v = target
      BY <2>0, <2>2, <2>6 DEF GatherInv
    <3> QED
      BY <2>2, <2>3, <2>4, <2>6, <3>1 DEF TaskSound, Expected
  <2>7. CASE phase # "commit"
    <3>1. task[e].v = IF task[e].op = "stage" THEN poolActive + 1 ELSE poolActive
      BY <2>0, <2>2, <2>7 DEF SettledInv
    <3> QED
      BY <2>2, <2>3, <2>4, <2>5, <2>7, <3>1 DEF TaskSound, From, Expected, Ops
  <2> QED
    BY <2>6, <2>7
<1> QED
  BY <1>1, Inductive, PTL

(* No request of an abandoned operation waits on a healthy endpoint, and what
   _staged_endpoints says of the version to commit is so: reload goes through
   the same lock as what was left behind, and recovery forgets what was staged. *)
THEOREM NothingIsWaiting == Spec => []NoSurprise
PROOF
<1>1. ASSUME IInv
      PROVE  NoSurprise
  <2>0. TypeOK /\ ServerInv /\ TaskInv /\ GatherInv /\ RecoverInv /\ SettledInv
    BY <1>1 DEF IInv
  <2>1. SUFFICES ASSUME NEW e \in Healthy
        PROVE  /\ task[e].ok => \A i \in 1 .. Len(server[e].queue) : server[e].queue[i].live
               /\ (ready # 0 /\ e \in stagedAt[ready] /\ ~lost[e]) => ready \in server[e].staged
    BY DEF NoSurprise
  <2>2. e \in Endpoints
    BY DEF Healthy
  <2>3. ASSUME task[e].ok
        PROVE  \A i \in 1 .. Len(server[e].queue) : server[e].queue[i].live
    <3>1. TaskSound(server[e], task[e], lost[e])
      BY <2>0, <2>2, <2>3 DEF TaskInv, Governed, Healthy
    <3>2. task[e].op = "reload" => task[e].pc = "done"
      <4>1. phase \in {"stage", "restage", "commit"} /\ e \in sel => task[e].op # "reload"
        BY <2>0 DEF GatherInv
      <4>2. phase = "recover" /\ cur # NoEndpoint => e \notin sel
        BY <2>0 DEF RecoverInv, Healthy
      <4> QED
        BY <2>0, <2>2, <4>1, <4>2 DEF GatherInv, GatherDone, TypeOK, Phases
    <3> QED
      BY <3>1, <3>2 DEF TaskSound
  <2> QED
    BY <2>0, <2>3 DEF SettledInv
<1> QED
  BY <1>1, Inductive, PTL

-----------------------------------------------------------------------------
(* Every server implements WeightChain *)

ChainStep(e) == [Chain(e)!ChainNext]_(Chain(e)!chainVars)

LEMMA SameLink ==
  ASSUME NEW e \in Endpoints,
         server'[e].running = server[e].running, server'[e].dirty = server[e].dirty,
         server'[e].active = server[e].active,
         server[e].running => Head(server'[e].queue).op = Head(server[e].queue).op
  PROVE  ChainStep(e)
PROOF
<1>1. ChainMode(e)' = ChainMode(e)
  BY DEF ChainMode
<1> QED
  BY <1>1 DEF ChainStep, Chain!chainVars

LEMMA ReturnIs ==
  ASSUME TypeOK, NEW e \in Endpoints, NEW r, NEW ok, Return(e, r, ok)
  PROVE  server'[e] = [r EXCEPT !.queue = Tail(@), !.running = FALSE]
  BY DEF Return, SetServer, TypeOK

LEMMA ServerLink ==
  ASSUME TypeOK, NEW e \in Endpoints, LocalInv(e), EndpointAction(e)
  PROVE  ChainStep(e)
PROOF
<1> DEFINE s == server[e]
<1>0. /\ s \in Servers /\ s.queue \in Seq(Requests) /\ task[e] \in Tasks /\ s.active \in Policies
      /\ server'[e] \in Servers
  BY EndpointTypes, EndpointLocal DEF LocalStep
<1>1. ASSUME Pause(e) PROVE ChainStep(e)
  <2>1. server'[e] = s \/ server'[e] = [s EXCEPT !.paused = TRUE]
    BY <1>1 DEF Pause, SetServer, TypeOK
  <2>2. /\ server'[e].running = s.running /\ server'[e].dirty = s.dirty
        /\ server'[e].active = s.active /\ server'[e].queue = s.queue
    BY <1>0, <2>1 DEF Servers
  <2> QED
    BY <2>2, SameLink
<1>2. ASSUME Resume(e) PROVE ChainStep(e)
  <2>1. server'[e] = s \/ server'[e] = [s EXCEPT !.paused = FALSE]
    BY <1>2 DEF Resume, SetServer, TypeOK
  <2>2. /\ server'[e].running = s.running /\ server'[e].dirty = s.dirty
        /\ server'[e].active = s.active /\ server'[e].queue = s.queue
    BY <1>0, <2>1 DEF Servers
  <2> QED
    BY <2>2, SameLink
<1>3. ASSUME Send(e) PROVE ChainStep(e)
  <2> DEFINE r == [op |-> task[e].op, v |-> task[e].v, live |-> TRUE]
  <2>1. server'[e] = s \/ server'[e] = [s EXCEPT !.queue = Append(@, r)]
    BY <1>3 DEF Send, SetServer, TypeOK
  <2>2. r \in Requests
    BY EndpointTypes DEF Requests
  <2> HIDE DEF r
  <2>3. s.queue # <<>> => Head(Append(s.queue, r)) = Head(s.queue)
    BY <1>0, <2>2, QueueAppend
  <2>4. s.running => s.queue # <<>>
    BY DEF LocalInv, QueueSound
  <2>5. /\ server'[e].running = s.running /\ server'[e].dirty = s.dirty
        /\ server'[e].active = s.active
        /\ server'[e].queue = s.queue \/ server'[e].queue = Append(s.queue, r)
    BY <1>0, <2>1 DEF Servers
  <2> QED
    BY <2>3, <2>4, <2>5, SameLink
<1>4. ASSUME Abandon(e) PROVE ChainStep(e)
  <2>1. task[e].pc = "wait" /\ server'[e] = [s EXCEPT !.queue = GivenUp(s.queue)]
    BY <1>0, <1>4 DEF Abandon, SetServer, TypeOK, GivenUp
  <2>2. s.queue # <<>>
    BY <2>1 DEF LocalInv, QueueSound
  <2>3. Head(GivenUp(s.queue)).op = Head(s.queue).op
    BY <1>0, <2>2, QueueAbandon
  <2>4. /\ server'[e].running = s.running /\ server'[e].dirty = s.dirty
        /\ server'[e].active = s.active /\ server'[e].queue = GivenUp(s.queue)
    BY <1>0, <2>1 DEF Servers
  <2> QED
    BY <2>3, <2>4, SameLink
<1>5. ASSUME Register(e) PROVE ChainStep(e)
  <2>1. PICK T : server'[e] = [[s EXCEPT !.staged = T] EXCEPT !.queue = Tail(@), !.running = FALSE]
    <3>1. s = [s EXCEPT !.staged = s.staged]
      BY <1>0 DEF Servers
    <3> DEFINE T == s.staged \cup {Head(s.queue).v}
               r == [s EXCEPT !.staged = T]
    <3>2. Return(e, r, TRUE) \/ Return(e, s, FALSE)
      BY <1>5 DEF Register
    <3>3. \/ server'[e] = [r EXCEPT !.queue = Tail(@), !.running = FALSE]
          \/ server'[e] = [s EXCEPT !.queue = Tail(@), !.running = FALSE]
      BY <3>2, ReturnIs, Zenon
    <3> HIDE DEF T
    <3> QED
      BY <3>1, <3>3, Zenon
  <2>2. ~s.running
    BY <1>5 DEF Register, Serving
  <2>3. /\ server'[e].running = FALSE /\ server'[e].dirty = s.dirty
        /\ server'[e].active = s.active
    BY <1>0, <2>1 DEF Servers
  <2>4. server'[e].running = s.running
    BY <1>0, <2>2, <2>3 DEF Servers
  <2> QED
    BY <2>2, <2>3, <2>4, SameLink
<1>6. ASSUME CommitBegin(e) PROVE ChainStep(e)
  <2>1. s.queue # <<>> /\ ~s.running /\ Head(s.queue).op = "commit"
    BY <1>6 DEF CommitBegin, Serving
  <2>2. CASE /\ ~s.dirty /\ server'[e] = [s EXCEPT !.dirty = TRUE, !.running = TRUE]
    <3>1. /\ server'[e].running /\ server'[e].queue = s.queue
          /\ server'[e].active = s.active
      BY <1>0, <2>2 DEF Servers
    <3>2. ChainMode(e) = "serving" /\ ChainMode(e)' = "delta"
      BY <2>1, <2>2, <3>1 DEF ChainMode
    <3>3. Chain(e)!BeginApply
      BY <3>1, <3>2 DEF Chain!BeginApply
    <3> QED
      BY <3>3 DEF ChainStep, Chain!ChainNext
  <2>3. CASE \E T : server'[e] = [[s EXCEPT !.staged = T] EXCEPT !.queue = Tail(@), !.running = FALSE]
    <3>1. PICK T : server'[e] = [[s EXCEPT !.staged = T] EXCEPT !.queue = Tail(@), !.running = FALSE]
      BY <2>3
    <3>2. /\ server'[e].running = FALSE /\ server'[e].dirty = s.dirty
          /\ server'[e].active = s.active
      BY <1>0, <3>1 DEF Servers
    <3>3. server'[e].running = s.running
      BY <1>0, <2>1, <3>2 DEF Servers
    <3> QED
      BY <2>1, <3>2, <3>3, SameLink
  <2>4. s = [s EXCEPT !.staged = s.staged]
    BY <1>0 DEF Servers
  <2> DEFINE kept == {Head(s.queue).v}
             r == [s EXCEPT !.staged = kept]
  <2>5. \/ Return(e, r, TRUE) \/ Return(e, s, FALSE)
        \/ ~s.dirty /\ server'[e] = [s EXCEPT !.dirty = TRUE, !.running = TRUE]
    BY <1>6 DEF CommitBegin, SetServer, TypeOK, Valid
  <2>6. \/ server'[e] = [r EXCEPT !.queue = Tail(@), !.running = FALSE]
        \/ server'[e] = [s EXCEPT !.queue = Tail(@), !.running = FALSE]
        \/ ~s.dirty /\ server'[e] = [s EXCEPT !.dirty = TRUE, !.running = TRUE]
    BY <2>5, ReturnIs, Zenon
  <2> HIDE DEF kept
  <2> QED
    BY <2>2, <2>3, <2>4, <2>6, ZenonT(30)
<1>7. ASSUME ReloadBegin(e) PROVE ChainStep(e)
  <2>1. /\ ~s.running /\ Head(s.queue).op = "reload"
        /\ server'[e] = [s EXCEPT !.dirty = TRUE, !.running = TRUE]
    BY <1>7 DEF ReloadBegin, Serving, SetServer, TypeOK
  <2>2. /\ server'[e].running /\ server'[e].queue = s.queue
        /\ server'[e].active = s.active
    BY <1>0, <2>1 DEF Servers
  <2>3. ChainMode(e) \in {"serving", "broken"} /\ ChainMode(e)' = "reloading"
    BY <2>1, <2>2 DEF ChainMode
  <2>4. Chain(e)!BeginReload
    BY <2>2, <2>3 DEF Chain!BeginReload
  <2> QED
    BY <2>4 DEF ChainStep, Chain!ChainNext
<1>8. ASSUME EngineDone(e) PROVE ChainStep(e)
  <2> DEFINE q == Head(s.queue)
             v == IF q.op = "commit" THEN q.v ELSE 0
             kept == IF q.op = "commit" THEN {v} ELSE {}
             r == [s EXCEPT !.active = v, !.dirty = FALSE, !.staged = kept]
  <2>1. /\ s.running
        /\ \/ server'[e] = [r EXCEPT !.queue = Tail(@), !.running = FALSE]
           \/ server'[e] = [s EXCEPT !.queue = Tail(@), !.running = FALSE]
    BY <1>8 DEF EngineDone, Return, SetServer, TypeOK
  <2>2. s.dirty /\ s.queue # <<>> /\ q.op # "stage" /\ (q.op = "commit" => q.v = s.active + 1)
    BY <2>1 DEF LocalInv, QueueSound
  <2>3. q.op \in Ops /\ q.v \in Policies
    BY <2>2, HeadTypes
  <2>4. ChainMode(e) = IF q.op = "commit" THEN "delta" ELSE "reloading"
    BY <2>1 DEF ChainMode
  <2>5. CASE server'[e] = [r EXCEPT !.queue = Tail(@), !.running = FALSE]
    <3>1. v \in Policies /\ (q.op = "commit" => v = s.active + 1) /\ (q.op # "commit" => v = 0)
      BY <2>2, <2>3, PoolAssumption DEF Policies
    <3> HIDE DEF v, kept
    <3>2. server'[e].active = v /\ ~server'[e].dirty /\ ~server'[e].running
      BY <1>0, <2>5 DEF Servers
    <3>3. ChainMode(e)' = "serving"
      BY <3>2 DEF ChainMode
    <3>4. Chain(e)!ApplyDelta \/ Chain(e)!EndReload
      BY <2>4, <3>1, <3>2, <3>3 DEF Chain!ApplyDelta, Chain!EndReload, Chain!Policies, Policies
    <3> QED
      BY <3>4 DEF ChainStep, Chain!ChainNext
  <2>6. CASE server'[e] = [s EXCEPT !.queue = Tail(@), !.running = FALSE]
    <3>1. server'[e].active = s.active /\ server'[e].dirty /\ ~server'[e].running
      BY <1>0, <2>2, <2>6 DEF Servers
    <3>2. ChainMode(e)' = "broken"
      BY <3>1 DEF ChainMode
    <3>3. Chain(e)!Break
      BY <2>4, <3>1, <3>2 DEF Chain!Break
    <3> QED
      BY <3>3 DEF ChainStep, Chain!ChainNext
  <2> QED
    BY <2>1, <2>5, <2>6
<1>9. ASSUME Crash(e) \/ Boot(e) PROVE ChainStep(e)
  <2>1. server'[e] = Fresh(TRUE) \/ server'[e] = Fresh(FALSE)
    BY <1>9 DEF Crash, Boot, SetServer, TypeOK
  <2>2. server'[e].active = 0 /\ ~server'[e].dirty /\ ~server'[e].running
    BY <2>1, FreshValues DEF Fresh
  <2>3. ChainMode(e)' = "serving"
    BY <2>2 DEF ChainMode
  <2>4. Chain(e)!Restart
    BY <2>2, <2>3 DEF Chain!Restart
  <2> QED
    BY <2>4 DEF ChainStep, Chain!ChainNext
<1> QED
  BY <1>1, <1>2, <1>3, <1>4, <1>5, <1>6, <1>7, <1>8, <1>9
     DEF EndpointAction, Operation, Handle

(* Every server of the pool implements WeightChain: whatever is staged late,
   committed, abandoned, reloaded and replayed, no delta is skipped and none is
   applied twice. *)
THEOREM PoolImplementsChain == Spec => ImplementsChain
PROOF
<1>1. ASSUME Init
      PROVE  \A e \in Endpoints : Chain(e)!ChainInit
  <2>1. TAKE e \in Endpoints
  <2>2. server[e].active = 0 /\ ~server[e].dirty /\ ~server[e].running
    BY <1>1 DEF Init, Fresh
  <2> QED
    BY <2>2 DEF Chain!ChainInit, ChainMode
<1>2. ASSUME IInv, [Next]_vars
      PROVE  \A e \in Endpoints : ChainStep(e)
  <2>1. TypeOK /\ \A e \in Endpoints : LocalInv(e)
    BY <1>2 DEF IInv, ServerInv, LocalInv
  <2>2. ASSUME UNCHANGED server
        PROVE  \A e \in Endpoints : ChainStep(e)
    BY <2>2, SameLink
  <2>3. ASSUME NEW e \in Endpoints, EndpointAction(e)
        PROVE  \A f \in Endpoints : ChainStep(f)
    <3>1. ChainStep(e)
      BY <2>1, <2>3, ServerLink
    <3>2. \A f \in Endpoints \ {e} : server'[f] = server[f]
      BY <2>1, <2>3, EndpointLocal DEF LocalStep, TypeOK
    <3>3. \A f \in Endpoints \ {e} : ChainStep(f)
      BY <3>2, SameLink
    <3> QED
      BY <3>1, <3>3
  <2>4. ASSUME NEW e \in Endpoints, RecoverProbe(e) \/ Quarantine(e) \/ CoolDown(e)
        PROVE  UNCHANGED server
    BY <2>4 DEF RecoverProbe, Quarantine, CoolDown
  <2>5. ASSUME Driver \/ Hold \/ RecoverStart \/ UNCHANGED vars
        PROVE  UNCHANGED server
    BY <2>5 DEF Driver, StageStart, CommitStart, WantRecovery, Hold, StageDone, RestageDone,
                CommitDone, RecoverStep, RecoverEnd, RecoverStart, vars
  <2> QED
    BY <1>2, <2>2, <2>3, <2>4, <2>5 DEF Next, EndpointAction
<1>3. ASSUME IInv, [Next]_vars
      PROVE  [\A e \in Endpoints : [Chain(e)!ChainNext]_(Chain(e)!chainVars)]_vars
  BY <1>2, <1>3 DEF ChainStep
<1> QED
  BY <1>1, <1>3, Inductive, PTL DEF Spec, ImplementsChain
=============================================================================
