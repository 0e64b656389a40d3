-------------------------- MODULE ElasticPoolProofs --------------------------
(***************************************************************************)
(* For any number of servers, adapters, faults and crashes: the elastic     *)
(* pool is well typed, and what it exposes reports the adapter of the       *)
(* current step and, until a load fails or is given up, runs it.            *)
(*                                                                          *)
(* The argument: the loads of a server are in the order of the steps they   *)
(* are for, none is newer than the pool's step and none is older than what  *)
(* the server reports (LoadsInOrder).  So a server that reports the pool's  *)
(* step can only be at work on that step, and what it reports stays.  The   *)
(* lock keeps an update from moving that step under a server that is being  *)
(* asked (LockInv), and a server is exposed from a matching answer to the   *)
(* next time it is asked (StatusAt).                                        *)
(***************************************************************************)
EXTENDS ElasticPool, SequenceTheorems, TLAPS

(* The loads of a server whose report is root, while the pool is at step d. *)
LoadsInOrder(loads, root, d) ==
    /\ root <= d
    /\ \A k \in 1 .. Len(loads) : loads[k].step # 0 /\ root <= loads[k].step /\ loads[k].step <= d
    /\ \A j, k \in 1 .. Len(loads) : j <= k => loads[j].step <= loads[k].step

(* Only the first load has begun, and only for the last is somebody waiting. *)
LoadsQueued(loads, where) ==
    \A k \in 1 .. Len(loads) :
        /\ loads[k].begun => k = 1
        /\ loads[k].live => k = Len(loads) /\ where = "load"

(* Until a load fails or is given up, what is not being loaded is loaded. *)
Undisturbed(h) ==
    /\ \A k \in 1 .. Len(h.loads) : h.loads[k].live
    /\ h.loads = <<>> \/ ~h.loads[1].begun => h.weights = h.root

HostAt(s) ==
    /\ LoadsInOrder(host[s].loads, host[s].root, desired)
    /\ LoadsQueued(host[s].loads, task[s])
    /\ ~host[s].up => host[s].loads = <<>> /\ host[s].root = 0 /\ host[s].weights = 0
    /\ faults = 0 => Undisturbed(host[s])

StatusAt(s) ==
    /\ status[s] = "ready" => task[s] \in {"idle", "query"}
    /\ task[s] \in {"send", "load", "verify"} => desired # 0
    /\ status[s] = "ready" /\ s \notin lost /\ task[s] # "query" => host[s].root = desired

LockInv ==
    /\ lock = "free" => Working = {}
    /\ lock = "sync" <=> todo.stage # "none"

ServersInv == \A s \in Servers : HostAt(s) /\ StatusAt(s)

IInv == TypeOK /\ ServersInv /\ LockInv

-----------------------------------------------------------------------------
(* Loads as values *)

LEMMA LoadsAt ==
  ASSUME NEW loads \in Seq(Loads)
  PROVE  /\ Len(loads) \in Nat /\ DOMAIN loads = 1 .. Len(loads)
         /\ loads = <<>> <=> Len(loads) = 0
         /\ \A k \in 1 .. Len(loads) : /\ loads[k] \in Loads /\ loads[k].step \in Nat
                                       /\ loads[k].step \in Steps
                                       /\ loads[k].live \in BOOLEAN /\ loads[k].begun \in BOOLEAN
PROOF
<1>1. \A k \in 1 .. Len(loads) : loads[k] \in Loads
  BY ElementOfSeq
<1>2. /\ Len(loads) \in Nat /\ DOMAIN loads = 1 .. Len(loads)
      /\ loads = <<>> <=> Len(loads) = 0
  BY LenProperties, EmptySeq
<1> QED
  BY <1>1, <1>2, ElasticAssumption DEF Loads, Steps

LEMMA LoadsTail ==
  ASSUME NEW loads \in Seq(Loads), loads # <<>>
  PROVE  /\ Tail(loads) \in Seq(Loads) /\ Len(loads) \in Nat \ {0} /\ 1 \in 1 .. Len(loads)
         /\ Len(Tail(loads)) = Len(loads) - 1
         /\ \A k \in 1 .. Len(loads) - 1 : /\ Tail(loads)[k] = loads[k + 1]
                                           /\ k + 1 \in 1 .. Len(loads)
  BY HeadTailProperties, LenProperties

LEMMA LoadsAppend ==
  ASSUME NEW loads \in Seq(Loads), NEW l \in Loads
  PROVE  /\ Append(loads, l) \in Seq(Loads) /\ Append(loads, l) # <<>>
         /\ Len(Append(loads, l)) = Len(loads) + 1 /\ Len(loads) \in Nat
         /\ \A k \in 1 .. Len(loads) + 1 :
              Append(loads, l)[k] = IF k = Len(loads) + 1 THEN l ELSE loads[k]
  BY AppendProperties, LenProperties

(* The load at i is changed in its flags only. *)
LEMMA LoadsExcept ==
  ASSUME NEW loads \in Seq(Loads), NEW i \in 1 .. Len(loads), NEW l \in Loads,
         l.step = loads[i].step, NEW new, new = [loads EXCEPT ![i] = l]
  PROVE  /\ new \in Seq(Loads) /\ Len(new) = Len(loads)
         /\ \A k \in 1 .. Len(loads) : new[k].step = loads[k].step
         /\ \A k \in 1 .. Len(loads) : new[k] = IF k = i THEN l ELSE loads[k]
  BY ExceptSeq

-----------------------------------------------------------------------------
(* The steps of one server, and of the pool with it *)

(* A step that changes nothing but server s and what the pool knows of it. *)
ServerStep(s) ==
    /\ listed' \in SUBSET Servers /\ lost' \in SUBSET Servers
    /\ \A r \in Servers \ {s} :
         host'[r] = host[r] /\ task'[r] = task[r] /\ status'[r] = status[r]
    /\ \A r \in Servers \ {s} : r \in lost' <=> r \in lost
    /\ host' \in [Servers -> Hosts]
    /\ task' \in [Servers -> {"idle", "query", "send", "load", "verify"}]
    /\ status' \in [Servers -> {"unknown", "discovering", "syncing", "ready", "unhealthy"}]
    /\ UNCHANGED <<desired, lock, todo>>
    /\ faults' \in 0 .. MaxFaults /\ (faults' = 0 => faults = 0)
    /\ crashes' \in 0 .. MaxCrashes
    /\ task'[s] # "idle" => task[s] # "idle"
    /\ HostAt(s)' /\ StatusAt(s)'

LEMMA ServerTypes ==
  ASSUME TypeOK, NEW s \in Servers
  PROVE  /\ host[s] \in Hosts /\ host[s].up \in BOOLEAN /\ host[s].weights \in Steps
         /\ host[s].root \in Steps /\ host[s].loads \in Seq(Loads)
         /\ task[s] \in {"idle", "query", "send", "load", "verify"}
         /\ host[s].weights \in Nat /\ host[s].root \in Nat /\ desired \in Nat
         /\ desired \in Steps
         /\ faults \in 0 .. MaxFaults /\ crashes \in 0 .. MaxCrashes
  BY ElasticAssumption DEF TypeOK, Hosts, Steps

LEMMA FaultTypes ==
  ASSUME TypeOK, Fault
  PROVE  faults' \in 0 .. MaxFaults /\ faults' # 0
  BY ElasticAssumption DEF TypeOK, Fault

LEMMA ServerNext ==
  ASSUME IInv, NEW s \in Servers, ServerStep(s)
  PROVE  IInv'
PROOF
<1>0. TypeOK /\ ServersInv /\ LockInv
  BY DEF IInv
<1>1. \A r \in Servers \ {s} : HostAt(r)' /\ StatusAt(r)'
  <2>1. TAKE r \in Servers \ {s}
  <2>2. HostAt(r) /\ StatusAt(r)
    BY <1>0 DEF ServersInv
  <2>3. /\ host'[r] = host[r] /\ task'[r] = task[r] /\ status'[r] = status[r]
        /\ desired' = desired /\ (faults' = 0 => faults = 0) /\ (r \in lost' <=> r \in lost)
    BY DEF ServerStep
  <2>4. HostAt(r)'
    BY <2>2, <2>3 DEF HostAt
  <2>5. StatusAt(r)'
    BY <2>2, <2>3 DEF StatusAt
  <2> QED
    BY <2>4, <2>5
<1>2. ServersInv'
  BY <1>1 DEF ServersInv, ServerStep
<1>3. \A r \in Servers : host'[r].loads \in Seq(Loads) /\ LoadsQueued(host'[r].loads, task'[r])
  BY <1>2 DEF ServersInv, HostAt, ServerStep, Hosts
<1>4. \A r \in Servers : \A k \in DOMAIN host'[r].loads :
        /\ host'[r].loads[k].begun => k = 1
        /\ host'[r].loads[k].live => k = Len(host'[r].loads) /\ task'[r] = "load"
  BY <1>3, LoadsAt DEF LoadsQueued
<1>5. TypeOK'
  BY <1>0, <1>4 DEF TypeOK, ServerStep
<1>6. Working' \subseteq Working
  BY DEF Working, ServerStep
<1>7. LockInv'
  BY <1>0, <1>6 DEF LockInv, ServerStep
<1> QED
  BY <1>2, <1>5, <1>7 DEF IInv

(* Nothing of a load's order and of who waits for it changes: for steps of the
   pool alone. *)
LEMMA SameHost ==
  ASSUME NEW s \in Servers, HostAt(s), host'[s] = host[s], desired' = desired,
         faults' = 0 => faults = 0, task[s] # "load" \/ task'[s] = "load"
  PROVE  HostAt(s)'
PROOF
<1>1. LoadsQueued(host[s].loads, task'[s])
  BY DEF HostAt, LoadsQueued
<1> QED
  BY <1>1 DEF HostAt

LEMMA EnvironmentNext ==
  ASSUME IInv, NEW s \in Servers, Environment(s)
  PROVE  IInv'
PROOF
<1>0. TypeOK /\ HostAt(s) /\ StatusAt(s)
  BY DEF IInv, ServersInv
<1>1. CASE List(s) \/ Unlist(s)
  <2>1. /\ UNCHANGED <<host, lost, status, desired, lock, todo, task, faults>>
        /\ listed' \in SUBSET Servers /\ crashes' \in 0 .. MaxCrashes
    BY <1>0, <1>1, ElasticAssumption DEF List, Unlist, TypeOK, poolVars
  <2>2. HostAt(s)' /\ StatusAt(s)'
    BY <1>0, <2>1 DEF HostAt, StatusAt
  <2>3. ServerStep(s)
    BY <1>0, <2>1, <2>2 DEF ServerStep, TypeOK
  <2> QED
    BY <2>3, ServerNext
<1>2. CASE Boot(s)
  <2>1. /\ ~host[s].up /\ host' = [host EXCEPT ![s] = [host[s] EXCEPT !.up = TRUE]]
        /\ UNCHANGED <<listed, lost, status, desired, lock, todo, task, faults, crashes>>
    BY <1>2 DEF Boot, poolVars
  <2>2. host'[s] = [host[s] EXCEPT !.up = TRUE] /\ \A r \in Servers \ {s} : host'[r] = host[r]
    BY <1>0, <2>1 DEF TypeOK
  <2>3. /\ host'[s] \in Hosts /\ host'[s].up /\ host'[s].loads = host[s].loads
        /\ host'[s].root = host[s].root /\ host'[s].weights = host[s].weights
    BY <1>0, <2>2, ServerTypes DEF Hosts
  <2>4. HostAt(s)' /\ StatusAt(s)'
    BY <1>0, <2>1, <2>3 DEF HostAt, StatusAt, Undisturbed
  <2>5. host' \in [Servers -> Hosts]
    BY <1>0, <2>1, <2>2, <2>3 DEF TypeOK
  <2>6. ServerStep(s)
    BY <1>0, <2>1, <2>2, <2>4, <2>5 DEF ServerStep, TypeOK
  <2> QED
    BY <2>6, ServerNext
<1>3. CASE Crash(s)
  <2>1. /\ host' = [host EXCEPT ![s] = Down] /\ lost' = lost \cup {s}
        /\ crashes' \in 0 .. MaxCrashes
        /\ UNCHANGED <<listed, status, desired, lock, todo, task, faults>>
    BY <1>0, <1>3, ElasticAssumption DEF Crash, poolVars, TypeOK
  <2>2. host'[s] = Down /\ \A r \in Servers \ {s} : host'[r] = host[r]
    BY <1>0, <2>1 DEF TypeOK
  <2>3. /\ Down \in Hosts /\ Down.loads = <<>> /\ Down.root = 0 /\ Down.weights = 0
    BY EmptySeq, ElasticAssumption DEF Down, Hosts, Steps
  <2>4. desired' \in Nat
    BY <1>0, <2>1, ServerTypes
  <2>5. HostAt(s)' /\ StatusAt(s)'
    BY <1>0, <2>1, <2>2, <2>3, <2>4
       DEF HostAt, StatusAt, LoadsInOrder, LoadsQueued, Undisturbed
  <2>6. host' \in [Servers -> Hosts]
    BY <1>0, <2>1, <2>3 DEF TypeOK
  <2>7. ServerStep(s)
    BY <1>0, <2>1, <2>2, <2>5, <2>6 DEF ServerStep, TypeOK
  <2> QED
    BY <2>7, ServerNext
<1> QED
  BY <1>1, <1>2, <1>3 DEF Environment

LEMMA LoadBeginNext ==
  ASSUME IInv, NEW s \in Servers, LoadBegin(s)
  PROVE  IInv'
PROOF
<1> DEFINE h == host[s]
           l == [h.loads[1] EXCEPT !.begun = TRUE]
           new == [h.loads EXCEPT ![1] = l]
<1>0. TypeOK /\ HostAt(s) /\ StatusAt(s)
  BY DEF IInv, ServersInv
<1>1. /\ h.up /\ h.loads # <<>>
      /\ host' = [host EXCEPT ![s] = [h EXCEPT !.loads = new, !.root = Report(h, h.loads[1].step)]]
      /\ UNCHANGED <<listed, lost, status, desired, lock, todo, task, faults, crashes>>
  BY <1>0, ServerTypes DEF LoadBegin, poolVars, TypeOK, Hosts
<1>2. h \in Hosts /\ h.loads \in Seq(Loads) /\ h.root \in Nat /\ desired \in Nat
  BY <1>0, ServerTypes
<1>3. /\ Len(h.loads) \in Nat /\ 1 \in 1 .. Len(h.loads) /\ h.loads[1] \in Loads
      /\ \A k \in 1 .. Len(h.loads) : h.loads[k].step \in Nat /\ h.loads[k].step \in Steps
  BY <1>1, <1>2, LoadsTail, LoadsAt
<1>4. l \in Loads /\ l.step = h.loads[1].step /\ l.live = h.loads[1].live /\ l.begun = TRUE
  BY <1>3 DEF Loads
<1> HIDE DEF l
<1>5. /\ new \in Seq(Loads) /\ Len(new) = Len(h.loads)
      /\ \A k \in 1 .. Len(h.loads) : new[k].step = h.loads[k].step
      /\ \A k \in 1 .. Len(h.loads) : new[k] = IF k = 1 THEN l ELSE h.loads[k]
  BY <1>2, <1>3, <1>4, LoadsExcept
<1> HIDE DEF new
<1>6. /\ host'[s] = [h EXCEPT !.loads = new, !.root = Report(h, h.loads[1].step)]
      /\ \A r \in Servers \ {s} : host'[r] = host[r]
  BY <1>0, <1>1 DEF TypeOK
<1>7. Report(h, h.loads[1].step) \in Steps
  BY <1>3, ElasticAssumption DEF Report, Steps
<1>8. /\ host'[s] \in Hosts /\ host'[s].loads = new /\ host'[s].up = h.up
      /\ host'[s].root = Report(h, h.loads[1].step)
  BY <1>2, <1>5, <1>6, <1>7 DEF Hosts
<1>9. /\ h.root <= h.loads[1].step /\ h.loads[1].step <= desired
      /\ \A k \in 1 .. Len(h.loads) : h.loads[1].step <= h.loads[k].step
  BY <1>0, <1>3 DEF HostAt, LoadsInOrder
<1>10. LoadsInOrder(new, host'[s].root, desired)
  BY <1>0, <1>2, <1>3, <1>5, <1>8, <1>9 DEF HostAt, LoadsInOrder, Report
<1>11. LoadsQueued(new, task[s])
  BY <1>0, <1>3, <1>4, <1>5 DEF HostAt, LoadsQueued
<1>12. faults = 0 => Undisturbed(host'[s])
  <2>1. faults = 0 => \A k \in 1 .. Len(new) : new[k].live
    BY <1>0, <1>3, <1>4, <1>5 DEF HostAt, Undisturbed
  <2>2. new # <<>> /\ new[1].begun
    BY <1>3, <1>4, <1>5, LoadsAt
  <2> QED
    BY <1>8, <2>1, <2>2 DEF Undisturbed
<1>13. HostAt(s)'
  BY <1>1, <1>8, <1>10, <1>11, <1>12 DEF HostAt
<1>14. StatusAt(s)'
  <2>1. h.root = desired => host'[s].root = desired
    BY <1>2, <1>3, <1>8, <1>9 DEF Report
  <2> QED
    BY <1>0, <1>1, <2>1 DEF StatusAt
<1>15. host' \in [Servers -> Hosts]
  BY <1>0, <1>1, <1>6, <1>8 DEF TypeOK
<1>16. ServerStep(s)
  BY <1>0, <1>1, <1>6, <1>13, <1>14, <1>15 DEF ServerStep, TypeOK
<1> QED
  BY <1>16, ServerNext

(* What is left when the first load is over, whatever became of it. *)
LEMMA TailInOrder ==
  ASSUME NEW loads \in Seq(Loads), loads # <<>>, NEW d \in Nat, NEW root \in Nat,
         LoadsInOrder(loads, root, d)
  PROVE  /\ LoadsInOrder(Tail(loads), root, d)
         /\ LoadsInOrder(Tail(loads), loads[1].step, d)
         /\ root = d => loads[1].step = d
PROOF
<1> DEFINE n == Len(loads)
           rest == Tail(loads)
<1>1. /\ n \in Nat \ {0} /\ 1 \in 1 .. n /\ Len(rest) = n - 1
      /\ \A k \in 1 .. n - 1 : rest[k] = loads[k + 1] /\ k + 1 \in 1 .. n
      /\ \A k \in 1 .. n : loads[k].step \in Nat
  BY LoadsTail, LoadsAt
<1>2. /\ root <= d
      /\ \A k \in 1 .. n : loads[k].step # 0 /\ root <= loads[k].step /\ loads[k].step <= d
      /\ \A j, k \in 1 .. n : j <= k => loads[j].step <= loads[k].step
  BY DEF LoadsInOrder
<1> HIDE DEF n, rest
<1>3. loads[1].step <= d /\ (root = d => loads[1].step = d)
  BY <1>1, <1>2
<1>4. \A k \in 1 .. Len(rest) : /\ rest[k].step # 0 /\ root <= rest[k].step
                                /\ loads[1].step <= rest[k].step /\ rest[k].step <= d
  <2>1. TAKE k \in 1 .. Len(rest)
  <2>2. k + 1 \in 1 .. n /\ rest[k] = loads[k + 1] /\ 1 <= k + 1 /\ k \in 1 .. n - 1
    BY <1>1, <2>1
  <2>3. loads[1].step <= loads[k + 1].step
    BY <1>1, <1>2, <2>2
  <2> QED
    BY <1>2, <2>2, <2>3
<1>5. \A j, k \in 1 .. Len(rest) : j <= k => rest[j].step <= rest[k].step
  <2>1. TAKE j, k \in 1 .. Len(rest)
  <2>2. HAVE j <= k
  <2>3. /\ j + 1 \in 1 .. n /\ rest[j] = loads[j + 1]
        /\ k + 1 \in 1 .. n /\ rest[k] = loads[k + 1] /\ j + 1 <= k + 1
    BY <1>1, <2>2
  <2> QED
    BY <1>2, <2>3
<1>6. LoadsInOrder(rest, root, d) /\ LoadsInOrder(rest, loads[1].step, d)
  BY <1>2, <1>3, <1>4, <1>5 DEF LoadsInOrder
<1> QED
  BY <1>3, <1>6 DEF rest

LEMMA TailQueued ==
  ASSUME NEW loads \in Seq(Loads), loads # <<>>, NEW where, LoadsQueued(loads, where)
  PROVE  /\ loads[1].live => where = "load" /\ \A w : LoadsQueued(Tail(loads), w)
         /\ LoadsQueued(Tail(loads), where)
PROOF
<1> DEFINE n == Len(loads)
           rest == Tail(loads)
<1>1. /\ n \in Nat \ {0} /\ 1 \in 1 .. n /\ Len(rest) = n - 1
      /\ \A k \in 1 .. n - 1 : rest[k] = loads[k + 1] /\ k + 1 \in 1 .. n
  BY LoadsTail
<1>2. \A k \in 1 .. n : /\ loads[k].begun => k = 1
                        /\ loads[k].live => k = n /\ where = "load"
  BY DEF LoadsQueued
<1> HIDE DEF n, rest
<1>3. \A k \in 1 .. Len(rest) : /\ ~rest[k].begun
                                /\ rest[k].live => k = Len(rest) /\ where = "load"
  <2>1. TAKE k \in 1 .. Len(rest)
  <2>2. k + 1 \in 1 .. n /\ rest[k] = loads[k + 1] /\ k \in 1 .. n - 1
    BY <1>1, <2>1
  <2>3. ~rest[k].begun
    BY <1>2, <2>2
  <2>4. rest[k].live => k + 1 = n /\ where = "load"
    BY <1>2, <2>2
  <2> QED
    BY <1>1, <2>2, <2>3, <2>4
<1>4. ASSUME loads[1].live
      PROVE  where = "load" /\ \A w : LoadsQueued(rest, w)
  <2>1. 1 = n /\ where = "load"
    BY <1>1, <1>2, <1>4
  <2>2. \A k \in 1 .. Len(rest) : FALSE
    BY <1>1, <2>1
  <2> QED
    BY <2>1, <2>2, Zenon DEF LoadsQueued
<1>5. LoadsQueued(rest, where)
  BY <1>3, Zenon DEF LoadsQueued
<1> QED
  BY <1>4, <1>5 DEF rest

LEMMA LoadDoneNext ==
  ASSUME IInv, NEW s \in Servers, LoadDone(s)
  PROVE  IInv'
PROOF
<1> DEFINE h == host[s]
           load == h.loads[1]
           rest == Tail(h.loads)
<1>0. TypeOK /\ HostAt(s) /\ StatusAt(s)
  BY DEF IInv, ServersInv
<1>1. /\ h.up /\ h.loads # <<>>
      /\ host' = [host EXCEPT ![s] = [h EXCEPT !.weights = load.step, !.root = load.step,
                                               !.loads = rest]]
      /\ task' = IF load.live THEN [task EXCEPT ![s] = "verify"] ELSE task
      /\ UNCHANGED <<listed, lost, status, desired, lock, todo, faults, crashes>>
  BY <1>0, ServerTypes DEF LoadDone, Running, TypeOK, Hosts
<1>2. h \in Hosts /\ h.loads \in Seq(Loads) /\ h.root \in Nat /\ desired \in Nat
  BY <1>0, ServerTypes
<1>3. /\ rest \in Seq(Loads) /\ Len(h.loads) \in Nat \ {0} /\ 1 \in 1 .. Len(h.loads)
      /\ Len(rest) = Len(h.loads) - 1
      /\ \A k \in 1 .. Len(h.loads) - 1 : rest[k] = h.loads[k + 1] /\ k + 1 \in 1 .. Len(h.loads)
  BY <1>1, <1>2, LoadsTail
<1>4. load.step \in Steps /\ load.live \in BOOLEAN
  BY <1>2, <1>3, LoadsAt
<1>5. /\ task'[s] = IF load.live THEN "verify" ELSE task[s]
      /\ \A r \in Servers \ {s} : task'[r] = task[r]
      /\ task' \in [Servers -> {"idle", "query", "send", "load", "verify"}]
  BY <1>0, <1>1 DEF TypeOK
<1>6. /\ LoadsInOrder(rest, load.step, desired) /\ LoadsQueued(rest, task'[s])
      /\ load.live => task[s] = "load"
      /\ h.root = desired => load.step = desired
  <2>1. /\ LoadsInOrder(h.loads, h.root, desired) /\ LoadsQueued(h.loads, task[s])
        /\ load.live \/ task'[s] = task[s]
        /\ h.loads # <<>> /\ load.step = h.loads[1].step
    BY <1>0, <1>1, <1>5 DEF HostAt
  <2>2. h.loads \in Seq(Loads) /\ h.root \in Nat /\ desired \in Nat
    BY <1>2
  <2> HIDE DEF h, rest
  <2>3. /\ LoadsInOrder(Tail(h.loads), h.loads[1].step, desired)
        /\ h.root = desired => h.loads[1].step = desired
    BY <2>1, <2>2, TailInOrder
  <2>4. /\ h.loads[1].live => task[s] = "load" /\ LoadsQueued(Tail(h.loads), task'[s])
        /\ LoadsQueued(Tail(h.loads), task[s])
    BY <2>1, <2>2, TailQueued
  <2> QED
    BY <2>1, <2>3, <2>4 DEF rest
<1>7. /\ host'[s] = [h EXCEPT !.weights = load.step, !.root = load.step, !.loads = rest]
      /\ \A r \in Servers \ {s} : host'[r] = host[r]
  BY <1>0, <1>1 DEF TypeOK
<1>8. /\ host'[s] \in Hosts /\ host'[s].loads = rest /\ host'[s].up
      /\ host'[s].root = load.step /\ host'[s].weights = load.step
  <2>1. h.up
    BY <1>1
  <2> HIDE DEF rest, load
  <2> QED
    BY <2>1, <1>2, <1>3, <1>4, <1>7 DEF Hosts
<1>9. faults = 0 => Undisturbed(host'[s])
  <2>1. faults = 0 => \A k \in 1 .. Len(rest) : rest[k].live
    BY <1>0, <1>3 DEF HostAt, Undisturbed
  <2> QED
    BY <1>8, <2>1 DEF Undisturbed
<1>10. HostAt(s)'
  BY <1>1, <1>6, <1>8, <1>9 DEF HostAt
<1>11. StatusAt(s)'
  BY <1>0, <1>1, <1>5, <1>6, <1>8 DEF StatusAt
<1>12. host' \in [Servers -> Hosts]
  BY <1>0, <1>1, <1>7, <1>8 DEF TypeOK
<1>13. ServerStep(s)
  BY <1>0, <1>1, <1>5, <1>6, <1>7, <1>10, <1>11, <1>12 DEF ServerStep, TypeOK
<1> QED
  BY <1>13, ServerNext

LEMMA LoadFailsNext ==
  ASSUME IInv, NEW s \in Servers, LoadFails(s)
  PROVE  IInv'
PROOF
<1> DEFINE h == host[s]
           load == h.loads[1]
           rest == Tail(h.loads)
<1>0. TypeOK /\ HostAt(s) /\ StatusAt(s)
  BY DEF IInv, ServersInv
<1>1. /\ h.up /\ h.loads # <<>> /\ Fault
      /\ host' = [host EXCEPT ![s] = [h EXCEPT !.loads = rest]]
      /\ UNCHANGED <<listed, lost, desired, lock, todo, crashes>>
  BY <1>0, ServerTypes DEF LoadFails, Running, TypeOK, Hosts
<1>2. h \in Hosts /\ h.loads \in Seq(Loads) /\ h.root \in Nat /\ desired \in Nat
  BY <1>0, ServerTypes
<1>3. rest \in Seq(Loads)
  BY <1>1, <1>2, LoadsTail
<1>4. /\ \A r \in Servers \ {s} : task'[r] = task[r] /\ status'[r] = status[r]
      /\ task' \in [Servers -> {"idle", "query", "send", "load", "verify"}]
      /\ status' \in [Servers -> {"unknown", "discovering", "syncing", "ready", "unhealthy"}]
      /\ \/ load.live /\ task'[s] = "send" /\ status'[s] = status[s]
         \/ load.live /\ task'[s] = "idle" /\ status'[s] = "unhealthy"
         \/ ~load.live /\ task'[s] = task[s] /\ status'[s] = status[s]
  BY <1>0 DEF LoadFails, TypeOK
<1>5. /\ LoadsInOrder(rest, h.root, desired) /\ LoadsQueued(rest, task'[s])
      /\ load.live => task[s] = "load"
  <2>1. /\ LoadsInOrder(h.loads, h.root, desired) /\ LoadsQueued(h.loads, task[s])
        /\ load.live \/ task'[s] = task[s]
        /\ h.loads # <<>> /\ h.root = h.root
    BY <1>0, <1>1, <1>4 DEF HostAt
  <2>2. h.loads \in Seq(Loads) /\ h.root \in Nat /\ desired \in Nat
    BY <1>2
  <2> HIDE DEF h, rest
  <2>3. LoadsInOrder(Tail(h.loads), h.root, desired)
    BY <2>1, <2>2, TailInOrder
  <2>4. /\ h.loads[1].live => task[s] = "load" /\ LoadsQueued(Tail(h.loads), task'[s])
        /\ LoadsQueued(Tail(h.loads), task[s])
    BY <2>1, <2>2, TailQueued
  <2> QED
    BY <2>1, <2>3, <2>4 DEF rest
<1>6. /\ host'[s] = [h EXCEPT !.loads = rest]
      /\ \A r \in Servers \ {s} : host'[r] = host[r]
  BY <1>0, <1>1 DEF TypeOK
<1>7. /\ host'[s] \in Hosts /\ host'[s].loads = rest /\ host'[s].up /\ host'[s].root = h.root
  <2>1. h.up
    BY <1>1
  <2> HIDE DEF rest
  <2> QED
    BY <2>1, <1>2, <1>3, <1>6 DEF Hosts
<1>8. faults' \in 0 .. MaxFaults /\ faults' # 0
  BY <1>0, <1>1, FaultTypes
<1>9. HostAt(s)'
  BY <1>1, <1>5, <1>7, <1>8 DEF HostAt
<1>10. StatusAt(s)'
  BY <1>0, <1>1, <1>4, <1>5, <1>7 DEF StatusAt
<1>11. host' \in [Servers -> Hosts]
  BY <1>0, <1>1, <1>6, <1>7 DEF TypeOK
<1>12. ServerStep(s)
  BY <1>0, <1>1, <1>4, <1>5, <1>6, <1>8, <1>9, <1>10, <1>11 DEF ServerStep, TypeOK
<1> QED
  BY <1>12, ServerNext

-----------------------------------------------------------------------------
(* The steps of _sync_server_adapter *)

(* What a step of the pool with server s does to all that is not s. *)
LEMMA OneServer ==
  ASSUME TypeOK, NEW s \in Servers,
         NEW t \in {"idle", "query", "send", "load", "verify"},
         NEW st \in {"unknown", "discovering", "syncing", "ready", "unhealthy"}
  PROVE  /\ [task EXCEPT ![s] = t] \in [Servers -> {"idle", "query", "send", "load", "verify"}]
         /\ [task EXCEPT ![s] = t][s] = t
         /\ \A r \in Servers \ {s} : [task EXCEPT ![s] = t][r] = task[r]
         /\ [status EXCEPT ![s] = st]
              \in [Servers -> {"unknown", "discovering", "syncing", "ready", "unhealthy"}]
         /\ [status EXCEPT ![s] = st][s] = st
         /\ \A r \in Servers \ {s} : [status EXCEPT ![s] = st][r] = status[r]
  BY DEF TypeOK

(* With no load at work, a server that nothing has gone wrong with runs what it
   reports. *)
LEMMA RunsReport ==
  ASSUME NEW s \in Servers, HostAt(s), host[s].loads \in Seq(Loads), task[s] # "load", faults = 0
  PROVE  host[s].weights = host[s].root
PROOF
<1>1. \A k \in 1 .. Len(host[s].loads) : FALSE
  BY DEF HostAt, LoadsQueued, Undisturbed
<1>2. Len(host[s].loads) \in Nat /\ (host[s].loads = <<>> <=> Len(host[s].loads) = 0)
  BY LoadsAt
<1>3. host[s].loads = <<>>
  BY <1>1, <1>2
<1> QED
  BY <1>3 DEF HostAt, Undisturbed

LEMMA QueryNext ==
  ASSUME IInv, NEW s \in Servers, Query(s)
  PROVE  IInv'
PROOF
<1>0. TypeOK /\ HostAt(s) /\ StatusAt(s)
  BY DEF IInv, ServersInv
<1>1. /\ task[s] = "query" /\ lost' = lost \ {s}
      /\ UNCHANGED <<listed, host, desired, lock, todo, faults, crashes>>
      /\ \/ /\ Matches(s) /\ status' = [status EXCEPT ![s] = "ready"]
            /\ task' = [task EXCEPT ![s] = "idle"]
         \/ /\ ~Matches(s) /\ status' = [status EXCEPT ![s] = "syncing"]
            /\ task' = [task EXCEPT ![s] = "send"]
  BY DEF Query
<1>2. /\ \/ Matches(s) /\ status'[s] = "ready" /\ task'[s] = "idle"
         \/ ~Matches(s) /\ status'[s] = "syncing" /\ task'[s] = "send"
      /\ \A r \in Servers \ {s} : task'[r] = task[r] /\ status'[r] = status[r]
      /\ task' \in [Servers -> {"idle", "query", "send", "load", "verify"}]
      /\ status' \in [Servers -> {"unknown", "discovering", "syncing", "ready", "unhealthy"}]
  BY <1>0, <1>1 DEF TypeOK
<1>3. Matches(s) => host[s].root = desired
  BY <1>0, ServerTypes DEF Matches, HostAt, LoadsInOrder
<1>4. ~Matches(s) => desired # 0
  BY DEF Matches
<1>5. HostAt(s)'
  BY <1>0, <1>1, SameHost
<1>6. StatusAt(s)'
  BY <1>1, <1>2, <1>3, <1>4 DEF StatusAt
<1>7. ServerStep(s)
  BY <1>0, <1>1, <1>2, <1>5, <1>6 DEF ServerStep, TypeOK
<1> QED
  BY <1>7, ServerNext

LEMMA SendLoadNext ==
  ASSUME IInv, NEW s \in Servers, SendLoad(s)
  PROVE  IInv'
PROOF
<1> DEFINE h == host[s]
           l == [step |-> desired, live |-> TRUE, begun |-> FALSE]
           new == Append(h.loads, l)
           n == Len(h.loads)
<1>0. TypeOK /\ HostAt(s) /\ StatusAt(s)
  BY DEF IInv, ServersInv
<1>1. /\ task[s] = "send" /\ h.up
      /\ host' = [host EXCEPT ![s] = [h EXCEPT !.loads = new]]
      /\ task' = [task EXCEPT ![s] = "load"]
      /\ UNCHANGED <<listed, lost, status, desired, lock, todo, faults, crashes>>
  BY <1>0, ServerTypes DEF SendLoad, TypeOK, Hosts
<1>2. h \in Hosts /\ h.loads \in Seq(Loads) /\ h.root \in Nat /\ desired \in Nat /\ desired \in Steps
  BY <1>0, ServerTypes
<1>3. l \in Loads /\ l.step = desired /\ l.live = TRUE /\ l.begun = FALSE
  BY <1>2 DEF Loads
<1> HIDE DEF l
<1>4. /\ new \in Seq(Loads) /\ new # <<>> /\ Len(new) = n + 1 /\ n \in Nat
      /\ \A k \in 1 .. n + 1 : new[k] = IF k = n + 1 THEN l ELSE h.loads[k]
      /\ \A k \in 1 .. n : h.loads[k].step \in Nat
  BY <1>2, <1>3, LoadsAppend, LoadsAt
<1>5. /\ task'[s] = "load" /\ \A r \in Servers \ {s} : task'[r] = task[r]
      /\ task' \in [Servers -> {"idle", "query", "send", "load", "verify"}]
      /\ host'[s] = [h EXCEPT !.loads = new] /\ \A r \in Servers \ {s} : host'[r] = host[r]
  BY <1>0, <1>1 DEF TypeOK
<1>6. /\ host'[s] \in Hosts /\ host'[s].loads = new /\ host'[s].up /\ host'[s].root = h.root
      /\ host'[s].weights = h.weights
  <2>1. h.up
    BY <1>1
  <2> HIDE DEF new
  <2> QED
    BY <2>1, <1>2, <1>4, <1>5 DEF Hosts
<1>7. /\ h.root <= desired /\ desired # 0
      /\ \A k \in 1 .. n : /\ h.loads[k].step # 0 /\ h.root <= h.loads[k].step
                           /\ h.loads[k].step <= desired
      /\ \A j, k \in 1 .. n : j <= k => h.loads[j].step <= h.loads[k].step
      /\ \A k \in 1 .. n : (h.loads[k].begun => k = 1) /\ ~h.loads[k].live
  BY <1>0, <1>1 DEF HostAt, StatusAt, LoadsInOrder, LoadsQueued
<1> HIDE DEF new, n
<1>8. \A k \in 1 .. n + 1 : k # n + 1 => k \in 1 .. n
  BY <1>4
<1>9. /\ \A k \in 1 .. n + 1 : new[k].step # 0 /\ h.root <= new[k].step /\ new[k].step <= desired
      /\ \A j, k \in 1 .. n + 1 : j <= k => new[j].step <= new[k].step
  <2>1. \A k \in 1 .. n + 1 : new[k].step # 0 /\ h.root <= new[k].step /\ new[k].step <= desired
    BY <1>2, <1>3, <1>4, <1>7, <1>8
  <2>2. \A j, k \in 1 .. n + 1 : j <= k => new[j].step <= new[k].step
    <3>1. TAKE j, k \in 1 .. n + 1
    <3>2. HAVE j <= k
    <3>3. CASE k = n + 1
      BY <1>3, <1>4, <2>1, <3>3
    <3>4. CASE k # n + 1
      <4>1. k \in 1 .. n /\ j \in 1 .. n /\ j # n + 1
        BY <1>4, <1>8, <3>2, <3>4
      <4> QED
        BY <1>4, <1>7, <3>2, <3>4, <4>1
    <3> QED
      BY <3>3, <3>4
  <2> QED
    BY <2>1, <2>2
<1>10. LoadsInOrder(new, h.root, desired)
  BY <1>4, <1>7, <1>9 DEF LoadsInOrder
<1>11. LoadsQueued(new, "load")
  BY <1>3, <1>4, <1>7, <1>8 DEF LoadsQueued
<1>12. faults = 0 => Undisturbed(host'[s])
  <2>1. ASSUME faults = 0
        PROVE  n = 0 /\ h.weights = h.root
    <3>1. \A k \in 1 .. n : FALSE
      BY <1>0, <1>7, <2>1 DEF HostAt, Undisturbed, n
    <3> QED
      BY <1>0, <1>1, <1>2, <1>4, <2>1, <3>1, RunsReport
  <2>2. n = 0 => new[1] = l /\ \A k \in 1 .. n + 1 : new[k] = l
    BY <1>4
  <2> QED
    BY <1>3, <1>4, <1>6, <2>1, <2>2 DEF Undisturbed
<1>13. HostAt(s)'
  BY <1>1, <1>5, <1>6, <1>10, <1>11, <1>12 DEF HostAt
<1>14. StatusAt(s)'
  BY <1>0, <1>1, <1>5, <1>6, <1>7 DEF StatusAt
<1>15. host' \in [Servers -> Hosts]
  BY <1>0, <1>1, <1>5, <1>6 DEF TypeOK
<1>16. ServerStep(s)
  BY <1>0, <1>1, <1>5, <1>13, <1>14, <1>15 DEF ServerStep, TypeOK
<1> QED
  BY <1>16, ServerNext

LEMMA UnreachableNext ==
  ASSUME IInv, NEW s \in Servers, Unreachable(s)
  PROVE  IInv'
PROOF
<1> DEFINE loads == host[s].loads
<1>0. TypeOK /\ HostAt(s) /\ StatusAt(s)
  BY DEF IInv, ServersInv
<1>1. /\ task[s] \in {"send", "load"}
      /\ ~host[s].up \/ (task[s] = "load" /\ \A k \in DOMAIN loads : ~loads[k].live)
      /\ UNCHANGED <<listed, host, lost, desired, lock, todo, faults, crashes>>
  BY DEF Unreachable, hostVars
<1>2. /\ \/ task[s] = "load" /\ task'[s] = "send" /\ status'[s] = status[s]
         \/ task'[s] = "idle" /\ status'[s] = "unhealthy"
      /\ \A r \in Servers \ {s} : task'[r] = task[r] /\ status'[r] = status[r]
      /\ task' \in [Servers -> {"idle", "query", "send", "load", "verify"}]
      /\ status' \in [Servers -> {"unknown", "discovering", "syncing", "ready", "unhealthy"}]
  BY <1>0 DEF Unreachable, TypeOK
<1>3. \A k \in 1 .. Len(loads) : ~loads[k].live
  <2>1. /\ loads \in Seq(Loads) /\ DOMAIN loads = 1 .. Len(loads)
        /\ loads = <<>> => Len(loads) = 0
    BY <1>0, ServerTypes, LoadsAt
  <2>2. ~host[s].up => loads = <<>>
    BY <1>0 DEF HostAt
  <2> QED
    BY <1>1, <2>1, <2>2
<1>4. LoadsQueued(loads, task'[s])
  BY <1>0, <1>2, <1>3 DEF HostAt, LoadsQueued
<1>5. HostAt(s)'
  BY <1>0, <1>1, <1>4 DEF HostAt
<1>6. StatusAt(s)'
  BY <1>0, <1>1, <1>2 DEF StatusAt
<1>7. ServerStep(s)
  BY <1>0, <1>1, <1>2, <1>5, <1>6 DEF ServerStep, TypeOK
<1> QED
  BY <1>7, ServerNext

LEMMA LoadTimesOutNext ==
  ASSUME IInv, NEW s \in Servers, LoadTimesOut(s)
  PROVE  IInv'
PROOF
<1> DEFINE h == host[s]
           n == Len(h.loads)
           l == [h.loads[n] EXCEPT !.live = FALSE]
           new == [h.loads EXCEPT ![n] = l]
<1>0. TypeOK /\ HostAt(s) /\ StatusAt(s)
  BY DEF IInv, ServersInv
<1>1. h \in Hosts /\ h.loads \in Seq(Loads) /\ h.root \in Nat /\ desired \in Nat
  BY <1>0, ServerTypes
<1>2. /\ task[s] = "load" /\ h.up /\ h.loads # <<>> /\ Fault
      /\ host' = [host EXCEPT ![s] = [h EXCEPT !.loads = GivenUp(h.loads)]]
      /\ UNCHANGED <<listed, lost, desired, lock, todo, crashes>>
  BY <1>0, <1>1 DEF LoadTimesOut, TypeOK, Hosts
<1>3. /\ \A r \in Servers \ {s} : task'[r] = task[r] /\ status'[r] = status[r]
      /\ task' \in [Servers -> {"idle", "query", "send", "load", "verify"}]
      /\ status' \in [Servers -> {"unknown", "discovering", "syncing", "ready", "unhealthy"}]
      /\ \/ task'[s] = "send" /\ status'[s] = status[s]
         \/ task'[s] = "idle" /\ status'[s] = "unhealthy"
  BY <1>0 DEF LoadTimesOut, TypeOK
<1>4. n \in 1 .. n /\ n \in Nat /\ h.loads[n] \in Loads
  BY <1>1, <1>2, LoadsTail, LoadsAt
<1>5. l \in Loads /\ l.step = h.loads[n].step /\ ~l.live /\ l.begun = h.loads[n].begun
  BY <1>4 DEF Loads
<1>6. GivenUp(h.loads) = new
  BY <1>1, <1>4 DEF GivenUp
<1> HIDE DEF l
<1>7. /\ new \in Seq(Loads) /\ Len(new) = n
      /\ \A k \in 1 .. n : new[k].step = h.loads[k].step
      /\ \A k \in 1 .. n : new[k] = IF k = n THEN l ELSE h.loads[k]
  BY <1>1, <1>4, <1>5, LoadsExcept
<1> HIDE DEF new
<1>8. /\ host'[s] = [h EXCEPT !.loads = new] /\ \A r \in Servers \ {s} : host'[r] = host[r]
  BY <1>0, <1>2, <1>6 DEF TypeOK
<1>9. host'[s] \in Hosts /\ host'[s].loads = new /\ host'[s].up /\ host'[s].root = h.root
  <2>1. h.up
    BY <1>2
  <2> QED
    BY <2>1, <1>1, <1>7, <1>8 DEF Hosts
<1>10. LoadsInOrder(new, h.root, desired)
  BY <1>0, <1>7 DEF HostAt, LoadsInOrder
<1>11. LoadsQueued(new, task'[s])
  <2>1. \A k \in 1 .. n : (h.loads[k].begun => k = 1) /\ (h.loads[k].live => k = n)
    BY <1>0 DEF HostAt, LoadsQueued
  <2>2. \A k \in 1 .. n : (new[k].begun => k = 1) /\ ~new[k].live
    BY <1>4, <1>5, <1>7, <2>1
  <2> QED
    BY <1>7, <2>2 DEF LoadsQueued
<1>12. faults' \in 0 .. MaxFaults /\ faults' # 0
  BY <1>0, <1>2, FaultTypes
<1>13. HostAt(s)'
  BY <1>2, <1>9, <1>10, <1>11, <1>12 DEF HostAt
<1>14. StatusAt(s)'
  BY <1>0, <1>2, <1>3, <1>9 DEF StatusAt
<1>15. host' \in [Servers -> Hosts]
  BY <1>0, <1>2, <1>8, <1>9, <1>6 DEF TypeOK
<1>16. ServerStep(s)
  BY <1>0, <1>2, <1>3, <1>8, <1>12, <1>13, <1>14, <1>15 DEF ServerStep, TypeOK
<1> QED
  BY <1>16, ServerNext

LEMMA VerifyNext ==
  ASSUME IInv, NEW s \in Servers, Verify(s)
  PROVE  IInv'
PROOF
<1>0. TypeOK /\ HostAt(s) /\ StatusAt(s)
  BY DEF IInv, ServersInv
<1>1. /\ task[s] = "verify" /\ lost' = lost \ {s} /\ task' = [task EXCEPT ![s] = "idle"]
      /\ status' = [status EXCEPT ![s] = IF Matches(s) THEN "ready" ELSE "unhealthy"]
      /\ UNCHANGED <<listed, host, desired, lock, todo, faults, crashes>>
  BY DEF Verify
<1>2. /\ task'[s] = "idle"
      /\ \/ Matches(s) /\ status'[s] = "ready"
         \/ ~Matches(s) /\ status'[s] = "unhealthy"
      /\ \A r \in Servers \ {s} : task'[r] = task[r] /\ status'[r] = status[r]
      /\ task' \in [Servers -> {"idle", "query", "send", "load", "verify"}]
      /\ status' \in [Servers -> {"unknown", "discovering", "syncing", "ready", "unhealthy"}]
  BY <1>0, <1>1 DEF TypeOK
<1>3. Matches(s) => host[s].root = desired
  BY <1>0, ServerTypes DEF Matches, HostAt, LoadsInOrder
<1>4. HostAt(s)'
  BY <1>0, <1>1, SameHost
<1>5. StatusAt(s)'
  BY <1>1, <1>2, <1>3 DEF StatusAt
<1>6. ServerStep(s)
  BY <1>0, <1>1, <1>2, <1>4, <1>5 DEF ServerStep, TypeOK
<1> QED
  BY <1>6, ServerNext

-----------------------------------------------------------------------------
(* sync and sync_weights *)

Todos == [stage : {"none", "add", "check"}, add : SUBSET Servers,
          drop : SUBSET Servers, check : SUBSET Servers]

(* A step of sync: it asks servers that nobody is busy with, or takes some out
   of routing. *)
SyncStep ==
    /\ UNCHANGED <<listed, host, lost, desired, crashes>>
    /\ task' \in [Servers -> {"idle", "query", "send", "load", "verify"}]
    /\ status' \in [Servers -> {"unknown", "discovering", "syncing", "ready", "unhealthy"}]
    /\ lock' \in {"free", "sync", "update"} /\ todo' \in Todos
    /\ faults' \in 0 .. MaxFaults /\ (faults' = 0 => faults = 0)
    /\ \A r \in Servers : /\ task'[r] = task[r] \/ (task[r] = "idle" /\ task'[r] = "query")
                          /\ status'[r] = "ready" => status[r] = "ready"
    /\ LockInv'

LEMMA SyncStepNext ==
  ASSUME IInv, SyncStep
  PROVE  IInv'
PROOF
<1>0. TypeOK /\ ServersInv
  BY DEF IInv
<1>1. ASSUME NEW r \in Servers
      PROVE  HostAt(r)' /\ StatusAt(r)'
  <2>1. HostAt(r) /\ StatusAt(r)
    BY <1>0 DEF ServersInv
  <2>2. /\ host'[r] = host[r] /\ desired' = desired /\ lost' = lost /\ (faults' = 0 => faults = 0)
        /\ task'[r] = task[r] \/ (task[r] = "idle" /\ task'[r] = "query")
        /\ status'[r] = "ready" => status[r] = "ready"
    BY DEF SyncStep
  <2>3. HostAt(r)'
    BY <2>1, <2>2, SameHost
  <2>4. StatusAt(r)'
    BY <2>1, <2>2 DEF StatusAt
  <2> QED
    BY <2>3, <2>4
<1>2. ServersInv'
  BY <1>1 DEF ServersInv
<1>3. TypeOK'
  BY <1>0 DEF TypeOK, SyncStep, Todos
<1> QED
  BY <1>2, <1>3 DEF IInv, SyncStep

LEMMA SyncNext ==
  ASSUME IInv, Sync
  PROVE  IInv'
PROOF
<1>0. TypeOK /\ LockInv
  BY DEF IInv
<1>1. /\ todo \in Todos /\ faults \in 0 .. MaxFaults /\ Known \in SUBSET Servers
      /\ listed \in SUBSET Servers /\ lock \in {"free", "sync", "update"}
      /\ task \in [Servers -> {"idle", "query", "send", "load", "verify"}]
      /\ status \in [Servers -> {"unknown", "discovering", "syncing", "ready", "unhealthy"}]
  BY <1>0 DEF TypeOK, Todos, Known
<1>2. CASE SyncStart
  <2>1. todo' \in Todos /\ todo'.stage = "add"
    BY <1>1, <1>2 DEF SyncStart, Todos
  <2> QED
    BY <1>0, <1>1, <1>2, <2>1, SyncStepNext DEF SyncStart, SyncStep, LockInv, hostVars
<1>3. ASSUME NEW s \in Servers, Add(s)
      PROVE  IInv'
  <2>1. /\ todo.stage = "add" /\ Working = {} /\ todo' = [todo EXCEPT !.add = @ \ {s}]
        /\ UNCHANGED <<listed, host, lost, desired, lock, crashes>>
    BY <1>3 DEF Add, hostVars
  <2>2. todo' \in Todos /\ todo'.stage = "add"
    BY <1>1, <2>1 DEF Todos
  <2>3. \A r \in Servers : task[r] = "idle"
    BY <2>1 DEF Working
  <2>4. faults' \in 0 .. MaxFaults /\ (faults' = 0 => faults = 0)
    <3>1. UNCHANGED faults \/ Fault
      BY <1>3 DEF Add, Healthy, Sick
    <3> QED
      BY <1>0, <1>1, <3>1, FaultTypes
  <2>5. /\ task' \in [Servers -> {"idle", "query", "send", "load", "verify"}]
        /\ status' \in [Servers -> {"unknown", "discovering", "syncing", "ready", "unhealthy"}]
        /\ \A r \in Servers : /\ task'[r] = task[r] \/ task'[r] = "query"
                              /\ status'[r] = "ready" => status[r] = "ready"
    BY <1>1, <1>3 DEF Add
  <2>6. LockInv'
    BY <1>0, <2>1, <2>2 DEF LockInv
  <2>7. SyncStep
    BY <1>1, <2>1, <2>2, <2>3, <2>4, <2>5, <2>6 DEF SyncStep
  <2> QED
    BY <2>7, SyncStepNext
<1>4. ASSUME NEW s \in Servers, Check(s)
      PROVE  IInv'
  <2>1. /\ todo.stage = "check" /\ Working = {} /\ todo' = [todo EXCEPT !.check = @ \ {s}]
        /\ UNCHANGED <<listed, host, lost, desired, lock, crashes>>
    BY <1>4 DEF Check, hostVars
  <2>2. todo' \in Todos /\ todo'.stage = "check"
    BY <1>1, <2>1 DEF Todos
  <2>3. \A r \in Servers : task[r] = "idle"
    BY <2>1 DEF Working
  <2>4. faults' \in 0 .. MaxFaults /\ (faults' = 0 => faults = 0)
    <3>1. UNCHANGED faults \/ Fault
      BY <1>4 DEF Check, Healthy, Sick
    <3> QED
      BY <1>0, <1>1, <3>1, FaultTypes
  <2>5. /\ task' \in [Servers -> {"idle", "query", "send", "load", "verify"}]
        /\ status' \in [Servers -> {"unknown", "discovering", "syncing", "ready", "unhealthy"}]
        /\ \A r \in Servers : /\ task'[r] = task[r] \/ task'[r] = "query"
                              /\ status'[r] = "ready" => status[r] = "ready"
    BY <1>1, <1>4 DEF Check
  <2>6. LockInv'
    BY <1>0, <2>1, <2>2 DEF LockInv
  <2>7. SyncStep
    BY <1>1, <2>1, <2>2, <2>3, <2>4, <2>5, <2>6 DEF SyncStep
  <2> QED
    BY <2>7, SyncStepNext
<1>5. CASE Remove
  <2>1. /\ todo.stage = "add" /\ UNCHANGED <<listed, host, lost, desired, lock, task, faults, crashes>>
        /\ todo' = [todo EXCEPT !.stage = "check", !.drop = {}, !.check = Known \ todo.drop]
        /\ status' = [s \in Servers |-> IF s \in todo.drop THEN "unknown" ELSE status[s]]
    BY <1>5 DEF Remove, hostVars
  <2>2. todo' \in Todos /\ todo'.stage = "check"
    BY <1>1, <2>1 DEF Todos
  <2>3. LockInv' <=> LockInv
    BY <2>1, <2>2 DEF LockInv, Working
  <2> QED
    BY <1>0, <1>1, <2>1, <2>2, <2>3, SyncStepNext DEF SyncStep
<1>6. CASE SyncEnd
  <2>1. NothingToDo \in Todos /\ NothingToDo.stage = "none"
    BY DEF NothingToDo, Todos
  <2>2. Working' = Working
    BY <1>6 DEF SyncEnd, Working
  <2> QED
    BY <1>0, <1>1, <1>6, <2>1, <2>2, SyncStepNext DEF SyncEnd, SyncStep, LockInv, hostVars
<1> QED
  BY <1>2, <1>3, <1>4, <1>5, <1>6 DEF Sync

LEMMA UpdateNext ==
  ASSUME IInv, Update
  PROVE  IInv'
PROOF
<1>0. TypeOK /\ ServersInv /\ LockInv
  BY DEF IInv
<1>1. CASE UpdateStart
  <2>1. /\ lock = "free" /\ lock' = "update" /\ desired' \in desired + 1 .. MaxStep
        /\ task' = [s \in Servers |-> IF s \in Updated THEN "query" ELSE "idle"]
        /\ UNCHANGED <<listed, host, lost, status, todo, faults, crashes>>
    BY <1>1 DEF UpdateStart, hostVars
  <2>2. /\ desired \in Nat /\ desired' \in Nat /\ desired' \in Steps /\ desired <= desired'
        /\ task' \in [Servers -> {"idle", "query", "send", "load", "verify"}]
    BY <1>0, <2>1, ElasticAssumption DEF TypeOK, Steps
  <2>3. ASSUME NEW r \in Servers
        PROVE  HostAt(r)' /\ StatusAt(r)'
    <3>0. HostAt(r)
      BY <1>0 DEF ServersInv
    <3>1. /\ task[r] = "idle" /\ task'[r] \in {"idle", "query"}
          /\ status[r] = "ready" => task'[r] = "query"
      BY <1>0, <2>1 DEF LockInv, Working, Updated, Known
    <3>2. /\ host[r].root \in Nat
          /\ \A k \in 1 .. Len(host[r].loads) : host[r].loads[k].step \in Nat
      BY <1>0, ServerTypes, LoadsAt
    <3>3. LoadsInOrder(host[r].loads, host[r].root, desired')
      BY <2>2, <3>0, <3>2 DEF HostAt, LoadsInOrder
    <3>4. LoadsQueued(host[r].loads, task'[r])
      BY <3>0, <3>1 DEF HostAt, LoadsQueued
    <3>5. HostAt(r)'
      BY <2>1, <3>0, <3>3, <3>4 DEF HostAt
    <3>6. StatusAt(r)'
      BY <2>1, <3>1 DEF StatusAt
    <3> QED
      BY <3>5, <3>6
  <2>4. ServersInv'
    BY <2>3 DEF ServersInv
  <2>5. \A s \in Servers : \A k \in DOMAIN host'[s].loads :
          /\ host'[s].loads[k].begun => k = 1
          /\ host'[s].loads[k].live => k = Len(host'[s].loads) /\ task'[s] = "load"
    <3>1. TAKE s \in Servers
    <3>2. LoadsQueued(host'[s].loads, task'[s])
      BY <2>4 DEF ServersInv, HostAt
    <3>3. host'[s].loads \in Seq(Loads)
      BY <1>0, <2>1, ServerTypes
    <3> QED
      BY <3>2, <3>3, LoadsAt DEF LoadsQueued
  <2>6. TypeOK'
    BY <1>0, <2>1, <2>2, <2>5 DEF TypeOK
  <2>7. LockInv'
    BY <1>0, <2>1 DEF LockInv
  <2> QED
    BY <2>4, <2>6, <2>7 DEF IInv
<1>2. CASE UpdateEnd
  <2>1. Working' = Working
    BY <1>2 DEF UpdateEnd, Working
  <2> QED
    BY <1>0, <1>2, <2>1, SyncStepNext
       DEF UpdateEnd, SyncStep, LockInv, TypeOK, Todos, hostVars
<1> QED
  BY <1>1, <1>2 DEF Update

-----------------------------------------------------------------------------
LEMMA InitIInv == Init => IInv
PROOF
<1>1. ASSUME Init
      PROVE  IInv
  <2>1. /\ Down \in Hosts /\ Down.loads = <<>> /\ Down.root = 0 /\ Down.weights = 0
        /\ DOMAIN <<>> = {} /\ 0 \in Steps
    BY EmptySeq, ElasticAssumption DEF Down, Hosts, Steps
  <2>2. NothingToDo \in [stage : {"none", "add", "check"}, add : SUBSET Servers,
                         drop : SUBSET Servers, check : SUBSET Servers]
        /\ NothingToDo.stage = "none"
    BY DEF NothingToDo
  <2>3. TypeOK
    BY <1>1, <2>1, <2>2, ElasticAssumption DEF Init, TypeOK
  <2>4. ASSUME NEW s \in Servers
        PROVE  HostAt(s) /\ StatusAt(s)
    BY <1>1, <2>1 DEF Init, HostAt, StatusAt, LoadsInOrder, LoadsQueued, Undisturbed
  <2>5. LockInv
    BY <1>1, <2>2 DEF Init, LockInv, Working
  <2> QED
    BY <2>3, <2>4, <2>5 DEF IInv, ServersInv
<1> QED
  BY <1>1

LEMMA Inductive == IInv /\ [Next]_vars => IInv'
PROOF
<1>1. SUFFICES ASSUME IInv, [Next]_vars
               PROVE  IInv'
  OBVIOUS
<1>2. CASE Sync
  BY <1>1, <1>2, SyncNext
<1>3. CASE Update
  BY <1>1, <1>3, UpdateNext
<1>4. ASSUME NEW s \in Servers, Environment(s)
      PROVE  IInv'
  BY <1>1, <1>4, EnvironmentNext
<1>5. ASSUME NEW s \in Servers, Server(s)
      PROVE  IInv'
  BY <1>1, <1>5, LoadBeginNext, LoadDoneNext, LoadFailsNext DEF Server
<1>6. ASSUME NEW s \in Servers, SyncServer(s)
      PROVE  IInv'
  BY <1>1, <1>6, QueryNext, SendLoadNext, UnreachableNext, LoadTimesOutNext, VerifyNext
     DEF SyncServer
<1>7. CASE UNCHANGED vars
  <2>1. UNCHANGED <<listed, host, lost, status, desired, lock, todo, task, faults, crashes>>
    BY <1>7 DEF vars, hostVars, poolVars
  <2>2. UNCHANGED Working
    BY <2>1 DEF Working
  <2> QED
    BY <1>1, <2>1, <2>2 DEF IInv, TypeOK, ServersInv, HostAt, StatusAt, LockInv
<1> QED
  BY <1>1, <1>2, <1>3, <1>4, <1>5, <1>6, <1>7 DEF Next

LEMMA Invariance == Spec => []IInv
PROOF
<1> QED
  BY InitIInv, Inductive, PTL DEF Spec

(* The variables keep their types; of the loads that a server has queued, only
   the first runs and only the last is waited for (load_lora_adapter takes the
   lock of its name, _sync_server_adapter sends one request at a time). *)
THEOREM TypeCorrect == Spec => []TypeOK
PROOF
<1>1. IInv => TypeOK
  BY DEF IInv
<1> QED
  BY <1>1, Invariance, PTL

(* What rollouts are given reports the adapter of the current step, and runs it
   until a load has failed or been given up, whatever comes, goes, is updated
   or times out meanwhile (_sync_server_adapter, sync, sync_weights). *)
THEOREM ExposedAreCurrent == Spec => []ExposedMatch
PROOF
<1>1. ASSUME IInv
      PROVE  ExposedMatch
  <2>1. ASSUME NEW s \in Exposed \ lost, task[s] # "query"
        PROVE  /\ desired = 0 \/ host[s].root = desired
               /\ faults = 0 => host[s].weights = desired
    <3>1. s \in Servers /\ s \notin lost /\ status[s] = "ready" /\ HostAt(s) /\ StatusAt(s) /\ TypeOK
      BY <1>1, <2>1 DEF Exposed, IInv, ServersInv
    <3>2. host[s].root = desired /\ task[s] # "load" /\ host[s].loads \in Seq(Loads)
      BY <2>1, <3>1, ServerTypes DEF StatusAt
    <3> QED
      BY <3>1, <3>2, RunsReport
  <2> QED
    BY <2>1 DEF ExposedMatch
<1> QED
  BY <1>1, Invariance, PTL
=============================================================================
