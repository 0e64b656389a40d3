---------------------------- MODULE ElasticPool ----------------------------
(***************************************************************************)
(* ElasticInferencePool (utils/elastic.py): servers that DNS lists are       *)
(* found, brought to the adapter of the current step and exposed to          *)
(* rollouts.  A lock serialises sync, which the sync loop and wait_for_ready *)
(* call, and sync_weights, which brings all servers to a new adapter at      *)
(* once.  Reading ready_urls takes no lock.                                  *)
(*                                                                           *)
(* The other side is the server's /load_lora_adapter                         *)
(* (inference/patches.py): loads of one name queue on a lock, and a load     *)
(* over a known adapter writes the new path into the list that /v1/models    *)
(* reports before the engine has loaded anything.                            *)
(*                                                                           *)
(* An adapter is the step it was broadcast for; 0 is the base model alone.   *)
(* A query is answered and looked at in one step.  Creating the clients that *)
(* rollouts use from ready_urls has no state of its own.                     *)
(***************************************************************************)
EXTENDS Naturals, Sequences, FiniteSets

CONSTANTS
    Servers,     \* the addresses that may ever be listed
    MaxStep,     \* bound: adapters of the run
    MaxFaults,   \* bound: loads that fail or time out, failed health checks
    MaxCrashes   \* bound: servers that die

ASSUME ElasticAssumption ==
    MaxStep \in Nat /\ MaxFaults \in Nat /\ MaxCrashes \in Nat

VARIABLES
    listed,    \* what DNS resolves the hostname to
    host,      \* server -> is it up, its weights, what it reports, its loads
    lost,      \* history: has died since its adapter was last looked at
    status,    \* server -> status in _servers; "unknown" when not in it
    desired,   \* _desired.step
    lock,      \* who holds _lock
    todo,      \* what is left of sync: servers to add, to remove, to check
    task,      \* server -> where _sync_server_adapter stands for it
    faults, crashes

hostVars == <<listed, host, lost>>
poolVars == <<status, desired, lock, todo, task>>
vars == <<hostVars, poolVars, faults, crashes>>

Steps == 0 .. MaxStep

(* loads: requests the server has not finished, the first one running if    *)
(* "begun"; "live" if the pool still waits for the answer.                  *)
Loads == [step : Steps, live : BOOLEAN, begun : BOOLEAN]
Hosts == [up : BOOLEAN, weights : Steps, root : Steps, loads : Seq(Loads)]

NothingToDo == [stage |-> "none", add |-> {}, drop |-> {}, check |-> {}]

TypeOK ==
    /\ listed \subseteq Servers /\ lost \subseteq Servers
    /\ host \in [Servers -> Hosts]
    /\ \A s \in Servers : \A k \in DOMAIN host[s].loads :
         /\ host[s].loads[k].begun => k = 1
         /\ host[s].loads[k].live => k = Len(host[s].loads) /\ task[s] = "load"
    /\ status \in [Servers -> {"unknown", "discovering", "syncing", "ready", "unhealthy"}]
    /\ desired \in Steps
    /\ lock \in {"free", "sync", "update"}
    /\ todo \in [stage : {"none", "add", "check"}, add : SUBSET Servers,
                 drop : SUBSET Servers, check : SUBSET Servers]
    /\ task \in [Servers -> {"idle", "query", "send", "load", "verify"}]
    /\ faults \in 0 .. MaxFaults /\ crashes \in 0 .. MaxCrashes

Down == [up |-> FALSE, weights |-> 0, root |-> 0, loads |-> << >>]

Init ==
    /\ listed = {} /\ host = [s \in Servers |-> Down] /\ lost = {}
    /\ status = [s \in Servers |-> "unknown"] /\ desired = 0
    /\ lock = "free" /\ todo = NothingToDo
    /\ task = [s \in Servers |-> "idle"]
    /\ faults = 0 /\ crashes = 0

Known == {s \in Servers : status[s] # "unknown"}
Working == {s \in Servers : task[s] # "idle"}
Fault == faults < MaxFaults /\ faults' = faults + 1

-----------------------------------------------------------------------------
(* The servers, and the DNS entry of each. *)

List(s) ==
    /\ listed' = listed \cup {s}
    /\ s \notin listed
    /\ UNCHANGED <<host, lost, poolVars, faults, crashes>>

(* The entry goes when the pod goes, or some time before or after. *)
Unlist(s) ==
    /\ s \in listed /\ crashes < MaxCrashes /\ crashes' = crashes + 1
    /\ listed' = listed \ {s}
    /\ UNCHANGED <<host, lost, poolVars, faults>>

Boot(s) ==
    /\ ~host[s].up
    /\ host' = [host EXCEPT ![s].up = TRUE]
    /\ UNCHANGED <<listed, lost, poolVars, faults, crashes>>

Crash(s) ==
    /\ host[s].up /\ crashes < MaxCrashes /\ crashes' = crashes + 1
    /\ host' = [host EXCEPT ![s] = Down]
    /\ lost' = lost \cup {s}
    /\ UNCHANGED <<listed, poolVars, faults>>

(* lora_request.lora_path = lora_path, if the name is known. *)
Report(h, step) == IF h.root = 0 THEN 0 ELSE step

LoadBegin(s) ==
    /\ host[s].up /\ host[s].loads # << >> /\ ~host[s].loads[1].begun
    /\ host' = [host EXCEPT ![s].loads[1].begun = TRUE,
                            ![s].root = Report(host[s], host[s].loads[1].step)]
    /\ UNCHANGED <<listed, lost, poolVars, faults, crashes>>

Running(s) == host[s].up /\ host[s].loads # << >> /\ host[s].loads[1].begun

LoadDone(s) ==
    /\ Running(s)
    /\ LET load == host[s].loads[1]
       IN  /\ host' = [host EXCEPT ![s].weights = load.step, ![s].root = load.step,
                                   ![s].loads = Tail(@)]
           /\ task' = IF load.live THEN [task EXCEPT ![s] = "verify"] ELSE task
    /\ UNCHANGED <<listed, lost, status, desired, lock, todo, faults, crashes>>

(* add_lora raises: the adapter is not found yet, or cannot be loaded.  The *)
(* engine keeps what it had.                                                *)
LoadFails(s) ==
    /\ Running(s) /\ Fault
    /\ host' = [host EXCEPT ![s].loads = Tail(@)]
    /\ IF host[s].loads[1].live
       THEN \/ /\ task' = [task EXCEPT ![s] = "send"] /\ UNCHANGED status
            \/ /\ task' = [task EXCEPT ![s] = "idle"]
               /\ status' = [status EXCEPT ![s] = "unhealthy"]
       ELSE UNCHANGED <<task, status>>
    /\ UNCHANGED <<listed, lost, desired, lock, todo, crashes>>

-----------------------------------------------------------------------------
(* _sync_server_adapter, load_lora_adapter *)

(* _get_loaded_adapter and _adapter_matches_desired; a server that cannot be *)
(* asked has no adapter.                                                     *)
Matches(s) == desired = 0 \/ (host[s].up /\ host[s].root = desired)

Query(s) ==
    /\ task[s] = "query"
    /\ IF Matches(s)
       THEN /\ status' = [status EXCEPT ![s] = "ready"]
            /\ task' = [task EXCEPT ![s] = "idle"]
       ELSE /\ status' = [status EXCEPT ![s] = "syncing"]
            /\ task' = [task EXCEPT ![s] = "send"]
    /\ lost' = lost \ {s}
    /\ UNCHANGED <<listed, host, desired, lock, todo, faults, crashes>>

SendLoad(s) ==
    /\ task[s] = "send" /\ host[s].up
    /\ host' = [host EXCEPT ![s].loads =
                   Append(@, [step |-> desired, live |-> TRUE, begun |-> FALSE])]
    /\ task' = [task EXCEPT ![s] = "load"]
    /\ UNCHANGED <<listed, lost, status, desired, lock, todo, faults, crashes>>

(* Nobody answers: the pool asks once more, or the retries end. *)
Unreachable(s) ==
    /\ task[s] \in {"send", "load"}
    /\ ~host[s].up \/ (task[s] = "load" /\ ~\E k \in DOMAIN host[s].loads : host[s].loads[k].live)
    /\ \/ /\ task[s] = "load" /\ task' = [task EXCEPT ![s] = "send"] /\ UNCHANGED status
       \/ /\ task' = [task EXCEPT ![s] = "idle"]
          /\ status' = [status EXCEPT ![s] = "unhealthy"]
    /\ UNCHANGED <<hostVars, desired, lock, todo, faults, crashes>>

(* Mutant: an answer to an abandoned request still counts. *)
StillLive(loads) == loads
GivenUp(loads) == [loads EXCEPT ![Len(loads)].live = FALSE]

(* LORA_LOAD_READ_TIMEOUT_S: the request goes on in the server, the pool    *)
(* sends another one or gives up.                                           *)
LoadTimesOut(s) ==
    /\ task[s] = "load" /\ host[s].up /\ host[s].loads # << >> /\ Fault
    /\ host' = [host EXCEPT ![s].loads = GivenUp(@)]
    /\ \/ /\ task' = [task EXCEPT ![s] = "send"] /\ UNCHANGED status
       \/ /\ task' = [task EXCEPT ![s] = "idle"]
          /\ status' = [status EXCEPT ![s] = "unhealthy"]
    /\ UNCHANGED <<listed, lost, desired, lock, todo, crashes>>

Verify(s) ==
    /\ task[s] = "verify"
    /\ task' = [task EXCEPT ![s] = "idle"]
    /\ status' = [status EXCEPT ![s] = IF Matches(s) THEN "ready" ELSE "unhealthy"]
    /\ lost' = lost \ {s}
    /\ UNCHANGED <<listed, host, desired, lock, todo, faults, crashes>>

-----------------------------------------------------------------------------
(* sync *)

SyncStart ==
    /\ lock = "free" /\ lock' = "sync"
    /\ todo' = [stage |-> "add", add |-> listed \ Known, drop |-> Known \ listed, check |-> {}]
    /\ UNCHANGED <<hostVars, status, desired, task, faults, crashes>>

(* _check_server_health: a server that is down or, once in a while, one that *)
(* is up does not answer.                                                    *)
Healthy(s) == host[s].up /\ UNCHANGED faults
Sick(s) == IF host[s].up THEN Fault ELSE UNCHANGED faults

(* _add_server *)
Add(s) ==
    /\ todo.stage = "add" /\ Working = {} /\ s \in todo.add
    /\ todo' = [todo EXCEPT !.add = @ \ {s}]
    /\ \/ /\ Healthy(s)
          /\ status' = [status EXCEPT ![s] = "discovering"]
          /\ task' = [task EXCEPT ![s] = "query"]
       \/ Sick(s) /\ UNCHANGED <<status, task>>
    /\ UNCHANGED <<hostVars, desired, lock, crashes>>

Remove ==
    /\ todo.stage = "add" /\ Working = {} /\ todo.add = {}
    /\ status' = [s \in Servers |-> IF s \in todo.drop THEN "unknown" ELSE status[s]]
    /\ todo' = [todo EXCEPT !.stage = "check", !.drop = {}, !.check = Known \ todo.drop]
    /\ UNCHANGED <<hostVars, desired, lock, task, faults, crashes>>

(* Mutant: a server that failed once is left alone. *)
NewOnly(s) == status[s] \in {"discovering", "syncing"}
NeedsSync(s) == status[s] # "ready"

Check(s) ==
    /\ todo.stage = "check" /\ Working = {} /\ s \in todo.check
    /\ todo' = [todo EXCEPT !.check = @ \ {s}]
    /\ \/ /\ Healthy(s)
          /\ task' = IF NeedsSync(s) THEN [task EXCEPT ![s] = "query"] ELSE task
          /\ UNCHANGED status
       \/ /\ Sick(s)
          /\ status' = [status EXCEPT ![s] = "unknown"] /\ UNCHANGED task
    /\ UNCHANGED <<hostVars, desired, lock, crashes>>

SyncEnd ==
    /\ todo.stage = "check" /\ Working = {} /\ todo.check = {}
    /\ lock' = "free" /\ todo' = NothingToDo
    /\ UNCHANGED <<hostVars, status, desired, task, faults, crashes>>

(* Mutant: the servers in routing are left alone. *)
NotReady == {s \in Known : status[s] # "ready"}
Updated == Known

(* sync_weights *)
UpdateStart ==
    /\ lock = "free" /\ lock' = "update"
    /\ desired' \in desired + 1 .. MaxStep
    /\ task' = [s \in Servers |-> IF s \in Updated THEN "query" ELSE "idle"]
    /\ UNCHANGED <<hostVars, status, todo, faults, crashes>>

UpdateEnd ==
    /\ lock = "update" /\ Working = {} /\ lock' = "free"
    /\ UNCHANGED <<hostVars, status, desired, todo, task, faults, crashes>>

-----------------------------------------------------------------------------
Environment(s) == List(s) \/ Unlist(s) \/ Boot(s) \/ Crash(s)
Server(s) == LoadBegin(s) \/ LoadDone(s) \/ LoadFails(s)
SyncServer(s) == Query(s) \/ SendLoad(s) \/ Unreachable(s) \/ LoadTimesOut(s) \/ Verify(s)
Sync == SyncStart \/ (\E s \in Servers : Add(s) \/ Check(s)) \/ Remove \/ SyncEnd
Update == UpdateStart \/ UpdateEnd

Next == Sync \/ Update \/ \E s \in Servers : Environment(s) \/ Server(s) \/ SyncServer(s)

Spec == Init /\ [][Next]_vars

(* The sync loop runs for ever, requests are answered or time out, a server  *)
(* works off its loads.  No step of training and no server is owed.          *)
Fairness ==
    /\ WF_vars(Sync) /\ WF_vars(UpdateEnd)
    /\ \A s \in Servers : WF_vars(SyncServer(s)) /\ WF_vars(Server(s))

FairSpec == Spec /\ Fairness

-----------------------------------------------------------------------------
(* Properties *)

Exposed == {s \in Servers : status[s] = "ready"}

(* A server is exposed only if it reports the adapter of the current step, and
   as long as no load has failed or been given up it runs that one, apart from
   the servers that an update has not come to yet and those that died
   unnoticed.  Loads that were given up go on in the server, updates follow
   each other, and servers come and go while either holds the lock
   (_sync_server_adapter, sync, sync_weights). *)
ExposedMatch ==
    \A s \in Exposed \ lost : task[s] # "query" =>
        /\ desired = 0 \/ host[s].root = desired
        /\ faults = 0 => host[s].weights = desired

(* Once faults and changes are over, every server that is listed and up gets
   into routing and stays there, with the adapter it was last asked for if it
   has not died since (the retries of sync and of the sync loop). *)
ServersJoin ==
    \A s \in Servers : <>[](s \in listed /\ host[s].up) => <>[](s \in Exposed)
=============================================================================
